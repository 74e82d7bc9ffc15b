----------------------- MODULE ShipmentRegistryProofs -----------------------
(***************************************************************************)
(* Theorems about ShipmentRegistry, for every set of requests, every       *)
(* traffic, and all the users, customers, shipments and events that a      *)
(* behaviour begins with.                                                  *)
(***************************************************************************)
EXTENDS ShipmentRegistry, FiniteSetTheorems, TLAPS

\* The steps a handler takes after its first.
Steps == {"insertUser", "checkUserEmail", "writeUser", "comparePassword",
          "insertCustomer", "checkCustomerEmail", "writeCustomer",
          "removeCustomer", "readHandler", "readCode", "geocode",
          "insertShipment", "removeShipment", "insertEvent", "readLocation",
          "list", "pageLeft", "totalLeft", "readLocations"}

AllRoutes == {"login", "createUser", "updateUser", "deleteUser",
              "updateProfile", "createCustomer", "updateCustomer",
              "deleteCustomer", "createShipment", "cancelShipment",
              "getShipment", "listShipments", "shipmentHistory",
              "allHistory", "addEvent"}

AllAnswers ==
  {"CUSTOMER_NOT_FOUND", "CUSTOMER_EMAIL_IN_USE", "USER_NOT_FOUND",
   "USER_EMAIL_IN_USE", "USER_INVALID", "USER_CUSTOMER_LINK_INVALID",
   "INVALID_CREDENTIALS", "FORBIDDEN", "SHIPMENT_NOT_FOUND",
   "SHIPMENT_CARGO_CODE_IN_USE", "SHIPMENT_CONFLICT",
   "IDEMPOTENCY_KEY_CONFLICT", "SHIPMENT_INVALID", "SHIPMENT_INVALID_DATES",
   "SHIPMENT_INVALID_TRANSITION", "SHIPMENT_HANDLER_REQUIRED",
   "SHIPMENT_HANDLER_INACTIVE", "CUSTOMER_SCOPE_MISSING",
   "GEOCODING_INVALID_ADDRESS", "GEOCODING_RESULT_NOT_FOUND",
   "GEOCODING_PROVIDER_UNAVAILABLE", "OK", "TOKEN_MISSING",
   "CUSTOMER_INVALID", "INTERNAL_ERROR"}

LEMMA RoutesListed == Routes = AllRoutes
  BY DEF Routes, AllRoutes, PublicRoutes, UserRoutes, ProfileRoutes,
         CustomerRoutes, RegisterRoutes, RemovalRoutes, ReadingRoutes,
         HistoryRoutes

LEMMA AnswersListed == Answers = AllAnswers
  BY DEF Answers, AllAnswers, StatusByCode

LEMMA StepsAreInFlight ==
  ASSUME NEW q \in Requests, pc[q] \in Steps
  PROVE  InFlight(q)
  BY RoutesListed, AnswersListed
  DEF InFlight, Steps, AllRoutes, AllAnswers

\* Answers are neither steps nor routes.
LEMMA AnswersEnd ==
  ASSUME NEW at \in Answers
  PROVE  at \notin Steps /\ at \notin Routes /\ at # "idle"
  BY RoutesListed, AnswersListed DEF Steps, AllRoutes, AllAnswers

LEMMA StepsAreNoRoutes ==
  ASSUME NEW at \in Steps
  PROVE  at \notin Routes /\ at # "idle"
  BY RoutesListed DEF Steps, AllRoutes

-----------------------------------------------------------------------------
\* A step of r leaves what is kept for the other requests alone.
OthersKept(r) ==
  /\ pc'   = [q \in Requests |-> pc'[q]]
  /\ token' = [q \in Requests |-> token'[q]]
  /\ arg'  = [q \in Requests |-> arg'[q]]
  /\ body' = [q \in Requests |-> body'[q]]
  /\ seen' = [q \in Requests |-> seen'[q]]
  /\ shown' = [q \in Requests |-> shown'[q]]
  /\ \A q \in Requests \ {r} :
       /\ pc'[q] = pc[q] /\ token'[q] = token[q] /\ arg'[q] = arg[q]
       /\ body'[q] = body[q] /\ seen'[q] = seen[q] /\ shown'[q] = shown[q]

LEMMA ProceedKeeps ==
  ASSUME TypeOK, NEW r \in Requests, NEW at, Proceed(r, at)
  PROVE  /\ OthersKept(r)
         /\ pc'[r] = at
         /\ UNCHANGED <<token, arg, body, seen, shown, disturbed>>
  BY DEF TypeOK, RequestsOK, Proceed, Goto, OthersKept

LEMMA TakeKeeps ==
  ASSUME TypeOK, NEW r \in Requests, NEW id, NEW sent, NEW read, NEW at,
         Take(r, id, sent, read, at)
  PROVE  /\ OthersKept(r)
         /\ pc'[r] = at /\ arg'[r] = id /\ body'[r] = sent /\ seen'[r] = read
         /\ UNCHANGED <<token, shown, disturbed>>
  BY DEF TypeOK, RequestsOK, Take, Goto, OthersKept

LEMMA CommitKeeps ==
  ASSUME TypeOK, NEW r \in Requests, Commit(r)
  PROVE  /\ OthersKept(r)
         /\ pc'[r] = "OK"
         /\ UNCHANGED <<token, arg, body, seen, shown>>
         /\ disturbed \subseteq disturbed'
         /\ \A q \in Requests \ {r} : InFlight(q) => q \in disturbed'
  BY DEF TypeOK, RequestsOK, Commit, Goto, OthersKept

-----------------------------------------------------------------------------
\* What a request rests on.
Founded(r) ==
  /\ GuardPassed(r)
  /\ UserWriteIsFounded(r)
  /\ CustomerWriteIsFounded(r)
  /\ ShipmentWriteIsFounded(r)
  /\ ReadIsFounded(r)

\* The tables and what is observed of them.
TablesInv ==
  /\ TypeOK /\ TokensWereTrue /\ HandlersOperate
  /\ ActivePrincipals(users) \subseteq held

LEMMA InvSplit == RegistryInv <=> TablesInv /\ \A r \in Requests : Founded(r)
  BY DEF RegistryInv, TablesInv, Founded

tables == <<directoryVars, registryVars>>

\* A step that writes no table keeps what it does not tell of a request of
\* its own.
LEMMA QuietStep ==
  ASSUME RegistryInv, NEW r \in Requests, OthersKept(r),
         UNCHANGED <<tables, disturbed>>, Founded(r)'
  PROVE  RegistryInv'
  <1>1. TablesInv'
    <2>1. TablesInv
      BY DEF RegistryInv, TablesInv
    <2>2. \A q \in Requests : token'[q] \in tokens \cup {NoPrincipal}
      BY DEF RegistryInv, Founded, GuardPassed, OthersKept, tables, directoryVars
    <2>3. TypeOK'
      BY <2>1 DEF TablesInv, TypeOK, RequestsOK, IdsOK, UsersOK, CustomersOK,
         ShipmentsOK, EventsOK, OthersKept, tables, directoryVars, registryVars,
         LinkDangles, WithCode
    <2>4. TokensWereTrue' /\ HandlersOperate' /\ (ActivePrincipals(users) \subseteq held)'
      BY <2>1 DEF TablesInv, TokensWereTrue, HandlersOperate, tables, directoryVars, registryVars
    <2> QED
      BY <2>3, <2>4 DEF TablesInv
  <1>2. ASSUME NEW q \in Requests \ {r} PROVE Founded(q)'
    <2>1. Founded(q)
      BY DEF RegistryInv, Founded
    <2>2. GuardPassed(q)'
      BY <2>1 DEF Founded, GuardPassed, OthersKept, tables, directoryVars
    <2>3. UserWriteIsFounded(q)'
      BY <2>1 DEF Founded, UserWriteIsFounded, OthersKept, tables, directoryVars
    <2>4. CustomerWriteIsFounded(q)'
      BY <2>1 DEF Founded, CustomerWriteIsFounded, OthersKept, tables, directoryVars, Merged
    <2>5. ShipmentWriteIsFounded(q)'
      BY <2>1 DEF Founded, ShipmentWriteIsFounded, OthersKept, tables, directoryVars, registryVars
    <2>6. ReadIsFounded(q)'
      BY <2>1 DEF Founded, ReadIsFounded, OthersKept, tables, directoryVars, registryVars,
         Sees, QueryInScope, CountOf, PageOf, KeyOf
    <2> QED
      BY <2>2, <2>3, <2>4, <2>5, <2>6 DEF Founded
  <1> QED
    BY <1>1, <1>2 DEF RegistryInv, TablesInv, Founded

\* What a write of r does to the tables, as far as the others are concerned.
Grows(r) ==
  /\ held \subseteq held' /\ tokens \subseteq tokens'
  /\ DOMAIN users \subseteq DOMAIN users'
  /\ \A s \in DOMAIN owner : s \in DOMAIN owner' /\ owner'[s] = owner[s]
  /\ \A s \in DOMAIN owner \cap DOMAIN shipments' :
       s \in DOMAIN shipments /\ shipments'[s] = shipments[s]
  /\ disturbed \subseteq disturbed'
  /\ \A q \in Requests \ {r} :
       InFlight(q) /\ q \notin disturbed' =>
         UNCHANGED <<users, customers, shipments, events>>

LEMMA WriteStep ==
  ASSUME RegistryInv, NEW r \in Requests, OthersKept(r), Grows(r),
         TablesInv', Founded(r)'
  PROVE  RegistryInv'
  <1>1. ASSUME NEW q \in Requests \ {r} PROVE Founded(q)'
    <2>1. Founded(q)
      BY DEF RegistryInv, Founded
    <2>2. pc[q] \in Steps /\ q \notin disturbed' =>
            q \notin disturbed /\ UNCHANGED <<users, customers, shipments, events>>
      BY StepsAreInFlight DEF Grows
    <2>3. GuardPassed(q)'
      BY <2>1 DEF Founded, GuardPassed, OthersKept, Grows
    <2>4. UserWriteIsFounded(q)'
      BY <2>1, <2>2 DEF Founded, UserWriteIsFounded, OthersKept, Grows, Steps
    <2>5. CustomerWriteIsFounded(q)'
      BY <2>1, <2>2 DEF Founded, CustomerWriteIsFounded, OthersKept, Grows, Merged, Steps
    <2>6. ShipmentWriteIsFounded(q)'
      BY <2>1, <2>2 DEF Founded, ShipmentWriteIsFounded, OthersKept, Grows, Steps
    <2>7. ReadIsFounded(q)'
      BY <2>1, <2>2 DEF Founded, ReadIsFounded, OthersKept, Grows,
         Sees, QueryInScope, CountOf, PageOf, KeyOf, Steps
    <2> QED
      BY <2>3, <2>4, <2>5, <2>6, <2>7 DEF Founded
  <1> QED
    BY <1>1 DEF RegistryInv, TablesInv, Founded

-----------------------------------------------------------------------------
\* A request that only takes an answer, or a step that nothing is told of.
LEMMA ProceedFounded ==
  ASSUME RegistryInv, NEW r \in Requests, NEW at, Proceed(r, at),
         UNCHANGED tables,
         at \in Answers
  PROVE  RegistryInv'
  <1>1. OthersKept(r) /\ pc'[r] = at
        /\ UNCHANGED <<token, arg, body, seen, shown, disturbed>>
    BY ProceedKeeps DEF RegistryInv
  <1>2. at \notin Steps /\ at \notin Routes /\ at # "idle"
    BY AnswersEnd
  <1>3. Founded(r)
    BY DEF RegistryInv, Founded
  <1>4. GuardPassed(r)'
    BY <1>1, <1>2, <1>3 DEF Founded, GuardPassed, Steps, tables, directoryVars
  <1>5. UserWriteIsFounded(r)' /\ CustomerWriteIsFounded(r)' /\ ShipmentWriteIsFounded(r)'
    BY <1>1, <1>2 DEF UserWriteIsFounded, CustomerWriteIsFounded,
       ShipmentWriteIsFounded, Steps
  <1>6. ReadIsFounded(r)'
    BY <1>1, <1>2, <1>3 DEF Founded, ReadIsFounded, Steps, Sees, tables, registryVars
  <1> QED
    BY <1>1, <1>4, <1>5, <1>6, QuietStep DEF Founded

\* A step that is neither of a login nor of a list keeps what the guard let
\* pass and what was read out.
LEMMA GuardAndReadKept ==
  ASSUME RegistryInv, NEW r \in Requests,
         tokens \subseteq tokens', UNCHANGED <<owner, token, shown>>,
         pc'[r] \in Steps \cup Answers,
         pc'[r] \notin {"comparePassword", "list", "pageLeft", "totalLeft"}
  PROVE  GuardPassed(r)' /\ ReadIsFounded(r)'
  <1>1. pc'[r] \notin Routes /\ pc'[r] # "idle"
    BY AnswersEnd, StepsAreNoRoutes
  <1>2. GuardPassed(r) /\ ReadIsFounded(r)
    BY DEF RegistryInv
  <1>3. GuardPassed(r)'
    BY <1>1, <1>2 DEF GuardPassed
  <1>4. ReadIsFounded(r)'
    BY <1>1, <1>2 DEF ReadIsFounded, Sees
  <1> QED
    BY <1>3, <1>4

\* What a request rests on depends on where it is.
LEMMA NoUserWrite ==
  ASSUME NEW r, pc'[r] \notin {"insertUser", "checkUserEmail", "writeUser"}
  PROVE  UserWriteIsFounded(r)'
  BY DEF UserWriteIsFounded

LEMMA NoCustomerWrite ==
  ASSUME NEW r, pc'[r] \notin {"insertCustomer", "checkCustomerEmail",
                               "writeCustomer", "removeCustomer"}
  PROVE  CustomerWriteIsFounded(r)'
  BY DEF CustomerWriteIsFounded

LEMMA NoShipmentWrite ==
  ASSUME NEW r, pc'[r] \notin {"readHandler", "readCode", "geocode",
                     "insertShipment", "removeShipment", "insertEvent"}
  PROVE  ShipmentWriteIsFounded(r)'
  BY DEF ShipmentWriteIsFounded

\* The three that only concern one kind of write.
LEMMA OnlyUserWrite ==
  ASSUME RegistryInv, NEW r \in Requests, OthersKept(r),
         UNCHANGED <<tables, disturbed, token, shown>>,
         pc'[r] \in Answers \cup {"insertUser", "checkUserEmail", "writeUser"},
         UserWriteIsFounded(r)'
  PROVE  RegistryInv'
  <1>1. pc'[r] \in Steps \cup Answers
        /\ pc'[r] \notin {"comparePassword", "list", "pageLeft", "totalLeft"}
    BY AnswersEnd DEF Steps
  <1>2. GuardPassed(r)' /\ ReadIsFounded(r)'
    BY <1>1, GuardAndReadKept DEF tables, directoryVars, registryVars
  <1>3. CustomerWriteIsFounded(r)' /\ ShipmentWriteIsFounded(r)'
    BY AnswersEnd, NoCustomerWrite, NoShipmentWrite DEF Steps
  <1> QED
    BY <1>2, <1>3, QuietStep DEF Founded

LEMMA OnlyCustomerWrite ==
  ASSUME RegistryInv, NEW r \in Requests, OthersKept(r),
         UNCHANGED <<tables, disturbed, token, shown>>,
         pc'[r] \in Answers \cup {"insertCustomer", "checkCustomerEmail",
                                  "writeCustomer", "removeCustomer"},
         CustomerWriteIsFounded(r)'
  PROVE  RegistryInv'
  <1>1. pc'[r] \in Steps \cup Answers
        /\ pc'[r] \notin {"comparePassword", "list", "pageLeft", "totalLeft"}
    BY AnswersEnd DEF Steps
  <1>2. GuardPassed(r)' /\ ReadIsFounded(r)'
    BY <1>1, GuardAndReadKept DEF tables, directoryVars, registryVars
  <1>3. UserWriteIsFounded(r)' /\ ShipmentWriteIsFounded(r)'
    BY AnswersEnd, NoUserWrite, NoShipmentWrite DEF Steps
  <1> QED
    BY <1>2, <1>3, QuietStep DEF Founded

LEMMA OnlyShipmentWrite ==
  ASSUME RegistryInv, NEW r \in Requests, OthersKept(r),
         UNCHANGED <<tables, disturbed, token, shown>>,
         pc'[r] \in Answers \cup {"readHandler", "readCode", "geocode",
                     "insertShipment", "removeShipment", "insertEvent"},
         ShipmentWriteIsFounded(r)'
  PROVE  RegistryInv'
  <1>1. pc'[r] \in Steps \cup Answers
        /\ pc'[r] \notin {"comparePassword", "list", "pageLeft", "totalLeft"}
    BY AnswersEnd DEF Steps
  <1>2. GuardPassed(r)' /\ ReadIsFounded(r)'
    BY <1>1, GuardAndReadKept DEF tables, directoryVars, registryVars
  <1>3. UserWriteIsFounded(r)' /\ CustomerWriteIsFounded(r)'
    BY AnswersEnd, NoUserWrite, NoCustomerWrite DEF Steps
  <1> QED
    BY <1>2, <1>3, QuietStep DEF Founded

-----------------------------------------------------------------------------
\* Arrivals.
LEMMA ArriveKeeps ==
  ASSUME RegistryInv, NEW r \in Requests, Arrive(r), UNCHANGED tables
  PROVE  RegistryInv'
  <1>1. TypeOK /\ Founded(r) /\ pc[r] = "idle"
    BY DEF RegistryInv, Founded, Arrive
  <1>2. /\ OthersKept(r)
        /\ UNCHANGED <<arg, body, seen, shown, disturbed>>
        /\ \/ pc'[r] \in PublicRoutes \cup {"TOKEN_MISSING"} /\ token' = token
           \/ pc'[r] = "FORBIDDEN" /\ token'[r] \in tokens
           \/ /\ pc'[r] \in Routes /\ token'[r] \in tokens
              /\ MayCall(token'[r].role, pc'[r])
    <2>1. PICK route \in Routes \cap DOMAIN traffic :
            IF route \in PublicRoutes THEN Proceed(r, route)
                                      ELSE Authenticate(r, route)
      BY DEF Arrive
    <2>2. CASE route \in PublicRoutes
      BY <1>1, <2>1, <2>2, ProceedKeeps
    <2>3. CASE route \notin PublicRoutes
      <3>1. CASE Proceed(r, "TOKEN_MISSING")
        BY <1>1, <3>1, ProceedKeeps
      <3>2. CASE \E t \in tokens :
                   /\ token' = [token EXCEPT ![r] = t]
                   /\ Goto(r, IF MayCall(t.role, route) THEN route ELSE "FORBIDDEN")
                   /\ UNCHANGED <<arg, body, seen, shown, disturbed>>
        <4>1. PICK t \in tokens :
                   /\ token' = [token EXCEPT ![r] = t]
                   /\ Goto(r, IF MayCall(t.role, route) THEN route ELSE "FORBIDDEN")
                   /\ UNCHANGED <<arg, body, seen, shown, disturbed>>
          BY <3>2
        <4>2. OthersKept(r)
          BY <1>1, <4>1 DEF TypeOK, RequestsOK, Goto, OthersKept
        <4>3. token'[r] = t
          BY <1>1, <4>1 DEF TypeOK, RequestsOK
        <4>4. pc'[r] = IF MayCall(t.role, route) THEN route ELSE "FORBIDDEN"
          BY <1>1, <4>1 DEF TypeOK, RequestsOK, Goto
        <4> QED
          BY <4>1, <4>2, <4>3, <4>4
      <3> QED
        BY <2>1, <2>3, <3>1, <3>2 DEF Authenticate, Proceed
    <2> QED
      BY <2>2, <2>3
  <1>3. pc'[r] \in AllRoutes \cup {"TOKEN_MISSING", "FORBIDDEN"}
    BY <1>2, RoutesListed DEF PublicRoutes, AllRoutes
  <1>4. pc'[r] \notin Steps
    BY <1>3 DEF AllRoutes, Steps
  <1>5. GuardPassed(r)'
    BY <1>1, <1>2, <1>4, RoutesListed DEF Founded, GuardPassed, tables, directoryVars,
       Steps, AllRoutes, PublicRoutes
  <1>6. UserWriteIsFounded(r)' /\ CustomerWriteIsFounded(r)' /\ ShipmentWriteIsFounded(r)'
    BY <1>4, NoUserWrite, NoCustomerWrite, NoShipmentWrite DEF Steps
  <1>7. ReadIsFounded(r)'
    BY <1>1, <1>2, <1>4 DEF Founded, ReadIsFounded, Steps
  <1> QED
    BY <1>2, <1>5, <1>6, <1>7, QuietStep DEF Founded

-----------------------------------------------------------------------------
\* The steps of the directory that write nothing.
LEMMA CreateUserKeeps ==
  ASSUME RegistryInv, NEW r \in Requests, CreateUser(r), UNCHANGED registryVars
  PROVE  RegistryInv'
  <1> USE DirectoryAssumption
  <1>1. TypeOK /\ UNCHANGED tables
    BY DEF RegistryInv, CreateUser, tables
  <1>2. CASE Proceed(r, "USER_INVALID")
    BY <1>1, <1>2, ProceedFounded, AnswersListed DEF AllAnswers
  <1>3. ASSUME NEW w \in NewUsers,
               Take(r, 0, w, NoRow,
                    IF ~LinkValid(w.role, w.customer)
                    THEN "USER_CUSTOMER_LINK_INVALID"
                    ELSE IF EmailTaken(users, w.email, 0) THEN "USER_EMAIL_IN_USE"
                                                          ELSE "insertUser")
        PROVE  RegistryInv'
    <2>1. /\ OthersKept(r) /\ body'[r] = w
          /\ pc'[r] \in {"USER_CUSTOMER_LINK_INVALID", "USER_EMAIL_IN_USE", "insertUser"}
          /\ pc'[r] = "insertUser" => ~EmailTaken(users, w.email, 0)
          /\ UNCHANGED <<token, shown, disturbed>>
      BY <1>1, <1>3, TakeKeeps
    <2>2. IsUser(w)
      OBVIOUS
    <2>3. UserWriteIsFounded(r)'
      BY <1>1, <2>1, <2>2 DEF UserWriteIsFounded, tables, directoryVars
    <2> QED
      BY <1>1, <2>1, <2>3, OnlyUserWrite, AnswersListed DEF AllAnswers
  <1> QED
    BY <1>2, <1>3 DEF CreateUser

\* An update accepted against the row that was just read.
LEMMA UpdateFounded ==
  ASSUME RegistryInv, NEW r \in Requests, NEW u \in DOMAIN users, NEW c,
         UNCHANGED tables, IsUserPatch(c),
         token[r].role = "ADMINISTRATOR" \/ DOMAIN c \subseteq {"email"},
         NEW at, at \in Answers \/ (PatchAccepted(users[u], c) /\ at = NextOfUpdate(users[u], c)),
         Take(r, u, c, users[u], at)
  PROVE  RegistryInv'
  <1>1. TypeOK
    BY DEF RegistryInv
  <1>2. /\ OthersKept(r) /\ pc'[r] = at /\ arg'[r] = u /\ body'[r] = c
        /\ seen'[r] = users[u]
        /\ UNCHANGED <<token, shown, disturbed>>
    BY <1>1, TakeKeeps
  <1>3. CASE at \in Answers
    BY <1>2, <1>3, AnswersEnd, NoUserWrite, OnlyUserWrite DEF Steps
  <1>4. CASE PatchAccepted(users[u], c) /\ at = NextOfUpdate(users[u], c)
    <2>1. at \in {"checkUserEmail", "writeUser"}
      BY <1>4 DEF NextOfUpdate
    <2>2. IsUser(users[u]) /\ ~EmailTaken(users, users[u].email, u)
      BY <1>1 DEF TypeOK, UsersOK
    <2>3. at = "writeUser" => Updated(users[u], c).email = users[u].email
      BY <1>4, <2>2 DEF NextOfUpdate, Updated, IsUser, UserFields
    <2>4. at = "checkUserEmail" => "email" \in DOMAIN c
      BY <1>4 DEF NextOfUpdate
    <2>5. users' = users
      BY DEF tables, directoryVars
    <2>6. UserWriteIsFounded(r)'
      BY <1>2, <1>4, <2>1, <2>2, <2>3, <2>4, <2>5 DEF UserWriteIsFounded
    <2> QED
      BY <1>2, <2>1, <2>6, OnlyUserWrite
  <1> QED
    BY <1>3, <1>4

LEMMA UpdateUserKeeps ==
  ASSUME RegistryInv, NEW r \in Requests, UpdateUser(r), UNCHANGED registryVars
  PROVE  RegistryInv'
  <1> USE DirectoryAssumption
  <1>1. TypeOK /\ UNCHANGED tables /\ GuardPassed(r)
    BY DEF RegistryInv, UpdateUser, tables
  <1>2. CASE \E error \in {"USER_NOT_FOUND", "USER_INVALID"} : Proceed(r, error)
    BY <1>1, <1>2, ProceedFounded, AnswersListed DEF AllAnswers
  <1>3. ASSUME NEW u \in DOMAIN users, NEW c \in UserPatches,
               Take(r, u, c, users[u],
                    IF PatchAccepted(users[u], c) THEN NextOfUpdate(users[u], c)
                                                  ELSE "USER_CUSTOMER_LINK_INVALID")
        PROVE  RegistryInv'
    <2>1. token[r].role = "ADMINISTRATOR"
      BY <1>1, RoutesListed DEF GuardPassed, UpdateUser, MayCall, UserRoutes,
         PublicRoutes, AllRoutes
    <2>2. "USER_CUSTOMER_LINK_INVALID" \in Answers
      BY AnswersListed DEF AllAnswers
    <2> QED
      BY <1>1, <1>3, <2>1, <2>2, UpdateFounded
  <1> QED
    BY <1>2, <1>3 DEF UpdateUser

LEMMA UpdateProfileKeeps ==
  ASSUME RegistryInv, NEW r \in Requests, UpdateProfile(r), UNCHANGED registryVars
  PROVE  RegistryInv'
  <1>1. TypeOK /\ UNCHANGED tables /\ GuardPassed(r) /\ TokensWereTrue
    BY DEF RegistryInv, UpdateProfile, tables
  <1>2. CASE \E error \in {"FORBIDDEN", "USER_INVALID"} : Proceed(r, error)
    BY <1>1, <1>2, ProceedFounded, AnswersListed DEF AllAnswers
  <1>3. ASSUME NEW e \in Emails,
               Take(r, token[r].user, [email |-> e], users[token[r].user],
                    NextOfUpdate(users[token[r].user], [email |-> e]))
        PROVE  RegistryInv'
    <2>1. token[r] \in held
      BY <1>1, RoutesListed DEF GuardPassed, UpdateProfile, AllRoutes,
         PublicRoutes, TokensWereTrue
    <2>2. token[r].user \in DOMAIN users
      BY <1>1, <2>1 DEF TypeOK, IdsOK
    <2>3. IsUserPatch([email |-> e]) /\ DOMAIN [email |-> e] \subseteq {"email"}
      BY DEF IsUserPatch, UserFields
    <2>4. PatchAccepted(users[token[r].user], [email |-> e])
      BY DEF PatchAccepted
    <2> QED
      BY <1>1, <1>3, <2>2, <2>3, <2>4, UpdateFounded
  <1> QED
    BY <1>2, <1>3 DEF UpdateProfile

LEMMA DeleteUserKeeps ==
  ASSUME RegistryInv, NEW r \in Requests, DeleteUser(r), UNCHANGED registryVars
  PROVE  RegistryInv'
  <1>1. TypeOK /\ UNCHANGED tables /\ GuardPassed(r)
    BY DEF RegistryInv, DeleteUser, tables
  <1>2. CASE Proceed(r, "USER_NOT_FOUND")
    BY <1>1, <1>2, ProceedFounded, AnswersListed DEF AllAnswers
  <1>3. ASSUME NEW u \in DOMAIN users,
               Take(r, u, SoftDelete, users[u], "writeUser")
        PROVE  RegistryInv'
    <2>1. token[r].role = "ADMINISTRATOR"
      BY <1>1, RoutesListed DEF GuardPassed, DeleteUser, MayCall, UserRoutes,
         PublicRoutes, AllRoutes
    <2>2. IsUserPatch(SoftDelete)
      BY DEF IsUserPatch, UserFields, SoftDelete
    <2>3. PatchAccepted(users[u], SoftDelete)
      BY DEF PatchAccepted, SoftDelete
    <2>4. "writeUser" = NextOfUpdate(users[u], SoftDelete)
      BY DEF NextOfUpdate, SoftDelete
    <2> QED
      BY <1>1, <1>3, <2>1, <2>2, <2>3, <2>4, UpdateFounded
  <1> QED
    BY <1>2, <1>3 DEF DeleteUser

\* A step that goes on with what was read.
LEMMA CheckUserEmailKeeps ==
  ASSUME RegistryInv, NEW r \in Requests, CheckUserEmail(r), UNCHANGED registryVars
  PROVE  RegistryInv'
  <1> DEFINE at == IF EmailTaken(users, body[r].email, arg[r])
                   THEN "USER_EMAIL_IN_USE" ELSE "writeUser"
  <1>1. TypeOK /\ UNCHANGED tables /\ UserWriteIsFounded(r) /\ Proceed(r, at)
        /\ pc[r] = "checkUserEmail"
    BY DEF RegistryInv, CheckUserEmail, tables
  <1>2. /\ OthersKept(r) /\ pc'[r] = at
        /\ UNCHANGED <<token, arg, body, seen, shown, disturbed>>
    BY <1>1, ProceedKeeps
  <1>3. Updated(seen[r], body[r]).email = body[r].email
    BY <1>1 DEF UserWriteIsFounded, Updated, IsUser, UserFields
  <1>4. at \in {"USER_EMAIL_IN_USE", "writeUser"}
        /\ (at = "writeUser" => ~EmailTaken(users, body[r].email, arg[r]))
    OBVIOUS
  <1>5. users' = users
    BY <1>1 DEF tables, directoryVars
  <1> HIDE DEF at
  <1>6. UserWriteIsFounded(r)'
    BY <1>1, <1>2, <1>3, <1>4, <1>5 DEF UserWriteIsFounded
  <1> QED
    BY <1>1, <1>2, <1>4, <1>6, OnlyUserWrite, AnswersListed DEF AllAnswers

LEMMA LoginKeeps ==
  ASSUME RegistryInv, NEW r \in Requests, Login(r), UNCHANGED registryVars
  PROVE  RegistryInv'
  <1>1. TypeOK /\ UNCHANGED tables /\ Founded(r)
    BY DEF RegistryInv, Founded, Login, tables
  <1>2. CASE Proceed(r, "USER_INVALID") \/ Proceed(r, "INVALID_CREDENTIALS")
    BY <1>1, <1>2, ProceedFounded, AnswersListed DEF AllAnswers
  <1>3. ASSUME NEW u \in DOMAIN users, users[u].active,
               Take(r, u, NoRow, users[u], "comparePassword")
        PROVE  RegistryInv'
    <2>1. /\ OthersKept(r) /\ pc'[r] = "comparePassword" /\ arg'[r] = u
          /\ seen'[r] = users[u]
          /\ UNCHANGED <<token, shown, disturbed>>
      BY <1>1, <1>3, TakeKeeps
    <2>2. PrincipalOf(u, users[u]) \in held
      BY <1>3 DEF RegistryInv, ActivePrincipals
    <2>3. pc'[r] \notin Routes /\ pc'[r] # "idle"
      BY <2>1, RoutesListed DEF AllRoutes
    <2>4. GuardPassed(r)'
      BY <1>1, <2>1, <2>2, <2>3 DEF Founded, GuardPassed, tables, directoryVars, PrincipalOf
    <2>5. ReadIsFounded(r)'
      BY <1>1, <2>1, <2>3 DEF Founded, ReadIsFounded, Sees, tables, registryVars
    <2>6. UserWriteIsFounded(r)' /\ CustomerWriteIsFounded(r)' /\ ShipmentWriteIsFounded(r)'
      BY <2>1, NoUserWrite, NoCustomerWrite, NoShipmentWrite
    <2> QED
      BY <1>1, <2>1, <2>4, <2>5, <2>6, QuietStep DEF Founded
  <1> QED
    BY <1>2, <1>3 DEF Login

LEMMA CreateCustomerKeeps ==
  ASSUME RegistryInv, NEW r \in Requests, CreateCustomer(r), UNCHANGED registryVars
  PROVE  RegistryInv'
  <1> USE DirectoryAssumption
  <1>1. TypeOK /\ UNCHANGED tables
    BY DEF RegistryInv, CreateCustomer, tables
  <1>2. CASE Proceed(r, "CUSTOMER_INVALID")
    BY <1>1, <1>2, ProceedFounded, AnswersListed DEF AllAnswers
  <1>3. ASSUME NEW w \in NewCustomers,
               Take(r, 0, w, NoRow,
                    IF EmailTaken(customers, w.email, 0) THEN "CUSTOMER_EMAIL_IN_USE"
                                                         ELSE "insertCustomer")
        PROVE  RegistryInv'
    <2>1. /\ OthersKept(r) /\ body'[r] = w
          /\ pc'[r] \in {"CUSTOMER_EMAIL_IN_USE", "insertCustomer"}
          /\ pc'[r] = "insertCustomer" => ~EmailTaken(customers, w.email, 0)
          /\ UNCHANGED <<token, shown, disturbed>>
      BY <1>1, <1>3, TakeKeeps
    <2>2. CustomerWriteIsFounded(r)'
      BY <1>1, <2>1 DEF CustomerWriteIsFounded, tables, directoryVars
    <2> QED
      BY <1>1, <2>1, <2>2, OnlyCustomerWrite, AnswersListed DEF AllAnswers
  <1> QED
    BY <1>2, <1>3 DEF CreateCustomer

LEMMA UpdateCustomerKeeps ==
  ASSUME RegistryInv, NEW r \in Requests, UpdateCustomer(r), UNCHANGED registryVars
  PROVE  RegistryInv'
  <1> USE DirectoryAssumption
  <1>1. TypeOK /\ UNCHANGED tables
    BY DEF RegistryInv, UpdateCustomer, tables
  <1>2. CASE \E error \in {"CUSTOMER_NOT_FOUND", "CUSTOMER_INVALID"} : Proceed(r, error)
    BY <1>1, <1>2, ProceedFounded, AnswersListed DEF AllAnswers
  <1>3. ASSUME NEW c \in DOMAIN customers, NEW p \in CustomerPatches,
               Take(r, c, p, customers[c],
                    IF Updated(customers[c], p).email # customers[c].email
                    THEN "checkCustomerEmail" ELSE "writeCustomer")
        PROVE  RegistryInv'
    <2>1. /\ OthersKept(r) /\ body'[r] = p /\ arg'[r] = c /\ seen'[r] = customers[c]
          /\ pc'[r] \in {"checkCustomerEmail", "writeCustomer"}
          /\ pc'[r] = "writeCustomer" =>
               Updated(customers[c], p).email = customers[c].email
          /\ UNCHANGED <<token, shown, disturbed>>
      BY <1>1, <1>3, TakeKeeps
    <2>2. IsCustomer(customers[c]) /\ ~EmailTaken(customers, customers[c].email, c)
          /\ customers' = customers
      BY <1>1 DEF TypeOK, CustomersOK, tables, directoryVars
    <2>3. CustomerWriteIsFounded(r)'
      BY <2>1, <2>2 DEF CustomerWriteIsFounded, Merged
    <2> QED
      BY <1>1, <2>1, <2>3, OnlyCustomerWrite
  <1> QED
    BY <1>2, <1>3 DEF UpdateCustomer

LEMMA CheckCustomerEmailKeeps ==
  ASSUME RegistryInv, NEW r \in Requests, CheckCustomerEmail(r), UNCHANGED registryVars
  PROVE  RegistryInv'
  <1> DEFINE at == IF EmailTaken(customers, Merged(r).email, arg[r])
                   THEN "CUSTOMER_EMAIL_IN_USE" ELSE "writeCustomer"
  <1>1. TypeOK /\ UNCHANGED tables /\ CustomerWriteIsFounded(r) /\ Proceed(r, at)
        /\ pc[r] = "checkCustomerEmail"
    BY DEF RegistryInv, CheckCustomerEmail, tables
  <1>2. /\ OthersKept(r) /\ pc'[r] = at
        /\ UNCHANGED <<token, arg, body, seen, shown, disturbed>>
    BY <1>1, ProceedKeeps
  <1>3. at \in {"CUSTOMER_EMAIL_IN_USE", "writeCustomer"}
        /\ (at = "writeCustomer" => ~EmailTaken(customers, Merged(r).email, arg[r]))
    OBVIOUS
  <1>4. customers' = customers
    BY <1>1 DEF tables, directoryVars
  <1> HIDE DEF at
  <1>5. CustomerWriteIsFounded(r)'
    BY <1>1, <1>2, <1>3, <1>4 DEF CustomerWriteIsFounded, Merged
  <1> QED
    BY <1>1, <1>2, <1>3, <1>5, OnlyCustomerWrite, AnswersListed DEF AllAnswers

LEMMA DeleteCustomerKeeps ==
  ASSUME RegistryInv, NEW r \in Requests, DeleteCustomer(r), UNCHANGED registryVars
  PROVE  RegistryInv'
  <1>1. TypeOK /\ UNCHANGED tables
    BY DEF RegistryInv, DeleteCustomer, tables
  <1>2. CASE Proceed(r, "CUSTOMER_NOT_FOUND")
    BY <1>1, <1>2, ProceedFounded, AnswersListed DEF AllAnswers
  <1>3. ASSUME NEW c \in DOMAIN customers,
               Take(r, c, NoRow, customers[c], "removeCustomer")
        PROVE  RegistryInv'
    <2>1. /\ OthersKept(r) /\ arg'[r] = c /\ pc'[r] = "removeCustomer"
          /\ UNCHANGED <<token, shown, disturbed>>
      BY <1>1, <1>3, TakeKeeps
    <2>2. CustomerWriteIsFounded(r)'
      BY <1>1, <2>1 DEF CustomerWriteIsFounded, tables, directoryVars
    <2> QED
      BY <1>1, <2>1, <2>2, OnlyCustomerWrite
  <1> QED
    BY <1>2, <1>3 DEF DeleteCustomer

-----------------------------------------------------------------------------
\* The steps of the directory that write.
LEMMA AnsweredFounded ==
  ASSUME RegistryInv, NEW r \in Requests, pc'[r] \in Answers,
         UNCHANGED <<token, shown>>, tokens \subseteq tokens',
         \A s \in DOMAIN owner : s \in DOMAIN owner' /\ owner'[s] = owner[s]
  PROVE  Founded(r)'
  <1>1. Founded(r)
    BY DEF RegistryInv, Founded
  <1>2. pc'[r] \notin Steps /\ pc'[r] \notin Routes /\ pc'[r] # "idle"
    BY AnswersEnd
  <1>3. GuardPassed(r)'
    BY <1>1, <1>2 DEF Founded, GuardPassed, Steps
  <1>4. UserWriteIsFounded(r)' /\ CustomerWriteIsFounded(r)' /\ ShipmentWriteIsFounded(r)'
    BY <1>2, NoUserWrite, NoCustomerWrite, NoShipmentWrite DEF Steps
  <1>5. ReadIsFounded(r)'
    BY <1>1, <1>2 DEF Founded, ReadIsFounded, Steps, Sees
  <1> QED
    BY <1>3, <1>4, <1>5 DEF Founded

LEMMA CommitStep ==
  ASSUME RegistryInv, NEW r \in Requests, Commit(r),
         held \subseteq held', tokens \subseteq tokens',
         DOMAIN users \subseteq DOMAIN users',
         \A s \in DOMAIN owner : s \in DOMAIN owner' /\ owner'[s] = owner[s],
         \A s \in DOMAIN owner \cap DOMAIN shipments' :
           s \in DOMAIN shipments /\ shipments'[s] = shipments[s],
         OthersKept(r) => TablesInv'
  PROVE  RegistryInv'
  <1>1. /\ OthersKept(r)
        /\ pc'[r] = "OK"
        /\ UNCHANGED <<token, arg, body, seen, shown>>
        /\ disturbed \subseteq disturbed'
        /\ \A q \in Requests \ {r} : InFlight(q) => q \in disturbed'
    BY CommitKeeps DEF RegistryInv
  <1>2. Founded(r)'
    BY <1>1, AnsweredFounded, AnswersListed DEF AllAnswers
  <1>3. Grows(r)
    BY <1>1 DEF Grows
  <1> QED
    BY <1>1, <1>2, <1>3, WriteStep

\* A row more, or another row in its place, in a table with unique emails.
LEMMA PutUnique ==
  ASSUME NEW table, NEW id, NEW row, NEW t2,
         DOMAIN t2 = DOMAIN table \cup {id},
         \A i \in DOMAIN t2 : t2[i] = IF i = id THEN row ELSE table[i],
         \A i \in DOMAIN table : ~EmailTaken(table, table[i].email, i),
         ~EmailTaken(table, row.email, id)
  PROVE  \A i \in DOMAIN t2 : ~EmailTaken(t2, t2[i].email, i)
  BY DEF EmailTaken

\* A table that is not written stays well-formed when what it refers to does.
LEMMA CustomersStay ==
  ASSUME CustomersOK, UNCHANGED customers PROVE CustomersOK'
  BY DEF CustomersOK

LEMMA UsersStay ==
  ASSUME UsersOK, UNCHANGED <<users, customers>> PROVE UsersOK'
  BY DEF UsersOK, LinkDangles

LEMMA ShipmentsStay ==
  ASSUME ShipmentsOK, UNCHANGED <<shipments, owner>>,
         DOMAIN users \subseteq DOMAIN users',
         \A s \in DOMAIN shipments : shipments[s].customer \in DOMAIN customers'
  PROVE  ShipmentsOK'
  BY DEF ShipmentsOK, WithCode

LEMMA EventsStay ==
  ASSUME EventsOK, UNCHANGED <<shipments, events>> PROVE EventsOK'
  BY DEF EventsOK

LEMMA InsertUserKeeps ==
  ASSUME RegistryInv, NEW r \in Requests, InsertUser(r), UNCHANGED registryVars
  PROVE  RegistryInv'
  <1>1. TypeOK /\ TablesInv /\ UserWriteIsFounded(r) /\ pc[r] = "insertUser"
    BY DEF RegistryInv, TablesInv, InsertUser
  <1>2. CASE \E error \in {"INTERNAL_ERROR", "USER_CUSTOMER_LINK_INVALID"} :
               Proceed(r, error) /\ UNCHANGED directoryVars
    BY <1>2, ProceedFounded, AnswersListed DEF AllAnswers, tables
  <1>3. CASE /\ ~EmailTaken(users, body[r].email, 0)
             /\ ~LinkDangles(body[r].customer)
             /\ lastId' = lastId + 1
             /\ users'  = Put(users, lastId', body[r])
             /\ held'   = held \cup ActivePrincipals(users')
             /\ Commit(r)
             /\ UNCHANGED <<customers, tokens>>
    <2>1. lastId' \notin DOMAIN users /\ lastId \in Nat
      BY <1>1, <1>3 DEF TypeOK, IdsOK
    <2>2. IsUser(body[r])
      BY <1>1 DEF UserWriteIsFounded
    <2>3. /\ DOMAIN users' = DOMAIN users \cup {lastId'}
          /\ \A u \in DOMAIN users' : users'[u] = IF u = lastId' THEN body[r] ELSE users[u]
      BY <1>3 DEF Put
    <2>4. UsersOK'
      <3>1. ~EmailTaken(users, body[r].email, lastId')
        BY <1>1, <1>3, <2>1 DEF EmailTaken, TypeOK, IdsOK
      <3>2. \A u \in DOMAIN users' : ~EmailTaken(users', users'[u].email, u)
        BY <1>1, <2>3, <3>1, PutUnique DEF TypeOK, UsersOK
      <3> QED
        BY <1>1, <1>3, <2>2, <2>3, <3>2 DEF TypeOK, UsersOK, LinkDangles
    <2>5. IdsOK'
      <3>1. ActivePrincipals(users') \subseteq
              [user : DOMAIN users', role : UserRoles, customer : Nat]
        BY <2>4 DEF UsersOK, ActivePrincipals, PrincipalOf, IsUser
      <3>2. held' \subseteq [user : DOMAIN users', role : UserRoles, customer : Nat]
        BY <1>1, <1>3, <2>3, <3>1 DEF TypeOK, IdsOK
      <3> QED
        BY <1>1, <1>3, <2>1, <2>3, <3>2 DEF TypeOK, IdsOK, registryVars
    <2>6. CustomersOK' /\ EventsOK'
      BY <1>1, <1>3, CustomersStay, EventsStay DEF TypeOK, registryVars
    <2>7. ShipmentsOK'
      BY <1>1, <1>3, <2>3, ShipmentsStay DEF TypeOK, ShipmentsOK, registryVars
    <2>8. TokensWereTrue' /\ HandlersOperate' /\ (ActivePrincipals(users) \subseteq held)'
      BY <1>1, <1>3 DEF TablesInv, TokensWereTrue, HandlersOperate, registryVars
    <2>9. OthersKept(r) => TablesInv'
      BY <2>4, <2>5, <2>6, <2>7, <2>8 DEF TablesInv, TypeOK, RequestsOK, OthersKept
    <2> QED
      BY <1>3, <2>3, <2>9, CommitStep DEF registryVars
  <1> QED
    BY <1>2, <1>3 DEF InsertUser

LEMMA UpdatedUser ==
  ASSUME NEW w, NEW c, IsUser(w), IsUserPatch(c)
  PROVE  IsUser(Updated(w, c))
  BY DEF IsUser, IsUserPatch, Updated, UserFields

LEMMA WriteUserKeeps ==
  ASSUME RegistryInv, NEW r \in Requests, WriteUser(r), UNCHANGED registryVars
  PROVE  RegistryInv'
  <1> DEFINE u == arg[r]
             row == Updated(users[u], body[r])
  <1>1. /\ TypeOK /\ TablesInv /\ UserWriteIsFounded(r)
        /\ u \in DOMAIN users /\ IsUserPatch(body[r])
    BY DEF RegistryInv, TablesInv, WriteUser, UserWriteIsFounded
  <1>2. CASE \E error \in {"INTERNAL_ERROR", "USER_CUSTOMER_LINK_INVALID"} :
               Proceed(r, error) /\ UNCHANGED directoryVars
    BY <1>2, ProceedFounded, AnswersListed DEF AllAnswers, tables
  <1>3. CASE /\ ~EmailTaken(users, row.email, u)
             /\ ~LinkDangles(row.customer)
             /\ users' = [users EXCEPT ![u] = row]
             /\ held'  = held \cup ActivePrincipals(users')
             /\ Commit(r)
             /\ UNCHANGED <<customers, tokens, lastId>>
    <2>1. IsUser(row)
      BY <1>1, UpdatedUser DEF TypeOK, UsersOK
    <2> HIDE DEF u, row
    <2>2. /\ DOMAIN users' = DOMAIN users /\ DOMAIN users' = DOMAIN users \cup {u}
          /\ \A v \in DOMAIN users' : users'[v] = IF v = u THEN row ELSE users[v]
      BY <1>1, <1>3
    <2>3. UsersOK'
      <3>1. \A v \in DOMAIN users' : ~EmailTaken(users', users'[v].email, v)
        BY <1>1, <1>3, <2>2, PutUnique DEF TypeOK, UsersOK
      <3> QED
        BY <1>1, <1>3, <2>1, <2>2, <3>1 DEF TypeOK, UsersOK, LinkDangles
    <2>4. IdsOK'
      <3>1. ActivePrincipals(users') \subseteq
              [user : DOMAIN users', role : UserRoles, customer : Nat]
        BY <2>3 DEF UsersOK, ActivePrincipals, PrincipalOf, IsUser
      <3>2. held' \subseteq [user : DOMAIN users', role : UserRoles, customer : Nat]
        BY <1>1, <1>3, <2>2, <3>1 DEF TypeOK, IdsOK
      <3> QED
        BY <1>1, <1>3, <2>2, <3>2 DEF TypeOK, IdsOK, registryVars
    <2>5. CustomersOK' /\ EventsOK'
      BY <1>1, <1>3, CustomersStay, EventsStay DEF TypeOK, registryVars
    <2>6. ShipmentsOK'
      BY <1>1, <1>3, <2>2, ShipmentsStay DEF TypeOK, ShipmentsOK, registryVars
    <2>7. TokensWereTrue' /\ HandlersOperate' /\ (ActivePrincipals(users) \subseteq held)'
      BY <1>1, <1>3 DEF TablesInv, TokensWereTrue, HandlersOperate, registryVars
    <2>8. OthersKept(r) => TablesInv'
      BY <2>3, <2>4, <2>5, <2>6, <2>7 DEF TablesInv, TypeOK, RequestsOK, OthersKept
    <2> QED
      BY <1>3, <2>2, <2>8, CommitStep DEF registryVars
  <1> QED
    BY <1>2, <1>3 DEF WriteUser

LEMMA ComparePasswordKeeps ==
  ASSUME RegistryInv, NEW r \in Requests, ComparePassword(r), UNCHANGED registryVars
  PROVE  RegistryInv'
  <1>1. TypeOK /\ TablesInv /\ GuardPassed(r) /\ pc[r] = "comparePassword"
    BY DEF RegistryInv, TablesInv, ComparePassword
  <1>2. CASE Proceed(r, "INVALID_CREDENTIALS") /\ UNCHANGED directoryVars
    BY <1>2, ProceedFounded, AnswersListed DEF AllAnswers, tables
  <1>3. CASE /\ Proceed(r, "OK")
             /\ Sign(r)
             /\ UNCHANGED <<users, customers, held, lastId>>
    <2>1. /\ OthersKept(r) /\ pc'[r] = "OK"
          /\ UNCHANGED <<token, arg, body, seen, shown, disturbed>>
      BY <1>1, <1>3, ProceedKeeps
    <2>2. tokens \subseteq tokens' /\ TokensWereTrue'
      BY <1>1, <1>3 DEF Sign, GuardPassed, TablesInv, TokensWereTrue
    <2>3. TypeOK'
      BY <1>1, <1>3, <2>1 DEF TypeOK, RequestsOK, IdsOK, UsersOK, CustomersOK,
         ShipmentsOK, EventsOK, OthersKept, registryVars, LinkDangles, WithCode
    <2>4. TablesInv'
      BY <1>1, <1>3, <2>2, <2>3 DEF TablesInv, HandlersOperate, registryVars
    <2>5. Founded(r)'
      BY <2>1, <2>2, AnsweredFounded, AnswersListed DEF AllAnswers, registryVars
    <2>6. Grows(r)
      BY <1>3, <2>1, <2>2 DEF Grows, registryVars
    <2> QED
      BY <2>1, <2>4, <2>5, <2>6, WriteStep
  <1> QED
    BY <1>2, <1>3 DEF ComparePassword

LEMMA InsertCustomerKeeps ==
  ASSUME RegistryInv, NEW r \in Requests, InsertCustomer(r), UNCHANGED registryVars
  PROVE  RegistryInv'
  <1>1. TypeOK /\ TablesInv /\ CustomerWriteIsFounded(r) /\ pc[r] = "insertCustomer"
    BY DEF RegistryInv, TablesInv, InsertCustomer
  <1>2. CASE Proceed(r, "INTERNAL_ERROR") /\ UNCHANGED directoryVars
    BY <1>2, ProceedFounded, AnswersListed DEF AllAnswers, tables
  <1>3. CASE /\ ~EmailTaken(customers, body[r].email, 0)
             /\ lastId' = lastId + 1
             /\ customers' = Put(customers, lastId', body[r])
             /\ Commit(r)
             /\ UNCHANGED <<users, tokens, held>>
    <2>1. lastId' \notin DOMAIN customers /\ lastId \in Nat
      BY <1>1, <1>3 DEF TypeOK, IdsOK
    <2>2. IsCustomer(body[r])
      BY <1>1 DEF CustomerWriteIsFounded
    <2>3. /\ DOMAIN customers' = DOMAIN customers \cup {lastId'}
          /\ \A c \in DOMAIN customers' :
               customers'[c] = IF c = lastId' THEN body[r] ELSE customers[c]
      BY <1>3 DEF Put
    <2>4. CustomersOK'
      <3>1. ~EmailTaken(customers, body[r].email, lastId')
        BY <1>1, <1>3, <2>1 DEF EmailTaken, TypeOK, IdsOK
      <3>2. \A c \in DOMAIN customers' : ~EmailTaken(customers', customers'[c].email, c)
        BY <1>1, <2>3, <3>1, PutUnique DEF TypeOK, CustomersOK
      <3> QED
        BY <1>1, <2>2, <2>3, <3>2 DEF TypeOK, CustomersOK
    <2>5. IdsOK'
      BY <1>1, <1>3, <2>1, <2>3 DEF TypeOK, IdsOK, registryVars
    <2>6. UsersOK'
      BY <1>1, <1>3, <2>3 DEF TypeOK, UsersOK, LinkDangles
    <2>7. ShipmentsOK' /\ EventsOK'
      BY <1>1, <1>3, <2>3, ShipmentsStay, EventsStay DEF TypeOK, ShipmentsOK, registryVars
    <2>8. TokensWereTrue' /\ HandlersOperate' /\ (ActivePrincipals(users) \subseteq held)'
      BY <1>1, <1>3 DEF TablesInv, TokensWereTrue, HandlersOperate, registryVars
    <2>9. OthersKept(r) => TablesInv'
      BY <2>4, <2>5, <2>6, <2>7, <2>8 DEF TablesInv, TypeOK, RequestsOK, OthersKept
    <2> QED
      BY <1>3, <2>9, CommitStep DEF registryVars
  <1> QED
    BY <1>2, <1>3 DEF InsertCustomer

LEMMA UpdatedCustomer ==
  ASSUME NEW w, NEW c, IsCustomer(w), IsCustomerPatch(c)
  PROVE  IsCustomer(Updated(w, c))
  BY DEF IsCustomer, IsCustomerPatch, Updated, CustomerFields

LEMMA WriteCustomerKeeps ==
  ASSUME RegistryInv, NEW r \in Requests, WriteCustomer(r), UNCHANGED registryVars
  PROVE  RegistryInv'
  <1> DEFINE c == arg[r]
             row == Merged(r)
  <1>1. TypeOK /\ TablesInv /\ CustomerWriteIsFounded(r) /\ pc[r] = "writeCustomer"
    BY DEF RegistryInv, TablesInv, WriteCustomer
  <1>2. CASE Proceed(r, "INTERNAL_ERROR") /\ UNCHANGED directoryVars
    BY <1>2, ProceedFounded, AnswersListed DEF AllAnswers, tables
  <1>3. CASE /\ c \in DOMAIN customers /\ ~EmailTaken(customers, row.email, c)
             /\ customers' = [customers EXCEPT ![c] = row]
             /\ Commit(r)
             /\ UNCHANGED <<users, tokens, held, lastId>>
    <2>1. IsCustomer(row)
      BY <1>1, UpdatedCustomer DEF CustomerWriteIsFounded, Merged
    <2> HIDE DEF c, row
    <2>2. /\ DOMAIN customers' = DOMAIN customers
          /\ DOMAIN customers' = DOMAIN customers \cup {c}
          /\ \A d \in DOMAIN customers' :
               customers'[d] = IF d = c THEN row ELSE customers[d]
      BY <1>3
    <2>3. CustomersOK'
      <3>1. \A d \in DOMAIN customers' : ~EmailTaken(customers', customers'[d].email, d)
        BY <1>1, <1>3, <2>2, PutUnique DEF TypeOK, CustomersOK
      <3> QED
        BY <1>1, <2>1, <2>2, <3>1 DEF TypeOK, CustomersOK
    <2>4. IdsOK'
      BY <1>1, <1>3, <2>2 DEF TypeOK, IdsOK, registryVars
    <2>5. UsersOK'
      BY <1>1, <1>3, <2>2 DEF TypeOK, UsersOK, LinkDangles
    <2>6. ShipmentsOK' /\ EventsOK'
      BY <1>1, <1>3, <2>2, ShipmentsStay, EventsStay DEF TypeOK, ShipmentsOK, registryVars
    <2>7. TokensWereTrue' /\ HandlersOperate' /\ (ActivePrincipals(users) \subseteq held)'
      BY <1>1, <1>3 DEF TablesInv, TokensWereTrue, HandlersOperate, registryVars
    <2>8. OthersKept(r) => TablesInv'
      BY <2>3, <2>4, <2>5, <2>6, <2>7 DEF TablesInv, TypeOK, RequestsOK, OthersKept
    <2> QED
      BY <1>3, <2>8, CommitStep DEF registryVars
  <1> QED
    BY <1>2, <1>3 DEF WriteCustomer

\* A customer goes when no user and no shipment refers to it.
LEMMA RemoveCustomerKeeps ==
  ASSUME RegistryInv, NEW r \in Requests, RemoveCustomer(r, Referenced(arg[r])),
         UNCHANGED registryVars
  PROVE  RegistryInv'
  <1> DEFINE c == arg[r]
  <1>1. TypeOK /\ TablesInv
    BY DEF RegistryInv, TablesInv
  <1>2. CASE Proceed(r, "INTERNAL_ERROR") /\ UNCHANGED directoryVars
    BY <1>2, ProceedFounded, AnswersListed DEF AllAnswers, tables
  <1>3. CASE /\ c \in DOMAIN customers /\ ~Referenced(c)
             /\ customers' = Without(customers, {c})
             /\ Commit(r)
             /\ UNCHANGED <<users, tokens, held, lastId>>
    <2> HIDE DEF c
    <2>1. /\ DOMAIN customers' = DOMAIN customers \ {c}
          /\ \A d \in DOMAIN customers' : customers'[d] = customers[d]
      BY <1>3 DEF Without
    <2>2. CustomersOK'
      BY <1>1, <2>1 DEF TypeOK, CustomersOK, EmailTaken
    <2>3. IdsOK'
      BY <1>1, <1>3, <2>1 DEF TypeOK, IdsOK, registryVars
    <2>4. UsersOK'
      BY <1>1, <1>3, <2>1 DEF TypeOK, UsersOK, LinkDangles, Referenced
    <2>5. ShipmentsOK' /\ EventsOK'
      BY <1>1, <1>3, <2>1, ShipmentsStay, EventsStay
      DEF TypeOK, ShipmentsOK, registryVars, Referenced
    <2>6. TokensWereTrue' /\ HandlersOperate' /\ (ActivePrincipals(users) \subseteq held)'
      BY <1>1, <1>3 DEF TablesInv, TokensWereTrue, HandlersOperate, registryVars
    <2>7. OthersKept(r) => TablesInv'
      BY <2>2, <2>3, <2>4, <2>5, <2>6 DEF TablesInv, TypeOK, RequestsOK, OthersKept
    <2> QED
      BY <1>3, <2>7, CommitStep DEF registryVars
  <1> QED
    BY <1>2, <1>3 DEF RemoveCustomer

-----------------------------------------------------------------------------
\* Registration.
LEMMA CreateShipmentKeeps ==
  ASSUME RegistryInv, NEW r \in Requests, CreateShipment(r)
  PROVE  RegistryInv'
  <1> USE RegistryAssumption
  <1>1. /\ TypeOK /\ UNCHANGED tables /\ GuardPassed(r) /\ TokensWereTrue
        /\ pc[r] = "createShipment"
    BY DEF RegistryInv, CreateShipment, tables
  <1>2. CASE \E error \in RegistrationErrors : Proceed(r, error)
    BY <1>1, <1>2, ProceedFounded, AnswersListed DEF AllAnswers, RegistrationErrors
  <1>3. ASSUME NEW b \in Registrations,
               LET own == Ownership(token[r], b.customer, b.handler) IN
                 Take(r, 0, Registration(own, b.code, b.departureDate), NoRow,
                      FirstCheck(token[r], own))
        PROVE  RegistryInv'
    <2> DEFINE own == Ownership(token[r], b.customer, b.handler)
               row == Registration(own, b.code, b.departureDate)
               at  == FirstCheck(token[r], own)
    <2>1. /\ token[r] \in held
          /\ token[r] \in [user : DOMAIN users, role : UserRoles, customer : Nat]
          /\ token[r].role = "ADMINISTRATOR" \/ token[r].role = "OPERATOR"
      BY <1>1, RoutesListed DEF GuardPassed, AllRoutes, PublicRoutes, TokensWereTrue,
         TypeOK, IdsOK, MayCall, RegisterRoutes
    <2>2. at \in {"readHandler", "readCode", "CUSTOMER_NOT_FOUND", "CUSTOMER_SCOPE_MISSING"}
          /\ (at = "readCode" => token[r].role = "OPERATOR" /\ token[r].customer # 0)
      BY <2>1 DEF FirstCheck, NoCustomer
    <2>3. at = "readHandler" => token[r].role = "ADMINISTRATOR"
      BY <2>1 DEF FirstCheck
    <2>4. IsShipment(b) /\ b.handler \in DOMAIN users
      BY <1>1 DEF TypeOK, IdsOK
    <2>5. at = "readHandler" => IsShipment(row) /\ row.handler \in DOMAIN users
      BY <2>3, <2>4 DEF IsShipment, Registration, Ownership
    <2>6. at = "readCode" =>
            IsShipment(row) /\ row.handler \in DOMAIN users /\ HandlerOf(row) = token[r]
      <3> SUFFICES ASSUME at = "readCode" PROVE IsShipment(row)
              /\ row.handler \in DOMAIN users /\ HandlerOf(row) = token[r]
        OBVIOUS
      <3>1. token[r].role = "OPERATOR" /\ token[r].customer \in Nat \ {0}
        BY <2>1, <2>2
      <3>2. own = [customer |-> token[r].customer, handler |-> token[r].user]
        BY <3>1 DEF Ownership
      <3>3. token[r].user \in DOMAIN users /\ DOMAIN users \subseteq Nat
        BY <1>1, <2>1 DEF TypeOK, IdsOK
      <3>4. IsShipment(row)
        BY <2>4, <3>1, <3>2, <3>3 DEF IsShipment, Registration
      <3>5. HandlerOf(row) = token[r]
        BY <2>1, <3>1, <3>2 DEF HandlerOf, Registration
      <3> QED
        BY <3>2, <3>3, <3>4, <3>5 DEF Registration
    <2>7. Take(r, 0, row, NoRow, at)
      BY <1>3
    <2> HIDE DEF own, row, at
    <2>8. /\ OthersKept(r) /\ body'[r] = row /\ pc'[r] = at
          /\ UNCHANGED <<token, shown, disturbed>>
      BY <1>1, <2>7, TakeKeeps
    <2>9. ShipmentWriteIsFounded(r)'
      BY <1>1, <2>1, <2>2, <2>5, <2>6, <2>8
      DEF ShipmentWriteIsFounded, tables, directoryVars
    <2> QED
      BY <1>1, <2>2, <2>8, <2>9, OnlyShipmentWrite, AnswersListed DEF AllAnswers
  <1> QED
    BY <1>2, <1>3 DEF CreateShipment

\* A registration goes on with what its body is known to be.
LEMMA RegistrationGoesOn ==
  ASSUME RegistryInv, NEW r \in Requests, NEW at, Proceed(r, at),
         pc[r] \in {"readHandler", "readCode", "geocode"},
         at \in Answers \cup {"readCode", "geocode", "insertShipment"},
         HandlerOf(body[r]) \in held \/ at \in Answers, UNCHANGED tables
  PROVE  RegistryInv'
  <1>1. TypeOK /\ ShipmentWriteIsFounded(r)
    BY DEF RegistryInv
  <1>2. /\ OthersKept(r) /\ pc'[r] = at
        /\ UNCHANGED <<token, arg, body, seen, shown, disturbed>>
    BY <1>1, ProceedKeeps
  <1>3. CASE at \in Answers
    BY <1>3, ProceedFounded
  <1>4. CASE at \in {"readCode", "geocode", "insertShipment"} /\ at \notin Answers
    <2>1. ShipmentWriteIsFounded(r)'
      BY <1>1, <1>2, <1>4 DEF ShipmentWriteIsFounded, tables, directoryVars
    <2> QED
      BY <1>2, <1>4, <2>1, OnlyShipmentWrite
  <1> QED
    BY <1>3, <1>4

LEMMA ReadHandlerKeeps ==
  ASSUME RegistryInv, NEW r \in Requests, ReadHandler(r)
  PROVE  RegistryInv'
  <1> DEFINE handler == users[body[r].handler]
             at == HandlerCheck(handler, body[r].customer)
  <1>1. /\ TypeOK /\ UNCHANGED tables /\ ShipmentWriteIsFounded(r)
        /\ pc[r] = "readHandler"
        /\ ActivePrincipals(users) \subseteq held
    BY DEF RegistryInv, ReadHandler, tables
  <1>2. CASE Proceed(r, "USER_NOT_FOUND")
    BY <1>1, <1>2, ProceedFounded, AnswersListed DEF AllAnswers
  <1>3. CASE Proceed(r, at)
    <2>1. IsShipment(body[r]) /\ body[r].handler \in DOMAIN users
      BY <1>1 DEF ShipmentWriteIsFounded
    <2>2. at \in {"SHIPMENT_HANDLER_INACTIVE", "SHIPMENT_HANDLER_REQUIRED", "readCode"}
      BY DEF HandlerCheck
    <2>3. at = "readCode" =>
            handler.active /\ PrincipalOf(body[r].handler, handler) = HandlerOf(body[r])
      BY DEF HandlerCheck, PrincipalOf, HandlerOf
    <2>4. at = "readCode" => HandlerOf(body[r]) \in held
      BY <1>1, <2>1, <2>3 DEF ActivePrincipals
    <2> HIDE DEF at
    <2> QED
      BY <1>1, <1>3, <2>2, <2>4, RegistrationGoesOn, AnswersListed DEF AllAnswers
  <1> QED
    BY <1>2, <1>3 DEF ReadHandler

LEMMA ReadCodeKeeps ==
  ASSUME RegistryInv, NEW r \in Requests, ReadCode(r)
  PROVE  RegistryInv'
  <1>1. /\ UNCHANGED tables /\ ShipmentWriteIsFounded(r) /\ pc[r] = "readCode"
        /\ HandlerOf(body[r]) \in held
    BY DEF RegistryInv, ReadCode, tables, ShipmentWriteIsFounded
  <1>2. PICK at \in {"geocode", "SHIPMENT_CARGO_CODE_IN_USE"} : Proceed(r, at)
    BY DEF ReadCode
  <1> QED
    BY <1>1, <1>2, RegistrationGoesOn, AnswersListed DEF AllAnswers

LEMMA GeocodeKeeps ==
  ASSUME RegistryInv, NEW r \in Requests, Geocode(r)
  PROVE  RegistryInv'
  <1>1. /\ UNCHANGED tables /\ ShipmentWriteIsFounded(r) /\ pc[r] = "geocode"
        /\ HandlerOf(body[r]) \in held
    BY DEF RegistryInv, Geocode, tables, ShipmentWriteIsFounded
  <1>2. PICK at \in {"insertShipment"} \cup GeocodingErrors : Proceed(r, at)
    BY DEF Geocode
  <1> QED
    BY <1>1, <1>2, RegistrationGoesOn, AnswersListed DEF AllAnswers, GeocodingErrors

LEMMA InsertShipmentKeeps ==
  ASSUME RegistryInv, NEW r \in Requests, InsertShipment(r)
  PROVE  RegistryInv'
  <1>1. /\ TypeOK /\ TablesInv /\ ShipmentWriteIsFounded(r) /\ pc[r] = "insertShipment"
    BY DEF RegistryInv, TablesInv, InsertShipment
  <1>2. CASE /\ \E error \in InsertErrors(body[r]) : Proceed(r, error)
             /\ UNCHANGED <<directoryVars, registryVars>>
    <2>1. PICK error \in InsertErrors(body[r]) : Proceed(r, error)
      BY <1>2
    <2>2. error \in Answers
      BY AnswersListed DEF AllAnswers, InsertErrors
    <2> QED
      BY <1>2, <2>1, <2>2, ProceedFounded DEF tables
  <1>3. ASSUME InsertErrors(body[r]) = {},
               lastId' = lastId + 1,
               shipments' = Put(shipments, lastId', body[r]),
               owner' = Put(owner, lastId', body[r].customer),
               NEW now \in Times,
               events' = Put(events, lastId',
                             [shipment |-> lastId', occurredAt |-> now,
                              place |-> "origin"]),
               Commit(r),
               UNCHANGED <<users, customers, tokens, held>>
        PROVE  RegistryInv'
    <2> DEFINE b == body[r]
    <2>1. /\ lastId \in Nat /\ lastId' \notin DOMAIN owner /\ lastId' \notin DOMAIN shipments
          /\ lastId' \notin DOMAIN events
      BY <1>1, <1>3 DEF TypeOK, IdsOK, ShipmentsOK
    <2>2. IsShipment(b) /\ b.handler \in DOMAIN users /\ HandlerOf(b) \in held
      BY <1>1 DEF ShipmentWriteIsFounded
    <2>3. WithCode(b.code) = {} /\ b.customer \in DOMAIN customers
      BY <1>3 DEF InsertErrors
    <2>4. /\ DOMAIN shipments' = DOMAIN shipments \cup {lastId'}
          /\ \A s \in DOMAIN shipments' :
               shipments'[s] = IF s = lastId' THEN b ELSE shipments[s]
      BY <1>3 DEF Put
    <2>5. /\ DOMAIN owner' = DOMAIN owner \cup {lastId'}
          /\ \A s \in DOMAIN owner' :
               owner'[s] = IF s = lastId' THEN b.customer ELSE owner[s]
      BY <1>3 DEF Put
    <2>6. /\ DOMAIN events' = DOMAIN events \cup {lastId'}
          /\ \A e \in DOMAIN events' :
               events'[e] = IF e = lastId'
                            THEN [shipment |-> lastId', occurredAt |-> now,
                                  place |-> "origin"]
                            ELSE events[e]
      BY <1>3 DEF Put
    <2> HIDE DEF b
    <2>7. ShipmentsOK'
      <3>1. ASSUME NEW s \in DOMAIN shipments'
            PROVE  (WithCode(shipments[s].code) = {s})'
        BY <1>1, <2>1, <2>3, <2>4 DEF TypeOK, ShipmentsOK, WithCode
      <3>2. ASSUME NEW s \in DOMAIN shipments'
            PROVE  /\ IsShipment(shipments'[s])
                   /\ shipments'[s].customer \in DOMAIN customers'
                   /\ shipments'[s].handler \in DOMAIN users'
                   /\ s \in DOMAIN owner' /\ owner'[s] = shipments'[s].customer
        BY <1>1, <1>3, <2>1, <2>2, <2>3, <2>4, <2>5 DEF TypeOK, ShipmentsOK
      <3> QED
        BY <3>1, <3>2 DEF ShipmentsOK
    <2>8. EventsOK'
      <3>1. IsEvent([shipment |-> lastId', occurredAt |-> now, place |-> "origin"])
        BY <1>3, <2>1 DEF IsEvent
      <3>2. lastId' \in DOMAIN shipments' /\ DOMAIN shipments \subseteq DOMAIN shipments'
        BY <2>4
      <3> QED
        BY <1>1, <2>6, <3>1, <3>2 DEF TypeOK, EventsOK
    <2>9. IdsOK'
      BY <1>1, <1>3, <2>1, <2>5, <2>6 DEF TypeOK, IdsOK
    <2>10. UsersOK' /\ CustomersOK'
      BY <1>1, <1>3, UsersStay, CustomersStay DEF TypeOK
    <2>11. TokensWereTrue' /\ HandlersOperate' /\ (ActivePrincipals(users) \subseteq held)'
      BY <1>1, <1>3, <2>2, <2>4 DEF TablesInv, TokensWereTrue, HandlersOperate
    <2>12. OthersKept(r) => TablesInv'
      BY <2>7, <2>8, <2>9, <2>10, <2>11 DEF TablesInv, TypeOK, RequestsOK, OthersKept
    <2> QED
      BY <1>3, <2>1, <2>4, <2>5, <2>12, CommitStep
  <1> QED
    BY <1>2, <1>3 DEF InsertShipment

-----------------------------------------------------------------------------
\* Removal and manual occurrences.
LEMMA NotLoadedKeeps ==
  ASSUME RegistryInv, NEW r \in Requests, NEW code, NotLoaded(r, code),
         UNCHANGED tables
  PROVE  RegistryInv'
  <1>1. {"SHIPMENT_INVALID", Refusal(token[r], code)} \subseteq Answers
    BY AnswersListed DEF AllAnswers, Refusal
  <1> QED
    BY <1>1, ProceedFounded DEF NotLoaded

LEMMA LoadedInScope ==
  ASSUME TypeOK, NEW t, NEW code, NEW s \in Loaded(t, code)
  PROVE  /\ s \in DOMAIN shipments /\ shipments[s].code = code
         /\ s \in DOMAIN owner /\ InScope(t, owner[s]) /\ Sees(t, s)
  BY DEF TypeOK, ShipmentsOK, Loaded, WithCode, InScope, Sees

LEMMA CancelShipmentKeeps ==
  ASSUME RegistryInv, NEW r \in Requests, CancelShipment(r)
  PROVE  RegistryInv'
  <1>1. TypeOK /\ UNCHANGED tables
    BY DEF RegistryInv, CancelShipment, tables
  <1>2. CASE Proceed(r, "CUSTOMER_SCOPE_MISSING")
    BY <1>1, <1>2, ProceedFounded, AnswersListed DEF AllAnswers
  <1>3. ASSUME NEW code \in Codes, NEW s \in Loaded(token[r], code),
               Take(r, s, [code |-> code], NoRow, "removeShipment")
        PROVE  RegistryInv'
    <2>1. /\ OthersKept(r) /\ pc'[r] = "removeShipment" /\ arg'[r] = s
          /\ body'[r] = [code |-> code]
          /\ UNCHANGED <<token, shown, disturbed>>
      BY <1>1, <1>3, TakeKeeps
    <2>2. ShipmentWriteIsFounded(r)'
      BY <1>1, <2>1, LoadedInScope DEF ShipmentWriteIsFounded, tables, registryVars
    <2> QED
      BY <1>1, <2>1, <2>2, OnlyShipmentWrite
  <1>4. ASSUME NEW code \in Codes, NotLoaded(r, code)
        PROVE  RegistryInv'
    BY <1>1, <1>4, NotLoadedKeeps
  <1> QED
    BY <1>2, <1>3, <1>4 DEF CancelShipment

LEMMA RemoveShipmentKeeps ==
  ASSUME RegistryInv, NEW r \in Requests, RemoveShipment(r)
  PROVE  RegistryInv'
  <1> DEFINE gone == WithCode(body[r].code)
  <1>1. TypeOK /\ TablesInv /\ UNCHANGED directoryVars
    BY DEF RegistryInv, TablesInv, RemoveShipment
  <1>2. CASE Proceed(r, "SHIPMENT_NOT_FOUND") /\ UNCHANGED registryVars
    BY <1>1, <1>2, ProceedFounded, AnswersListed DEF AllAnswers, tables
  <1>3. CASE /\ shipments' = Without(shipments, gone)
             /\ events' = Without(events, {e \in DOMAIN events :
                                             events[e].shipment \in gone})
             /\ Commit(r)
             /\ UNCHANGED owner
    <2> HIDE DEF gone
    <2>1. /\ DOMAIN shipments' = DOMAIN shipments \ gone
          /\ \A s \in DOMAIN shipments' : shipments'[s] = shipments[s]
      BY <1>3 DEF Without
    <2>2. /\ DOMAIN events' = {e \in DOMAIN events : events[e].shipment \notin gone}
          /\ \A e \in DOMAIN events' : events'[e] = events[e]
      BY <1>3 DEF Without
    <2>3. ShipmentsOK'
      <3>1. ASSUME NEW s \in DOMAIN shipments'
            PROVE  (WithCode(shipments[s].code) = {s})'
        BY <1>1, <2>1 DEF TypeOK, ShipmentsOK, WithCode
      <3> QED
        BY <1>1, <1>3, <2>1, <3>1 DEF TypeOK, ShipmentsOK, directoryVars
    <2>4. EventsOK'
      BY <1>1, <2>1, <2>2 DEF TypeOK, EventsOK
    <2>5. IdsOK'
      BY <1>1, <1>3, <2>2 DEF TypeOK, IdsOK, directoryVars
    <2>6. UsersOK' /\ CustomersOK'
      BY <1>1, UsersStay, CustomersStay DEF TypeOK, directoryVars
    <2>7. TokensWereTrue' /\ HandlersOperate' /\ (ActivePrincipals(users) \subseteq held)'
      BY <1>1, <2>1 DEF TablesInv, TokensWereTrue, HandlersOperate, directoryVars
    <2>8. OthersKept(r) => TablesInv'
      BY <2>3, <2>4, <2>5, <2>6, <2>7 DEF TablesInv, TypeOK, RequestsOK, OthersKept
    <2> QED
      BY <1>1, <1>3, <2>1, <2>8, CommitStep DEF directoryVars
  <1> QED
    BY <1>2, <1>3 DEF RemoveShipment

LEMMA AddEventKeeps ==
  ASSUME RegistryInv, NEW r \in Requests, AddEvent(r)
  PROVE  RegistryInv'
  <1>1. TypeOK /\ UNCHANGED tables
    BY DEF RegistryInv, AddEvent, tables
  <1>2. CASE Proceed(r, "SHIPMENT_INVALID")
    BY <1>1, <1>2, ProceedFounded, AnswersListed DEF AllAnswers
  <1>3. ASSUME NEW code \in Codes, NotLoaded(r, code)
        PROVE  RegistryInv'
    BY <1>1, <1>3, NotLoadedKeeps
  <1>4. ASSUME NEW code \in Codes, NEW s \in WithCode(code), NEW at \in Times,
               Take(r, s, [shipment |-> s, occurredAt |-> at,
                           place |-> "checkpoint"], NoRow, "insertEvent")
        PROVE  RegistryInv'
    <2> DEFINE row == [shipment |-> s, occurredAt |-> at, place |-> "checkpoint"]
    <2>1. /\ OthersKept(r) /\ pc'[r] = "insertEvent" /\ arg'[r] = s /\ body'[r] = row
          /\ UNCHANGED <<token, shown, disturbed>>
      BY <1>1, <1>4, TakeKeeps
    <2>2. s \in DOMAIN shipments /\ s \in Nat
      BY <1>1 DEF WithCode, TypeOK, ShipmentsOK, IdsOK
    <2>3. IsEvent(row) /\ row.shipment = s
      BY <2>2 DEF IsEvent
    <2> HIDE DEF row
    <2>4. ShipmentWriteIsFounded(r)'
      BY <1>1, <2>1, <2>2, <2>3 DEF ShipmentWriteIsFounded, tables, registryVars
    <2> QED
      BY <1>1, <2>1, <2>4, OnlyShipmentWrite
  <1> QED
    BY <1>2, <1>3, <1>4 DEF AddEvent

LEMMA InsertEventKeeps ==
  ASSUME RegistryInv, NEW r \in Requests, InsertEvent(r)
  PROVE  RegistryInv'
  <1>1. /\ TypeOK /\ TablesInv /\ ShipmentWriteIsFounded(r) /\ pc[r] = "insertEvent"
        /\ UNCHANGED <<shipments, owner>>
    BY DEF RegistryInv, TablesInv, InsertEvent
  <1>2. CASE Proceed(r, "INTERNAL_ERROR") /\ UNCHANGED <<directoryVars, events>>
    BY <1>1, <1>2, ProceedFounded, AnswersListed DEF AllAnswers, tables, registryVars
  <1>3. CASE /\ arg[r] \in DOMAIN shipments
             /\ lastId' = lastId + 1
             /\ events' = Put(events, lastId', body[r])
             /\ Commit(r)
             /\ UNCHANGED <<users, customers, tokens, held>>
    <2>1. lastId \in Nat /\ IsEvent(body[r]) /\ body[r].shipment \in DOMAIN shipments
      BY <1>1, <1>3 DEF TypeOK, IdsOK, ShipmentWriteIsFounded
    <2>2. /\ DOMAIN events' = DOMAIN events \cup {lastId'}
          /\ \A e \in DOMAIN events' : events'[e] = IF e = lastId' THEN body[r] ELSE events[e]
      BY <1>3 DEF Put
    <2>3. EventsOK'
      BY <1>1, <2>1, <2>2 DEF TypeOK, EventsOK
    <2>4. IdsOK'
      BY <1>1, <1>3, <2>1, <2>2 DEF TypeOK, IdsOK
    <2>5. UsersOK' /\ CustomersOK'
      BY <1>1, <1>3, UsersStay, CustomersStay DEF TypeOK
    <2>6. ShipmentsOK'
      BY <1>1, <1>3, ShipmentsStay DEF TypeOK, ShipmentsOK
    <2>7. TokensWereTrue' /\ HandlersOperate' /\ (ActivePrincipals(users) \subseteq held)'
      BY <1>1, <1>3 DEF TablesInv, TokensWereTrue, HandlersOperate
    <2>8. OthersKept(r) => TablesInv'
      BY <2>3, <2>4, <2>5, <2>6, <2>7 DEF TablesInv, TypeOK, RequestsOK, OthersKept
    <2> QED
      BY <1>1, <1>3, <2>8, CommitStep
  <1> QED
    BY <1>2, <1>3 DEF InsertEvent

-----------------------------------------------------------------------------
\* Reads.
LEMMA OnlyRead ==
  ASSUME RegistryInv, NEW r \in Requests, OthersKept(r),
         UNCHANGED <<tables, disturbed, token>>,
         pc'[r] \in Answers \cup {"readLocation", "list", "pageLeft", "totalLeft",
                                  "readLocations"},
         ReadIsFounded(r)'
  PROVE  RegistryInv'
  <1>1. pc'[r] \notin Routes /\ pc'[r] # "comparePassword"
    BY AnswersEnd, StepsAreNoRoutes DEF Steps
  <1>2. GuardPassed(r)'
    BY <1>1 DEF RegistryInv, GuardPassed, tables, directoryVars
  <1>3. UserWriteIsFounded(r)' /\ CustomerWriteIsFounded(r)' /\ ShipmentWriteIsFounded(r)'
    BY AnswersEnd, NoUserWrite, NoCustomerWrite, NoShipmentWrite DEF Steps
  <1> QED
    BY <1>2, <1>3, QuietStep DEF Founded

LEMMA GetShipmentKeeps ==
  ASSUME RegistryInv, NEW r \in Requests, GetShipment(r)
  PROVE  RegistryInv'
  <1>1. TypeOK /\ UNCHANGED tables
    BY DEF RegistryInv, GetShipment, tables
  <1>2. ASSUME NEW code \in Codes, NotLoaded(r, code)
        PROVE  RegistryInv'
    BY <1>1, <1>2, NotLoadedKeeps
  <1>3. ASSUME NEW code \in Codes, NEW s \in Loaded(token[r], code),
               Goto(r, "readLocation"),
               arg'   = [arg EXCEPT ![r] = s],
               shown' = [shown EXCEPT ![r] = {s}],
               UNCHANGED <<token, body, seen, disturbed>>
        PROVE  RegistryInv'
    <2>1. /\ OthersKept(r) /\ pc'[r] = "readLocation" /\ shown'[r] = {s}
      BY <1>1, <1>3 DEF TypeOK, RequestsOK, Goto, OthersKept
    <2>2. Sees(token[r], s)
      BY <1>1, LoadedInScope
    <2>3. "readLocation" \notin {"idle"} \cup Routes
      BY StepsAreNoRoutes DEF Steps
    <2>4. ReadIsFounded(r)'
      BY <1>1, <1>3, <2>1, <2>2, <2>3 DEF ReadIsFounded, Sees, tables, registryVars
    <2> QED
      BY <1>1, <1>3, <2>1, <2>4, OnlyRead
  <1> QED
    BY <1>2, <1>3 DEF GetShipment

\* What was read out stays in scope.
LEMMA ReadOn ==
  ASSUME RegistryInv, NEW r \in Requests, OthersKept(r),
         UNCHANGED <<tables, disturbed, token, shown>>,
         pc'[r] \in Answers \cup {"readLocation", "readLocations"}
  PROVE  RegistryInv'
  <1>1. pc'[r] \notin Routes /\ pc'[r] \notin {"idle", "list", "pageLeft", "totalLeft"}
    BY AnswersEnd, StepsAreNoRoutes DEF Steps
  <1>2. ReadIsFounded(r)'
    BY <1>1 DEF RegistryInv, ReadIsFounded, Sees, tables, registryVars
  <1> QED
    BY <1>2, OnlyRead

LEMMA ReadLocationKeeps ==
  ASSUME RegistryInv, NEW r \in Requests, ReadLocation(r)
  PROVE  RegistryInv'
  <1>1. TypeOK /\ UNCHANGED tables
    BY DEF RegistryInv, ReadLocation, tables
  <1>2. OthersKept(r) /\ pc'[r] = "OK" /\ UNCHANGED <<token, shown, disturbed>>
    BY <1>1 DEF TypeOK, RequestsOK, ReadLocation, Goto, OthersKept
  <1> QED
    BY <1>1, <1>2, ReadOn, AnswersListed DEF AllAnswers

\* A list begins.
LEMMA ListBegins ==
  ASSUME RegistryInv, NEW r \in Requests, pc[r] \in AllRoutes, NEW id, NEW q,
         Take(r, id, q, EmptyRead, "list"), QueryInScope(token[r], q),
         UNCHANGED tables
  PROVE  RegistryInv'
  <1>1. TypeOK /\ ReadIsFounded(r)
    BY DEF RegistryInv
  <1>2. /\ OthersKept(r) /\ pc'[r] = "list" /\ body'[r] = q
        /\ UNCHANGED <<token, shown, disturbed>>
    BY <1>1, TakeKeeps
  <1>3. shown[r] = {}
    BY <1>1, RoutesListed DEF ReadIsFounded
  <1>4. "list" \notin {"idle"} \cup Routes
    BY StepsAreNoRoutes DEF Steps
  <1>5. ReadIsFounded(r)'
    BY <1>2, <1>3, <1>4 DEF ReadIsFounded, QueryInScope, Sees, tables, registryVars
  <1> QED
    BY <1>2, <1>5, OnlyRead

LEMMA ListShipmentsKeeps ==
  ASSUME RegistryInv, NEW r \in Requests, ListShipments(r)
  PROVE  RegistryInv'
  <1> USE RegistryAssumption
  <1>1. TypeOK /\ UNCHANGED tables /\ pc[r] \in AllRoutes
    BY DEF RegistryInv, ListShipments, tables, AllRoutes
  <1>2. CASE \E error \in {"SHIPMENT_INVALID", "CUSTOMER_SCOPE_MISSING"} : Proceed(r, error)
    BY <1>1, <1>2, ProceedFounded, AnswersListed DEF AllAnswers
  <1>3. ASSUME NEW q \in ShipmentQueries,
               Take(r, 0,
                    [q EXCEPT !.filters = ScopedFilters(token[r], q.filters)],
                    EmptyRead, "list")
        PROVE  RegistryInv'
    <2> DEFINE p == [q EXCEPT !.filters = ScopedFilters(token[r], q.filters)]
    <2>1. p.list = "shipments" /\ p.filters = ScopedFilters(token[r], q.filters)
      OBVIOUS
    <2> HIDE DEF p
    <2>2. QueryInScope(token[r], p)
      BY <2>1 DEF QueryInScope, ScopedFilters
    <2> QED
      BY <1>1, <1>3, <2>2, ListBegins DEF p
  <1> QED
    BY <1>2, <1>3 DEF ListShipments

LEMMA ShipmentHistoryKeeps ==
  ASSUME RegistryInv, NEW r \in Requests, ShipmentHistory(r)
  PROVE  RegistryInv'
  <1>1. TypeOK /\ UNCHANGED tables /\ pc[r] \in AllRoutes
    BY DEF RegistryInv, ShipmentHistory, tables, AllRoutes
  <1>2. ASSUME NEW code \in Codes, NotLoaded(r, code)
        PROVE  RegistryInv'
    BY <1>1, <1>2, NotLoadedKeeps
  <1>3. ASSUME NEW code \in Codes, NEW s \in Loaded(token[r], code),
               NEW q \in EventQueries,
               Take(r, s, HistoryQuery(s, q.page, q.limit), EmptyRead, "list")
        PROVE  RegistryInv'
    <2>1. Sees(token[r], s)
      BY <1>1, LoadedInScope
    <2>2. QueryInScope(token[r], HistoryQuery(s, q.page, q.limit))
      BY <2>1 DEF QueryInScope, HistoryQuery
    <2> QED
      BY <1>1, <1>3, <2>2, ListBegins
  <1> QED
    BY <1>2, <1>3 DEF ShipmentHistory

LEMMA AllHistoryKeeps ==
  ASSUME RegistryInv, NEW r \in Requests, AllHistory(r)
  PROVE  RegistryInv'
  <1>1. TypeOK /\ UNCHANGED tables /\ pc[r] = "allHistory" /\ pc[r] \in AllRoutes
    BY DEF RegistryInv, AllHistory, tables, AllRoutes
  <1>2. CASE Proceed(r, "SHIPMENT_INVALID")
    BY <1>1, <1>2, ProceedFounded, AnswersListed DEF AllAnswers
  <1>3. ASSUME NEW q \in EventQueries, Take(r, 0, q, EmptyRead, "list")
        PROVE  RegistryInv'
    <2>1. token[r].role = "ADMINISTRATOR"
      BY <1>1, RoutesListed DEF RegistryInv, GuardPassed, AllRoutes, PublicRoutes,
         MayCall, HistoryRoutes
    <2>2. QueryInScope(token[r], q)
      BY <2>1 DEF QueryInScope
    <2> QED
      BY <1>1, <1>3, <2>2, ListBegins
  <1> QED
    BY <1>2, <1>3 DEF AllHistory

\* A query in scope finds shipments that may be shown.
LEMMA QueriesFindInScope ==
  ASSUME TypeOK, NEW t, NEW q, QueryInScope(t, q),
         NEW s \in ShipmentsOn(q, PageOf(q))
  PROVE  Sees(t, s)
  <1>1. PageOf(q) \subseteq DOMAIN KeyOf(q)
    BY DEF PageOf, Page
  <1>2. CASE t.role = "ADMINISTRATOR"
    BY <1>2 DEF Sees
  <1>3. CASE /\ q.list = "shipments"
             /\ "customer" \in DOMAIN q.filters /\ q.filters.customer = t.customer
    <2>1. s \in DOMAIN ShipmentKey(shipments, q)
      BY <1>1, <1>3 DEF ShipmentsOn, KeyOf
    <2>2. s \in DOMAIN shipments /\ Matches(shipments[s], q.filters)
      BY <2>1 DEF ShipmentKey
    <2> QED
      BY <1>3, <2>2 DEF Matches, TypeOK, ShipmentsOK, Sees
  <1>4. CASE /\ q.list = "events"
             /\ "shipment" \in DOMAIN q.filters /\ Sees(t, q.filters.shipment)
    <2>1. PICK e \in DOMAIN EventKey(events, q) : s = events[e].shipment
      BY <1>1, <1>4 DEF ShipmentsOn, KeyOf
    <2>2. Matches(events[e], q.filters)
      BY <2>1 DEF EventKey
    <2> QED
      BY <1>4, <2>1, <2>2 DEF Matches
  <1> QED
    BY <1>2, <1>3, <1>4 DEF QueryInScope

LEMMA ReadPageKeeps ==
  ASSUME RegistryInv, NEW r \in Requests, ReadPage(r)
  PROVE  RegistryInv'
  <1>1. TypeOK /\ UNCHANGED tables /\ ReadIsFounded(r) /\ pc[r] \in {"list", "pageLeft"}
    BY DEF RegistryInv, ReadPage, tables
  <1>2. /\ OthersKept(r)
        /\ pc'[r] = IF pc[r] = "list" THEN "totalLeft" ELSE AfterBoth(body[r])
        /\ seen'[r].page = PageOf(body[r])
        /\ shown'[r] = ShipmentsOn(body[r], PageOf(body[r]))
        /\ UNCHANGED <<token, body, disturbed>>
    BY <1>1 DEF TypeOK, RequestsOK, ReadPage, Goto, OthersKept
  <1>3. pc'[r] \in {"totalLeft", "readLocations", "OK"}
    BY <1>2 DEF AfterBoth
  <1>4. QueryInScope(token[r], body[r])
    BY <1>1 DEF ReadIsFounded
  <1>5. \A s \in shown'[r] : Sees(token[r], s)
    BY <1>1, <1>2, <1>4, QueriesFindInScope
  <1>6. PageOf(body[r])' = PageOf(body[r])
    BY <1>1, <1>2 DEF PageOf, KeyOf, tables, registryVars
  <1>7. pc'[r] \notin {"idle"} \cup Routes
    BY <1>3, RoutesListed DEF AllRoutes
  <1>8. ReadIsFounded(r)'
    BY <1>1, <1>2, <1>3, <1>4, <1>5, <1>6, <1>7
    DEF ReadIsFounded, QueryInScope, Sees, tables, registryVars
  <1> QED
    BY <1>1, <1>2, <1>3, <1>8, OnlyRead, AnswersListed DEF AllAnswers

LEMMA ReadTotalKeeps ==
  ASSUME RegistryInv, NEW r \in Requests, ReadTotal(r)
  PROVE  RegistryInv'
  <1>1. TypeOK /\ UNCHANGED tables /\ ReadIsFounded(r) /\ pc[r] \in {"list", "totalLeft"}
    BY DEF RegistryInv, ReadTotal, tables
  <1>2. /\ OthersKept(r)
        /\ pc'[r] = IF pc[r] = "list" THEN "pageLeft" ELSE AfterBoth(body[r])
        /\ seen'[r].total = CountOf(body[r])
        /\ UNCHANGED <<token, body, shown, disturbed>>
    BY <1>1 DEF TypeOK, RequestsOK, ReadTotal, Goto, OthersKept
  <1>3. pc'[r] \in {"pageLeft", "readLocations", "OK"}
    BY <1>2 DEF AfterBoth
  <1>4. CountOf(body[r])' = CountOf(body[r])
    BY <1>1, <1>2 DEF CountOf, KeyOf, tables, registryVars
  <1>5. pc'[r] \notin {"idle"} \cup Routes
    BY <1>3, RoutesListed DEF AllRoutes
  <1>6. ReadIsFounded(r)'
    BY <1>1, <1>2, <1>3, <1>4, <1>5
    DEF ReadIsFounded, QueryInScope, Sees, tables, registryVars
  <1> QED
    BY <1>1, <1>2, <1>3, <1>6, OnlyRead, AnswersListed DEF AllAnswers

LEMMA ReadLocationsKeeps ==
  ASSUME RegistryInv, NEW r \in Requests, ReadLocations(r)
  PROVE  RegistryInv'
  <1>1. TypeOK /\ UNCHANGED tables
    BY DEF RegistryInv, ReadLocations, tables
  <1>2. OthersKept(r) /\ pc'[r] = "OK" /\ UNCHANGED <<token, shown, disturbed>>
    BY <1>1 DEF TypeOK, RequestsOK, ReadLocations, Goto, OthersKept
  <1> QED
    BY <1>1, <1>2, ReadOn, AnswersListed DEF AllAnswers

-----------------------------------------------------------------------------
\* The invariant.
LEMMA InitInv == Init => RegistryInv
  <1> SUFFICES ASSUME Init PROVE RegistryInv
    OBVIOUS
  <1> USE RegistryAssumption, DirectoryAssumption DEF Init, InitRequests, InitDirectory
  <1>1. RequestsOK
    BY DEF RequestsOK
  <1>2. IdsOK
    <2>1. held \subseteq [user : DOMAIN users, role : UserRoles, customer : Nat]
      BY DEF ActivePrincipals, PrincipalOf, IsUser
    <2> QED
      BY <2>1 DEF IdsOK
  <1>3. UsersOK
    BY DEF UsersOK, LinkDangles
  <1>4. CustomersOK /\ EventsOK
    BY DEF CustomersOK, EventsOK
  <1>5. HandlersOperate /\ TokensWereTrue /\ ActivePrincipals(users) \subseteq held
    BY DEF HandlersOperate, TokensWereTrue
  <1>6. ShipmentsOK
    <2>1. ASSUME NEW s \in DOMAIN shipments PROVE WithCode(shipments[s].code) = {s}
      BY DEF WithCode
    <2>2. ASSUME NEW s \in DOMAIN shipments PROVE shipments[s].handler \in DOMAIN users
      <3>1. PICK u \in DOMAIN users : HandlerOf(shipments[s]) = PrincipalOf(u, users[u])
        BY DEF ActivePrincipals
      <3>2. HandlerOf(shipments[s]).user = PrincipalOf(u, users[u]).user
        BY <3>1
      <3> QED
        BY <3>2 DEF HandlerOf, PrincipalOf
    <2> QED
      BY <2>1, <2>2 DEF ShipmentsOK
  <1>7. ASSUME NEW r \in Requests PROVE Founded(r)
    <2>1. pc[r] = "idle" /\ token[r] = NoPrincipal /\ shown[r] = {}
      OBVIOUS
    <2>2. "idle" \notin Routes
      BY RoutesListed DEF AllRoutes
    <2> QED
      BY <2>1, <2>2 DEF Founded, GuardPassed, UserWriteIsFounded,
         CustomerWriteIsFounded, ShipmentWriteIsFounded, ReadIsFounded
  <1> QED
    BY <1>1, <1>2, <1>3, <1>4, <1>5, <1>6, <1>7 DEF RegistryInv, TypeOK, Founded

LEMMA StepInv ==
  ASSUME RegistryInv, NEW r \in Requests, Step(r)
  PROVE  RegistryInv'
  <1>1. CASE Arrive(r) /\ UNCHANGED <<directoryVars, registryVars>>
    BY <1>1, ArriveKeeps DEF tables
  <1>2. CASE DirectoryStep(r) /\ UNCHANGED <<traffic, registryVars>>
    BY <1>2, CreateUserKeeps, InsertUserKeeps, UpdateUserKeeps,
       UpdateProfileKeeps, CheckUserEmailKeeps, WriteUserKeeps,
       DeleteUserKeeps, LoginKeeps, ComparePasswordKeeps,
       CreateCustomerKeeps, InsertCustomerKeeps, UpdateCustomerKeeps,
       CheckCustomerEmailKeeps, WriteCustomerKeeps, DeleteCustomerKeeps
    DEF DirectoryStep
  <1>3. CASE RemoveCustomer(r, Referenced(arg[r])) /\ UNCHANGED <<traffic, registryVars>>
    BY <1>3, RemoveCustomerKeeps
  <1>4. CASE RegistryStep(r) /\ UNCHANGED traffic
    BY <1>4, CreateShipmentKeeps, ReadHandlerKeeps, ReadCodeKeeps,
       GeocodeKeeps, InsertShipmentKeeps, CancelShipmentKeeps,
       RemoveShipmentKeeps, AddEventKeeps, InsertEventKeeps,
       GetShipmentKeeps, ReadLocationKeeps, ListShipmentsKeeps,
       ShipmentHistoryKeeps, AllHistoryKeeps, ReadPageKeeps,
       ReadTotalKeeps, ReadLocationsKeeps
    DEF RegistryStep
  <1> QED
    BY <1>1, <1>2, <1>3, <1>4 DEF Step

LEMMA StutterInv == RegistryInv /\ UNCHANGED vars => RegistryInv'
  BY DEF RegistryInv, TypeOK, RequestsOK, IdsOK, UsersOK, CustomersOK,
     ShipmentsOK, EventsOK, LinkDangles, WithCode, TokensWereTrue,
     HandlersOperate, GuardPassed, UserWriteIsFounded, CustomerWriteIsFounded,
     ShipmentWriteIsFounded, ReadIsFounded, Sees, QueryInScope, Merged,
     CountOf, PageOf, KeyOf, vars, requestVars, directoryVars, registryVars

\* Types, references and what each request rests on: of every behaviour of
\* the handlers, whatever order their reads and writes come in.
THEOREM RegistryInvariant == Spec => []RegistryInv
  <1>1. RegistryInv /\ [Next]_vars => RegistryInv'
    BY StepInv, StutterInv DEF Next
  <1> QED
    BY <1>1, InitInv, PTL DEF Spec


\* A token tells what an active row of its user once said.
THEOREM TokensTheorem == Spec => []TokensWereTrue
  <1>1. RegistryInv => TokensWereTrue
    BY DEF RegistryInv
  <1> QED
    BY <1>1, RegistryInvariant, PTL

\* A shipment is in the hands of one who was an active operator of its
\* customer.
THEOREM HandlersTheorem == Spec => []HandlersOperate
  <1>1. RegistryInv => HandlersOperate
    BY DEF RegistryInv
  <1> QED
    BY <1>1, RegistryInvariant, PTL

\* Nobody is shown a shipment of another customer.
THEOREM ScopeTheorem == Spec => []AnswersStayInScope
  <1>1. RegistryInv => AnswersStayInScope
    BY DEF RegistryInv, ReadIsFounded, AnswersStayInScope, Sees, InScope
  <1> QED
    BY <1>1, RegistryInvariant, PTL

-----------------------------------------------------------------------------
\* Whose step it is.
LEMMA DirectoryOthers ==
  ASSUME TypeOK, NEW r \in Requests,
         DirectoryStep(r) \/ RemoveCustomer(r, Referenced(arg[r]))
  PROVE  OthersKept(r)
  <1>1. \/ \E at : Proceed(r, at)
        \/ \E id, sent, read, at : Take(r, id, sent, read, at)
        \/ Commit(r)
    <2>1. CASE CreateUser(r) \/ InsertUser(r) \/ UpdateUser(r)
      BY <2>1 DEF CreateUser, InsertUser, UpdateUser
    <2>2. CASE UpdateProfile(r) \/ CheckUserEmail(r)
      BY <2>2 DEF UpdateProfile, CheckUserEmail
    <2>3. CASE WriteUser(r)
      BY <2>3 DEF WriteUser
    <2>4. CASE DeleteUser(r) \/ Login(r) \/ ComparePassword(r)
      BY <2>4 DEF DeleteUser, Login, ComparePassword
    <2>5. CASE CreateCustomer(r) \/ InsertCustomer(r) \/ UpdateCustomer(r)
      BY <2>5 DEF CreateCustomer, InsertCustomer, UpdateCustomer
    <2>6. CASE CheckCustomerEmail(r) \/ WriteCustomer(r) \/ DeleteCustomer(r)
      BY <2>6 DEF CheckCustomerEmail, WriteCustomer, DeleteCustomer
    <2>7. CASE RemoveCustomer(r, Referenced(arg[r]))
      BY <2>7 DEF RemoveCustomer
    <2> QED
      BY <2>1, <2>2, <2>3, <2>4, <2>5, <2>6, <2>7 DEF DirectoryStep
  <1> QED
    BY <1>1, ProceedKeeps, TakeKeeps, CommitKeeps

LEMMA RegistryOthers ==
  ASSUME TypeOK, NEW r \in Requests, RegistryStep(r)
  PROVE  OthersKept(r)
  <1>1. CASE \/ CreateShipment(r) \/ ReadHandler(r) \/ ReadCode(r) \/ Geocode(r)
             \/ InsertShipment(r) \/ CancelShipment(r) \/ RemoveShipment(r)
             \/ AddEvent(r) \/ InsertEvent(r) \/ ListShipments(r)
             \/ ShipmentHistory(r) \/ AllHistory(r)
    <2>1. \/ \E at : Proceed(r, at)
          \/ \E id, sent, read, at : Take(r, id, sent, read, at)
          \/ Commit(r)
      <3>1. CASE CreateShipment(r) \/ ReadHandler(r) \/ ReadCode(r) \/ Geocode(r)
        BY <3>1 DEF CreateShipment, ReadHandler, ReadCode, Geocode
      <3>2. CASE InsertShipment(r) \/ CancelShipment(r) \/ RemoveShipment(r)
        BY <3>2 DEF InsertShipment, CancelShipment, RemoveShipment, NotLoaded
      <3>3. CASE AddEvent(r) \/ InsertEvent(r) \/ ListShipments(r)
        BY <3>3 DEF AddEvent, InsertEvent, ListShipments, NotLoaded
      <3>4. CASE ShipmentHistory(r) \/ AllHistory(r)
        BY <3>4 DEF ShipmentHistory, AllHistory, NotLoaded
      <3> QED
        BY <1>1, <3>1, <3>2, <3>3, <3>4
    <2> QED
      BY <2>1, ProceedKeeps, TakeKeeps, CommitKeeps
  <1>2. CASE GetShipment(r)
    <2>1. CASE \E code \in Codes : NotLoaded(r, code)
      BY <2>1, ProceedKeeps DEF NotLoaded
    <2>2. CASE \E code \in Codes : \E s \in Loaded(token[r], code) :
                 /\ Goto(r, "readLocation")
                 /\ arg'   = [arg EXCEPT ![r] = s]
                 /\ shown' = [shown EXCEPT ![r] = {s}]
                 /\ UNCHANGED <<token, body, seen, disturbed>>
      BY <2>2 DEF TypeOK, RequestsOK, Goto, OthersKept
    <2> QED
      BY <1>2, <2>1, <2>2 DEF GetShipment
  <1>3. CASE ReadLocation(r) \/ ReadPage(r) \/ ReadTotal(r) \/ ReadLocations(r)
    BY <1>3 DEF TypeOK, RequestsOK, Goto, OthersKept, ReadLocation, ReadPage,
       ReadTotal, ReadLocations
  <1> QED
    BY <1>1, <1>2, <1>3 DEF RegistryStep

LEMMA ArriveOthers ==
  ASSUME TypeOK, NEW r \in Requests, Arrive(r)
  PROVE  OthersKept(r)
  <1>1. CASE \E at : Proceed(r, at)
    BY <1>1, ProceedKeeps
  <1>2. CASE \E t, at :
               /\ token' = [token EXCEPT ![r] = t]
               /\ Goto(r, at)
               /\ UNCHANGED <<arg, body, seen, shown, disturbed>>
    BY <1>2 DEF TypeOK, RequestsOK, Goto, OthersKept
  <1>3. PICK route : Proceed(r, route) \/ Authenticate(r, route)
    BY DEF Arrive
  <1> QED
    BY <1>1, <1>2, <1>3 DEF Authenticate, Proceed

LEMMA StepOthers ==
  ASSUME TypeOK, NEW r \in Requests, Step(r)
  PROVE  OthersKept(r)
  BY ArriveOthers, DirectoryOthers, RegistryOthers DEF Step

\* Who writes what.
LEMMA UserWriters ==
  ASSUME NEW r \in Requests, Step(r)
  PROVE  UNCHANGED users \/ InsertUser(r) \/ WriteUser(r)
  <1>1. CASE DirectoryStep(r)
    BY <1>1 DEF DirectoryStep, directoryVars, CreateUser, UpdateUser,
       UpdateProfile, CheckUserEmail, DeleteUser, Login, ComparePassword,
       CreateCustomer, InsertCustomer, UpdateCustomer, CheckCustomerEmail,
       WriteCustomer, DeleteCustomer
  <1>2. CASE RegistryStep(r)
    BY <1>2 DEF RegistryStep, directoryVars, CreateShipment, ReadHandler,
       ReadCode, Geocode, InsertShipment, CancelShipment, RemoveShipment,
       AddEvent, InsertEvent, GetShipment, ReadLocation, ListShipments,
       ShipmentHistory, AllHistory, ReadPage, ReadTotal, ReadLocations
  <1>3. CASE RemoveCustomer(r, Referenced(arg[r])) \/ UNCHANGED <<directoryVars, registryVars>>
    BY <1>3 DEF RemoveCustomer, directoryVars
  <1> QED
    BY <1>1, <1>2, <1>3 DEF Step

LEMMA CustomerWriters ==
  ASSUME NEW r \in Requests, Step(r)
  PROVE  \/ UNCHANGED customers \/ InsertCustomer(r) \/ WriteCustomer(r)
         \/ RemoveCustomer(r, Referenced(arg[r]))
  <1>1. CASE DirectoryStep(r)
    BY <1>1 DEF DirectoryStep, directoryVars, CreateUser, InsertUser,
       UpdateUser, WriteUser, UpdateProfile, CheckUserEmail, DeleteUser, Login,
       ComparePassword, CreateCustomer, UpdateCustomer, CheckCustomerEmail,
       DeleteCustomer
  <1>2. CASE RegistryStep(r)
    BY <1>2 DEF RegistryStep, directoryVars, CreateShipment, ReadHandler,
       ReadCode, Geocode, InsertShipment, CancelShipment, RemoveShipment,
       AddEvent, InsertEvent, GetShipment, ReadLocation, ListShipments,
       ShipmentHistory, AllHistory, ReadPage, ReadTotal, ReadLocations
  <1> QED
    BY <1>1, <1>2 DEF Step, directoryVars

LEMMA ShipmentWriters ==
  ASSUME NEW r \in Requests, Step(r)
  PROVE  UNCHANGED shipments \/ InsertShipment(r) \/ RemoveShipment(r)
  <1>1. CASE RegistryStep(r)
    BY <1>1 DEF RegistryStep, registryVars, CreateShipment, ReadHandler,
       ReadCode, Geocode, CancelShipment,
       AddEvent, InsertEvent, GetShipment, ReadLocation, ListShipments,
       ShipmentHistory, AllHistory, ReadPage, ReadTotal, ReadLocations
  <1> QED
    BY <1>1 DEF Step, registryVars


-----------------------------------------------------------------------------
\* What a step may never do.
LEMMA WriteUserChanges ==
  ASSUME RegistryInv, NEW r \in Requests, Step(r), NEW u \in DOMAIN users,
         users'[u] # users[u]
  PROVE  /\ pc[r] = "writeUser" /\ arg[r] = u
         /\ users'[u] = Updated(users[u], body[r])
         /\ UserWriteIsFounded(r)
  <1>1. TypeOK /\ UserWriteIsFounded(r)
    BY DEF RegistryInv
  <1>2. CASE InsertUser(r)
    <2>1. lastId + 1 \notin DOMAIN users
      BY <1>1 DEF TypeOK, IdsOK
    <2>2. users' = Put(users, lastId + 1, body[r]) \/ UNCHANGED users
      BY <1>2 DEF InsertUser, directoryVars
    <2> QED
      BY <2>1, <2>2 DEF Put
  <1>3. CASE WriteUser(r)
    <2>1. users' = [users EXCEPT ![arg[r]] = Updated(users[arg[r]], body[r])]
          \/ UNCHANGED users
      BY <1>3 DEF WriteUser, directoryVars
    <2> QED
      BY <1>1, <1>3, <2>1 DEF WriteUser
  <1> QED
    BY <1>2, <1>3, UserWriters

LEMMA LinkStep ==
  ASSUME RegistryInv, NEW r \in Requests, Step(r), NEW u \in DOMAIN users,
         LinkValid(users[u].role, users[u].customer),
         ~LinkValid(users'[u].role, users'[u].customer)
  PROVE  /\ pc[r] = "writeUser" /\ arg[r] = u
         /\ \/ seen[r].role # users[u].role
            \/ seen[r].customer # users[u].customer
  <1>1. /\ pc[r] = "writeUser" /\ arg[r] = u
        /\ users'[u] = Updated(users[u], body[r])
        /\ UserWriteIsFounded(r)
    BY WriteUserChanges
  <1>2. IsUser(seen[r]) /\ PatchAccepted(seen[r], body[r]) /\ IsUser(users[u])
    BY <1>1 DEF UserWriteIsFounded, RegistryInv, TypeOK, UsersOK
  <1>3. ASSUME seen[r].role = users[u].role, seen[r].customer = users[u].customer
        PROVE  FALSE
    <2>1. /\ DOMAIN seen[r] = UserFields /\ DOMAIN users[u] = UserFields
          /\ "role" \in UserFields /\ "customer" \in UserFields
      BY <1>2 DEF IsUser, UserFields
    <2>2. /\ Updated(seen[r], body[r]).role = users'[u].role
          /\ Updated(seen[r], body[r]).customer = users'[u].customer
      BY <1>1, <1>3, <2>1 DEF Updated
    <2>3. CASE {"role", "customer"} \cap DOMAIN body[r] # {}
      BY <1>2, <2>2, <2>3 DEF PatchAccepted
    <2>4. CASE {"role", "customer"} \cap DOMAIN body[r] = {}
      <3>1. users'[u].role = users[u].role /\ users'[u].customer = users[u].customer
        BY <1>1, <2>1, <2>4 DEF Updated
      <3> QED
        BY <3>1
    <2> QED
      BY <2>3, <2>4
  <1> QED
    BY <1>1, <1>3

\* Only an update judged by a row that has changed breaks the link between
\* role and customer.
THEOREM LinkTheorem == Spec => OnlyStaleUpdatesBreakTheLink
  <1> DEFINE A ==
        \A u \in DOMAIN users :
          ( /\ LinkValid(users[u].role, users[u].customer)
            /\ ~LinkValid(users'[u].role, users'[u].customer) )
          => \E r \in Requests :
               /\ pc[r] = "writeUser" /\ arg[r] = u
               /\ \/ seen[r].role # users[u].role
                  \/ seen[r].customer # users[u].customer
  <1>1. RegistryInv /\ [Next]_vars => [A]_vars
    <2> SUFFICES ASSUME RegistryInv, Next PROVE A
      OBVIOUS
    <2> QED
      BY LinkStep DEF Next
  <1>2. OnlyStaleUpdatesBreakTheLink <=> [][A]_vars
    BY DEF OnlyStaleUpdatesBreakTheLink
  <1> HIDE DEF A
  <1> QED
    BY <1>1, <1>2, RegistryInvariant, PTL DEF Spec

LEMMA UserFieldStep ==
  ASSUME RegistryInv, NEW r \in Requests, Step(r), NEW u \in DOMAIN users,
         NEW f \in UserFields, users'[u][f] # users[u][f]
  PROVE  /\ pc[r] = "writeUser" /\ arg[r] = u /\ f \in DOMAIN body[r]
         /\ f # "email" => token[r].role = "ADMINISTRATOR"
  <1>1. /\ pc[r] = "writeUser" /\ arg[r] = u
        /\ users'[u] = Updated(users[u], body[r])
        /\ UserWriteIsFounded(r)
    BY WriteUserChanges
  <1>2. DOMAIN users[u] = UserFields
    BY DEF RegistryInv, TypeOK, UsersOK, IsUser
  <1>3. f \in DOMAIN body[r]
    BY <1>1, <1>2 DEF Updated
  <1> QED
    BY <1>1, <1>3 DEF UserWriteIsFounded

LEMMA CustomerFieldStep ==
  ASSUME RegistryInv, NEW r \in Requests, Step(r),
         NEW c \in DOMAIN customers \cap DOMAIN customers',
         NEW f \in CustomerFields, customers'[c][f] # customers[c][f]
  PROVE  /\ pc[r] = "writeCustomer" /\ arg[r] = c
         /\ f \in DOMAIN body[r] \/ r \in disturbed
  <1>1. TypeOK /\ CustomerWriteIsFounded(r)
    BY DEF RegistryInv
  <1>2. CASE InsertCustomer(r)
    <2>1. lastId + 1 \notin DOMAIN customers
      BY <1>1 DEF TypeOK, IdsOK
    <2>2. customers' = Put(customers, lastId + 1, body[r]) \/ UNCHANGED customers
      BY <1>2 DEF InsertCustomer, directoryVars
    <2> QED
      BY <2>1, <2>2 DEF Put
  <1>3. CASE RemoveCustomer(r, Referenced(arg[r]))
    BY <1>3 DEF RemoveCustomer, directoryVars, Without
  <1>4. CASE WriteCustomer(r)
    <2>1. customers' = [customers EXCEPT ![arg[r]] = Merged(r)] \/ UNCHANGED customers
      BY <1>4 DEF WriteCustomer, directoryVars
    <2>2. pc[r] = "writeCustomer" /\ arg[r] = c /\ customers'[c] = Merged(r)
      BY <1>4, <2>1 DEF WriteCustomer
    <2>3. ASSUME f \notin DOMAIN body[r], r \notin disturbed
          PROVE  FALSE
      <3>1. seen[r] = customers[c] /\ DOMAIN seen[r] = CustomerFields
        BY <1>1, <2>2, <2>3 DEF CustomerWriteIsFounded, IsCustomer
      <3>2. Merged(r)[f] = seen[r][f]
        BY <2>3, <3>1 DEF Merged, Updated
      <3> QED
        BY <2>2, <3>1, <3>2
    <2> QED
      BY <2>2, <2>3
  <1> QED
    BY <1>2, <1>3, <1>4, CustomerWriters

\* Fields change because they were sent; what a disturbed update of a
\* customer sets back is the exception.
THEOREM FieldsTheorem == Spec => FieldsChangeAsAsked
  <1> DEFINE A ==
        /\ \A u \in DOMAIN users : \A f \in UserFields :
             users'[u][f] # users[u][f] =>
               \E r \in Requests :
                 /\ pc[r] = "writeUser" /\ arg[r] = u /\ f \in DOMAIN body[r]
                 /\ f # "email" => token[r].role = "ADMINISTRATOR"
        /\ \A c \in DOMAIN customers \cap DOMAIN customers' :
             \A f \in CustomerFields :
               customers'[c][f] # customers[c][f] =>
                 \E r \in Requests :
                   /\ pc[r] = "writeCustomer" /\ arg[r] = c
                   /\ f \in DOMAIN body[r] \/ r \in disturbed
  <1>1. RegistryInv /\ [Next]_vars => [A]_vars
    <2> SUFFICES ASSUME RegistryInv, Next PROVE A
      OBVIOUS
    <2> QED
      BY UserFieldStep, CustomerFieldStep DEF Next
  <1>2. FieldsChangeAsAsked <=> [][A]_vars
    BY DEF FieldsChangeAsAsked
  <1> HIDE DEF A
  <1> QED
    BY <1>1, <1>2, RegistryInvariant, PTL DEF Spec

LEMMA CancelStep ==
  ASSUME RegistryInv, NEW r \in Requests, Step(r),
         NEW s \in DOMAIN shipments \ DOMAIN shipments'
  PROVE  /\ pc[r] = "removeShipment"
         /\ \/ arg[r] = s /\ InScope(token[r], shipments[s].customer)
            \/ arg[r] \notin DOMAIN shipments
  <1>1. TypeOK /\ ShipmentWriteIsFounded(r)
    BY DEF RegistryInv
  <1>2. CASE InsertShipment(r)
    BY <1>2 DEF InsertShipment, registryVars, Put
  <1>3. CASE RemoveShipment(r)
    <2>1. pc[r] = "removeShipment" /\ s \in WithCode(body[r].code)
      BY <1>3 DEF RemoveShipment, registryVars, Without
    <2>2. ASSUME arg[r] \in DOMAIN shipments
          PROVE  arg[r] = s /\ InScope(token[r], shipments[s].customer)
      <3>1. /\ InScope(token[r], owner[arg[r]])
            /\ shipments[arg[r]].code = body[r].code
        BY <1>1, <2>1, <2>2 DEF ShipmentWriteIsFounded
      <3>2. WithCode(body[r].code) = {arg[r]} /\ owner[arg[r]] = shipments[arg[r]].customer
        BY <1>1, <2>2, <3>1 DEF TypeOK, ShipmentsOK
      <3> QED
        BY <2>1, <3>1, <3>2
    <2> QED
      BY <2>1, <2>2
  <1> QED
    BY <1>2, <1>3, ShipmentWriters

\* A cancellation removes the shipment it has loaded, in the scope of its
\* token, or one that has the code of a shipment removed meanwhile.
THEOREM CancelTheorem == Spec => CancelRemovesWhatItLoaded
  <1> DEFINE A ==
        \A s \in DOMAIN shipments \ DOMAIN shipments' :
          \E r \in Requests :
            /\ pc[r] = "removeShipment"
            /\ \/ arg[r] = s /\ InScope(token[r], shipments[s].customer)
               \/ arg[r] \notin DOMAIN shipments
  <1>1. RegistryInv /\ [Next]_vars => [A]_vars
    <2> SUFFICES ASSUME RegistryInv, Next PROVE A
      OBVIOUS
    <2> QED
      BY CancelStep DEF Next
  <1>2. CancelRemovesWhatItLoaded <=> [][A]_vars
    BY DEF CancelRemovesWhatItLoaded
  <1> HIDE DEF A
  <1> QED
    BY <1>1, <1>2, RegistryInvariant, PTL DEF Spec


-----------------------------------------------------------------------------
\* Lists that nobody disturbs.
LEMMA ListReaders ==
  ASSUME NEW r \in Requests, Step(r), pc[r] \in {"pageLeft", "totalLeft"}
  PROVE  ReadPage(r) \/ ReadTotal(r)
  <1>1. ~DirectoryStep(r) /\ ~RemoveCustomer(r, Referenced(arg[r])) /\ ~Arrive(r)
    BY DEF DirectoryStep, CreateUser, InsertUser,
       UpdateUser, WriteUser, UpdateProfile, CheckUserEmail, DeleteUser, Login,
       ComparePassword, CreateCustomer, InsertCustomer, UpdateCustomer,
       CheckCustomerEmail, WriteCustomer, DeleteCustomer, RemoveCustomer, Arrive
  <1>2. RegistryStep(r) => ReadPage(r) \/ ReadTotal(r)
    BY DEF RegistryStep, CreateShipment, ReadHandler, ReadCode, Geocode,
       InsertShipment, CancelShipment, RemoveShipment, AddEvent, InsertEvent,
       GetShipment, ReadLocation, ListShipments, ShipmentHistory, AllHistory,
       ReadLocations
  <1> QED
    BY <1>1, <1>2 DEF Step

LEMMA QuietListStep ==
  ASSUME RegistryInv, NEW r \in Requests, Step(r),
         pc[r] \in {"pageLeft", "totalLeft"}, r \notin disturbed
  PROVE  /\ seen'[r].page = PageOf(body[r])
         /\ seen'[r].total = CountOf(body[r])
  <1>1. TypeOK /\ ReadIsFounded(r)
    BY DEF RegistryInv
  <1>2. CASE ReadPage(r)
    <2>1. seen'[r] = [page |-> PageOf(body[r]), total |-> seen[r].total]
          /\ pc[r] = "pageLeft"
      BY <1>1, <1>2 DEF ReadPage, TypeOK, RequestsOK
    <2> QED
      BY <1>1, <2>1 DEF ReadIsFounded
  <1>3. CASE ReadTotal(r)
    <2>1. seen'[r] = [page |-> seen[r].page, total |-> CountOf(body[r])]
          /\ pc[r] = "totalLeft"
      BY <1>1, <1>3 DEF ReadTotal, TypeOK, RequestsOK
    <2> QED
      BY <1>1, <2>1 DEF ReadIsFounded
  <1> QED
    BY <1>2, <1>3, ListReaders

\* Page and total of a list that nobody wrote into are of one state.
THEOREM QuietListsTheorem == Spec => QuietListsAreExact
  <1> DEFINE A ==
        \A r \in Requests :
          (pc[r] \in {"pageLeft", "totalLeft"} /\ pc'[r] # pc[r] /\ r \notin disturbed)
          => /\ seen'[r].page = PageOf(body[r])
             /\ seen'[r].total = Cardinality(DOMAIN KeyOf(body[r]))
  <1>1. RegistryInv /\ [Next]_vars => [A]_vars
    <2> SUFFICES ASSUME RegistryInv, Next,
                        NEW q \in Requests, pc[q] \in {"pageLeft", "totalLeft"},
                        pc'[q] # pc[q], q \notin disturbed
                 PROVE  /\ seen'[q].page = PageOf(body[q])
                        /\ seen'[q].total = Cardinality(DOMAIN KeyOf(body[q]))
      OBVIOUS
    <2>1. PICK r \in Requests : Step(r)
      BY DEF Next
    <2>2. q = r
      BY <2>1, StepOthers DEF RegistryInv, OthersKept
    <2> QED
      BY <2>1, <2>2, QuietListStep DEF CountOf
  <1>2. QuietListsAreExact <=> [][A]_vars
    BY DEF QuietListsAreExact
  <1> HIDE DEF A
  <1> QED
    BY <1>1, <1>2, RegistryInvariant, PTL DEF Spec

-----------------------------------------------------------------------------
\* Internal errors.
LEMMA InternalIs500 ==
  ASSUME NEW at, StatusOf(at) = 500
  PROVE  at = "INTERNAL_ERROR"
  <1>1. \A x \in DOMAIN StatusByCode : StatusByCode[x] # 500
    BY DEF StatusByCode
  <1>2. CASE at \in DOMAIN StatusByCode
    <2>1. at \notin {"OK", "TOKEN_MISSING", "INTERNAL_ERROR"}
      BY <1>2 DEF StatusByCode
    <2>2. StatusOf(at) = StatusByCode[at]
      BY <1>2, <2>1 DEF StatusOf
    <2> QED
      BY <1>1, <1>2, <2>2
  <1>3. CASE at \notin DOMAIN StatusByCode
    BY <1>3 DEF StatusOf
  <1> QED
    BY <1>2, <1>3

LEMMA DirectoryErrors ==
  ASSUME TypeOK, NEW r \in Requests, DirectoryStep(r), pc'[r] = "INTERNAL_ERROR"
  PROVE  \/ InsertUser(r) /\ EmailTaken(users, body[r].email, 0)
         \/ /\ WriteUser(r)
            /\ EmailTaken(users, Updated(users[arg[r]], body[r]).email, arg[r])
         \/ InsertCustomer(r) /\ EmailTaken(customers, body[r].email, 0)
         \/ /\ WriteCustomer(r)
            /\ \/ arg[r] \notin DOMAIN customers
               \/ EmailTaken(customers, Merged(r).email, arg[r])
  <1> USE DEF TypeOK, RequestsOK
  <1>1. CASE CreateUser(r) \/ UpdateUser(r) \/ UpdateProfile(r)
    BY <1>1 DEF CreateUser, UpdateUser, UpdateProfile, NextOfUpdate, Proceed, Take, Goto
  <1>2. CASE CheckUserEmail(r) \/ DeleteUser(r) \/ Login(r) \/ ComparePassword(r)
    BY <1>2 DEF CheckUserEmail, DeleteUser, Login, ComparePassword, Proceed, Take, Goto
  <1>3. CASE \/ CreateCustomer(r) \/ UpdateCustomer(r) \/ CheckCustomerEmail(r)
             \/ DeleteCustomer(r)
    BY <1>3 DEF CreateCustomer, UpdateCustomer, CheckCustomerEmail, DeleteCustomer,
       Proceed, Take, Goto
  <1>4. CASE InsertUser(r)
    BY <1>4 DEF InsertUser, Proceed, Commit, Goto
  <1>5. CASE WriteUser(r)
    BY <1>5 DEF WriteUser, Proceed, Commit, Goto
  <1>6. CASE InsertCustomer(r) \/ WriteCustomer(r)
    BY <1>6 DEF InsertCustomer, WriteCustomer, Proceed, Commit, Goto
  <1> QED
    BY <1>1, <1>2, <1>3, <1>4, <1>5, <1>6 DEF DirectoryStep

LEMMA RegistryErrors ==
  ASSUME TypeOK, NEW r \in Requests, RegistryStep(r), pc'[r] = "INTERNAL_ERROR"
  PROVE  InsertEvent(r) /\ arg[r] \notin DOMAIN shipments
  <1> USE DEF TypeOK, RequestsOK
  <1>1. CASE CreateShipment(r)
    BY <1>1 DEF CreateShipment, RegistrationErrors, FirstCheck, Proceed, Take, Goto
  <1>2. CASE ReadHandler(r) \/ ReadCode(r) \/ Geocode(r)
    BY <1>2 DEF ReadHandler, HandlerCheck, ReadCode, Geocode, GeocodingErrors, Proceed, Goto
  <1>3. CASE InsertShipment(r)
    BY <1>3 DEF InsertShipment, InsertErrors, Proceed, Commit, Goto
  <1>4. CASE CancelShipment(r) \/ RemoveShipment(r) \/ AddEvent(r)
    BY <1>4 DEF CancelShipment, RemoveShipment, AddEvent, NotLoaded, Refusal,
       Proceed, Take, Commit, Goto
  <1>5. CASE InsertEvent(r)
    BY <1>5 DEF InsertEvent, Proceed, Commit, Goto
  <1>6. CASE GetShipment(r) \/ ReadLocation(r) \/ ReadLocations(r)
    BY <1>6 DEF GetShipment, ReadLocation, ReadLocations, NotLoaded, Refusal,
       Proceed, Goto
  <1>7. CASE ListShipments(r) \/ ShipmentHistory(r) \/ AllHistory(r)
    BY <1>7 DEF ListShipments, ShipmentHistory, AllHistory, NotLoaded, Refusal,
       Proceed, Take, Goto
  <1>8. CASE ReadPage(r) \/ ReadTotal(r)
    BY <1>8 DEF ReadPage, ReadTotal, AfterBoth, Goto
  <1> QED
    BY <1>1, <1>2, <1>3, <1>4, <1>5, <1>6, <1>7, <1>8 DEF RegistryStep

LEMMA ArriveErrors ==
  ASSUME TypeOK, NEW r \in Requests, Arrive(r)
  PROVE  pc'[r] # "INTERNAL_ERROR"
  BY RoutesListed DEF TypeOK, RequestsOK, Arrive, Authenticate, Proceed, Goto, AllRoutes

LEMMA ErrorStep ==
  ASSUME RegistryInv, NEW r \in Requests, Step(r), pc'[r] = "INTERNAL_ERROR",
         r \notin disturbed
  PROVE  pc[r] = "removeCustomer" /\ Referenced(arg[r])
  <1>1. /\ TypeOK /\ UserWriteIsFounded(r) /\ CustomerWriteIsFounded(r)
        /\ ShipmentWriteIsFounded(r)
    BY DEF RegistryInv
  <1>2. CASE DirectoryStep(r)
    <2>1. ~(InsertUser(r) /\ EmailTaken(users, body[r].email, 0))
      BY <1>1 DEF InsertUser, UserWriteIsFounded
    <2>2. ~(WriteUser(r) /\ EmailTaken(users, Updated(users[arg[r]], body[r]).email, arg[r]))
      BY <1>1 DEF WriteUser, UserWriteIsFounded
    <2>3. ~(InsertCustomer(r) /\ EmailTaken(customers, body[r].email, 0))
      BY <1>1 DEF InsertCustomer, CustomerWriteIsFounded
    <2>4. ~(/\ WriteCustomer(r)
            /\ \/ arg[r] \notin DOMAIN customers
               \/ EmailTaken(customers, Merged(r).email, arg[r]))
      BY <1>1 DEF WriteCustomer, CustomerWriteIsFounded
    <2> QED
      BY <1>1, <1>2, <2>1, <2>2, <2>3, <2>4, DirectoryErrors
  <1>3. CASE RegistryStep(r)
    BY <1>1, <1>3, RegistryErrors DEF InsertEvent, ShipmentWriteIsFounded
  <1>4. CASE RemoveCustomer(r, Referenced(arg[r]))
    BY <1>1, <1>4 DEF RemoveCustomer, CustomerWriteIsFounded, Commit, Goto,
       TypeOK, RequestsOK
  <1> QED
    BY <1>1, <1>2, <1>3, <1>4, ArriveErrors DEF Step

\* Nobody meets an internal error undisturbed, but who removes a customer
\* that something refers to.
THEOREM ErrorsTheorem == Spec => InternalErrorsAreRaces
  <1> DEFINE A ==
        \A r \in Requests :
          (pc'[r] # pc[r] /\ StatusOf(pc'[r]) = 500) =>
            \/ r \in disturbed
            \/ pc[r] = "removeCustomer" /\ Referenced(arg[r])
  <1>1. RegistryInv /\ [Next]_vars => [A]_vars
    <2> SUFFICES ASSUME RegistryInv, Next, NEW q \in Requests,
                        pc'[q] # pc[q], StatusOf(pc'[q]) = 500,
                        q \notin disturbed
                 PROVE  pc[q] = "removeCustomer" /\ Referenced(arg[q])
      OBVIOUS
    <2>1. PICK r \in Requests : Step(r)
      BY DEF Next
    <2>2. q = r
      BY <2>1, StepOthers DEF RegistryInv, OthersKept
    <2>3. pc'[r] = "INTERNAL_ERROR"
      BY <2>2, InternalIs500
    <2> QED
      BY <2>1, <2>2, <2>3, ErrorStep
  <1>2. InternalErrorsAreRaces <=> [][A]_vars
    BY DEF InternalErrorsAreRaces
  <1> HIDE DEF A
  <1> QED
    BY <1>1, <1>2, RegistryInvariant, PTL DEF Spec

-----------------------------------------------------------------------------
\* Lists and their pages.  A list is a key function over finitely many ids.
IsList(key) ==
  /\ IsFiniteSet(DOMAIN key) /\ DOMAIN key \subseteq Nat
  /\ \A x \in DOMAIN key : key[x] \in Nat

LEMMA PrecedesIsTotal ==
  ASSUME NEW key, NEW order, IsList(key),
         NEW x \in DOMAIN key, NEW y \in DOMAIN key
  PROVE  /\ ~Precedes(key, order, x, x)
         /\ x # y => Precedes(key, order, x, y) \/ Precedes(key, order, y, x)
  BY DEF IsList, Precedes

LEMMA PrecedesIsTransitive ==
  ASSUME NEW key, NEW order, IsList(key), NEW x \in DOMAIN key,
         NEW y \in DOMAIN key, NEW z \in DOMAIN key,
         Precedes(key, order, x, y), Precedes(key, order, y, z)
  PROVE  Precedes(key, order, x, z)
  BY DEF IsList, Precedes

\* The rows before a row, which its rank counts.
Before(key, order, x) == {y \in DOMAIN key : Precedes(key, order, y, x)}

LEMMA RankType ==
  ASSUME NEW key, NEW order, IsList(key), NEW x \in DOMAIN key
  PROVE  /\ IsFiniteSet(Before(key, order, x))
         /\ Cardinality(Before(key, order, x)) \in Nat
         /\ Rank(key, order, x) = 1 + Cardinality(Before(key, order, x))
         /\ Rank(key, order, x) \in 1..Cardinality(DOMAIN key)
  <1>1. Before(key, order, x) \subseteq DOMAIN key \ {x}
    BY PrecedesIsTotal DEF Before
  <1>2. /\ IsFiniteSet(DOMAIN key \ {x})
        /\ Cardinality(DOMAIN key \ {x}) = Cardinality(DOMAIN key) - 1
    BY FS_RemoveElement DEF IsList
  <1>3. /\ IsFiniteSet(Before(key, order, x))
        /\ Cardinality(Before(key, order, x)) <= Cardinality(DOMAIN key \ {x})
    BY <1>1, <1>2, FS_Subset
  <1>4. /\ Cardinality(Before(key, order, x)) \in Nat
        /\ Cardinality(DOMAIN key) \in Nat
    BY <1>3, FS_CardinalityType DEF IsList
  <1>5. Rank(key, order, x) = 1 + Cardinality(Before(key, order, x))
    BY DEF Rank, Before
  <1> QED
    BY <1>2, <1>3, <1>4, <1>5

LEMMA RankIsMonotone ==
  ASSUME NEW key, NEW order, IsList(key), NEW x \in DOMAIN key,
         NEW y \in DOMAIN key, Precedes(key, order, x, y)
  PROVE  Rank(key, order, x) < Rank(key, order, y)
  <1> DEFINE X == Before(key, order, x)
             Y == Before(key, order, y)
  <1>1. X \subseteq Y
    BY PrecedesIsTransitive DEF Before
  <1>2. x \in Y /\ x \notin X
    BY PrecedesIsTotal DEF Before
  <1>3. IsFiniteSet(Y) /\ Cardinality(X) \in Nat /\ Cardinality(Y) \in Nat
    BY RankType
  <1>4. Cardinality(X) <= Cardinality(Y) /\ Cardinality(X) # Cardinality(Y)
    BY <1>1, <1>2, <1>3, FS_Subset
  <1> QED
    BY <1>3, <1>4, RankType

LEMMA RankTellsOrder ==
  ASSUME NEW key, NEW order, IsList(key),
         NEW x \in DOMAIN key, NEW y \in DOMAIN key
  PROVE  /\ Rank(key, order, x) = Rank(key, order, y) => x = y
         /\ Rank(key, order, x) < Rank(key, order, y)
              => Precedes(key, order, x, y)
  <1>1. /\ Rank(key, order, x) \in Nat /\ Rank(key, order, y) \in Nat
        /\ Precedes(key, order, x, y) => Rank(key, order, x) < Rank(key, order, y)
        /\ Precedes(key, order, y, x) => Rank(key, order, y) < Rank(key, order, x)
    <2>1. Rank(key, order, x) \in Nat /\ Rank(key, order, y) \in Nat
      BY RankType
    <2> QED
      BY <2>1, RankIsMonotone
  <1>2. x # y => Precedes(key, order, x, y) \/ Precedes(key, order, y, x)
    BY PrecedesIsTotal
  <1> QED
    BY <1>1, <1>2

\* Every rank from the first to the last is some row's.
LEMMA RanksAreOnto ==
  ASSUME NEW key, NEW order, IsList(key), NEW k \in 1..Cardinality(DOMAIN key)
  PROVE  \E x \in DOMAIN key : Rank(key, order, x) = k
  <1> DEFINE D == DOMAIN key
             n == Cardinality(D)
             f == [x \in D |-> Rank(key, order, x)]
  <1>1. n \in Nat
    BY FS_CardinalityType DEF IsList
  <1>2. IsFiniteSet(1..n) /\ Cardinality(1..n) = n
    BY <1>1, FS_Interval
  <1>3. f \in Injection(D, 1..n)
    BY RankType, RankTellsOrder DEF Injection, IsInjective
  <1>4. f \in Surjection(D, 1..n)
    BY <1>2, <1>3, FS_Injection
  <1> QED
    BY <1>4 DEF Surjection

\* The arithmetic of pages: their ranges of ranks are limit long, follow one
\* another and cover the ranks of the list.
LEMMA PageRanges ==
  ASSUME NEW n \in Nat, NEW limit \in Nat \ {0}
  PROVE  /\ TotalPages(n, limit) \in Nat \ {0}
         /\ \A p \in 1..TotalPages(n, limit) :
              /\ (p - 1) * limit \in Nat /\ p * limit = (p - 1) * limit + limit
              /\ n > 0 => (p - 1) * limit < n
              /\ p < TotalPages(n, limit) => p * limit < n
         /\ \A p, q \in 1..TotalPages(n, limit) :
              p < q => p * limit <= (q - 1) * limit
         /\ \A k \in 1..n : \E p \in 1..TotalPages(n, limit) :
              k \in (p - 1) * limit + 1 .. p * limit
  <1> DEFINE t == TotalPages(n, limit)
  <1>1. ASSUME NEW a \in Nat
        PROVE  /\ a \div limit \in Nat /\ a % limit \in 0..(limit - 1)
               /\ a = limit * (a \div limit) + (a % limit)
    <2>1. a % limit \in 0..(limit - 1)
      OBVIOUS
    <2>2. a = limit * (a \div limit) + (a % limit)
      OBVIOUS
    <2>3. a \div limit \in Int
      OBVIOUS
    <2>4. a \div limit >= 0
      <3> DEFINE d == a \div limit
      <3> SUFFICES ASSUME d < 0
                   PROVE  FALSE
        BY <2>3
      <3>1. limit * d <= limit * (-1)
        BY <2>3
      <3> QED
        BY <2>1, <2>2, <2>3, <3>1
    <2> QED
      BY <2>1, <2>2, <2>3, <2>4
  <1>2. \A a, b \in Int : a <= b => a * limit <= b * limit
    OBVIOUS
  <1>3. t \in Nat \ {0} /\ (n > 0 => (t - 1) * limit < n /\ n <= t * limit)
    <2>1. CASE n = 0
      BY <2>1 DEF TotalPages
    <2>2. CASE n > 0
      <3>1. t = (n + limit - 1) \div limit /\ n + limit - 1 \in Nat
        BY <2>2 DEF TotalPages
      <3>2. /\ t \in Nat
            /\ n + limit - 1 = limit * t + ((n + limit - 1) % limit)
            /\ (n + limit - 1) % limit \in 0..(limit - 1)
        BY <1>1, <3>1
      <3> HIDE DEF t
      <3>3. (t - 1) * limit = limit * t - limit /\ t * limit = limit * t
        BY <3>2
      <3>4. limit * t \in Nat
        BY <3>2
      <3> QED
        BY <2>2, <3>2, <3>3, <3>4
    <2> QED
      BY <2>1, <2>2
  <1> HIDE DEF t
  <1>4. \A p \in 1..t : /\ (p - 1) * limit \in Nat
                        /\ p * limit = (p - 1) * limit + limit
    BY <1>3
  <1>5. \A p \in 1..t : /\ n > 0 => (p - 1) * limit < n
                        /\ p < t => p * limit < n
    <2> SUFFICES ASSUME NEW p \in 1..t
                 PROVE  /\ n > 0 => (p - 1) * limit < n
                        /\ p < t => p * limit < n
      OBVIOUS
    <2>1. (p - 1) * limit <= (t - 1) * limit /\ (t - 1) * limit \in Int
      BY <1>2, <1>3
    <2>2. p < t => p * limit <= (t - 1) * limit
      BY <1>2, <1>3
    <2>3. p < t => n > 0
      BY <1>3 DEF t, TotalPages
    <2>4. (p - 1) * limit \in Int /\ p * limit \in Int
      BY <1>4
    <2> QED
      BY <1>3, <2>1, <2>2, <2>3, <2>4
  <1>6. \A p, q \in 1..t : p < q => p * limit <= (q - 1) * limit
    BY <1>2, <1>3
  <1>7. ASSUME NEW k \in 1..n
        PROVE  \E p \in 1..t : k \in (p - 1) * limit + 1 .. p * limit
    <2> DEFINE p == (k - 1) \div limit + 1
    <2>1. k - 1 \in Nat
      OBVIOUS
    <2>2. /\ p \in Nat \ {0} /\ (k - 1) % limit \in 0..(limit - 1)
          /\ k - 1 = limit * ((k - 1) \div limit) + ((k - 1) % limit)
          /\ (k - 1) \div limit \in Nat
      BY <1>1, <2>1
    <2>3. p - 1 = (k - 1) \div limit
      BY <2>2
    <2> HIDE DEF p
    <2>4. k - 1 = limit * (p - 1) + ((k - 1) % limit)
      BY <2>2, <2>3
    <2>5. /\ (p - 1) * limit = limit * (p - 1)
          /\ (p - 1) * limit \in Nat /\ p * limit = (p - 1) * limit + limit
      BY <2>2
    <2>6. k \in (p - 1) * limit + 1 .. p * limit
      BY <2>2, <2>4, <2>5
    <2>7. t * limit >= k
      BY <1>3, <1>4
    <2>8. p <= t
      <3> SUFFICES ASSUME t <= p - 1
                   PROVE  FALSE
        BY <1>3, <2>2
      <3>1. t * limit <= (p - 1) * limit
        BY <1>2, <1>3, <2>2
      <3> QED
        BY <2>5, <2>6, <2>7, <3>1, <1>3
    <2> QED
      BY <1>3, <2>2, <2>6, <2>8
  <1> QED
    BY <1>3, <1>4, <1>5, <1>6, <1>7 DEF t

\* The pages of a list hold every row once, in order, and are full.
LEMMA ListIsPaged ==
  ASSUME NEW key, NEW order, IsList(key), NEW limit \in Nat \ {0}
  PROVE  PagesPartition(key, order, limit)
  <1> DEFINE D == DOMAIN key
             n == Cardinality(D)
             t == TotalPages(n, limit)
             range(p) == (p - 1) * limit + 1 .. p * limit
             rank(x) == Rank(key, order, x)
             rows(p) == Page(key, order, p, limit)
  <1>1. n \in Nat /\ \A x \in D : rank(x) \in 1..n
    BY FS_CardinalityType, RankType DEF IsList
  <1>2. \A p : rows(p) = {x \in D : rank(x) \in range(p)}
    BY DEF Page, OnPage
  <1>3. D = UNION {rows(p) : p \in 1..t}
    <2>1. \A x \in D : \E p \in 1..t : rank(x) \in range(p)
      BY <1>1, PageRanges
    <2> QED
      BY <1>2, <2>1
  <1>4. ASSUME NEW p \in 1..t, n > 0
        PROVE  /\ Cardinality(rows(p)) \in 1..limit
               /\ p < t => Cardinality(rows(p)) = limit
    <2> DEFINE R == rows(p)
               f == [x \in R |-> rank(x)]
    <2>1. /\ (p - 1) * limit \in Nat /\ p * limit = (p - 1) * limit + limit
          /\ (p - 1) * limit < n
          /\ p < t => p * limit < n
      BY <1>1, <1>4, PageRanges
    <2>2. IsFiniteSet(range(p)) /\ Cardinality(range(p)) = limit
      <3>1. /\ (p - 1) * limit + 1 \in Int /\ p * limit \in Int
            /\ ~((p - 1) * limit + 1 > p * limit)
            /\ p * limit - ((p - 1) * limit + 1) + 1 = limit
        BY <2>1
      <3> QED
        BY <3>1, FS_Interval
    <2>3. f \in Injection(R, range(p))
      <3>1. \A x \in R : x \in D /\ rank(x) \in range(p)
        BY <1>2
      <3>2. \A x, y \in R : rank(x) = rank(y) => x = y
        BY <3>1, RankTellsOrder
      <3> QED
        BY <3>1, <3>2 DEF Injection, IsInjective
    <2>4. /\ IsFiniteSet(R) /\ Cardinality(R) <= limit
          /\ f \in Surjection(R, range(p)) => Cardinality(R) = limit
      BY <2>2, <2>3, FS_Injection
    <2>5. R # {}
      <3> DEFINE first == (p - 1) * limit + 1
      <3>1. first \in 1..n /\ first \in range(p)
        BY <1>1, <2>1
      <3> HIDE DEF first
      <3>2. PICK x \in D : rank(x) = first
        BY <3>1, RanksAreOnto
      <3>3. x \in R
        BY <1>2, <3>1, <3>2
      <3> QED
        BY <3>3
    <2>6. Cardinality(R) \in Nat \ {0}
      BY <2>4, <2>5, FS_CardinalityType, FS_EmptySet
    <2>7. ASSUME p < t
          PROVE  f \in Surjection(R, range(p))
      <3>1. \A k \in range(p) : k \in 1..n
        BY <1>1, <2>1, <2>7
      <3>2. ASSUME NEW k \in range(p)
            PROVE  \E x \in R : rank(x) = k
        <4>1. PICK x \in D : rank(x) = k
          BY <3>1, RanksAreOnto
        <4>2. x \in R
          BY <1>2, <4>1
        <4> QED
          BY <4>1, <4>2
      <3>3. f \in [R -> range(p)]
        BY <1>2
      <3> QED
        BY <3>2, <3>3 DEF Surjection
    <2> QED
      BY <2>4, <2>6, <2>7
  <1>5. ASSUME NEW p \in 1..t, NEW q \in 1..t, p < q,
               NEW x \in rows(p), NEW y \in rows(q)
        PROVE  Precedes(key, order, x, y)
    <2>1. x \in D /\ y \in D /\ rank(x) \in range(p) /\ rank(y) \in range(q)
      BY <1>2
    <2>2. p * limit <= (q - 1) * limit
          /\ (p - 1) * limit \in Nat /\ p * limit = (p - 1) * limit + limit
          /\ (q - 1) * limit \in Nat /\ q * limit = (q - 1) * limit + limit
      BY <1>1, <1>5, PageRanges
    <2>3. rank(x) < rank(y)
      BY <1>1, <2>1, <2>2
    <2> QED
      BY <2>1, <2>3, RankTellsOrder
  <1>6. \A p \in 1..t : n = 0 => t = 1
    BY DEF TotalPages
  <1>7. t \in Nat
    BY <1>1, PageRanges
  <1>8. \A p, q \in 1..t : p < q => n > 0
    BY <1>1, <1>6, <1>7
  <1> DEFINE pages == {[number |-> p, rows |-> rows(p)] : p \in 1..t}
  <1> HIDE DEF rows, rank, range, t, n
  <1>9. \A z \in pages : \E p \in 1..t : z.number = p /\ z.rows = rows(p)
    OBVIOUS
  <1>10. D = UNION {z.rows : z \in pages}
    <2>1. \A z \in pages : z.rows \in {rows(p) : p \in 1..t}
      BY <1>9
    <2>2. ASSUME NEW p \in 1..t
          PROVE  \E z \in pages : z.rows = rows(p)
      <3>1. [number |-> p, rows |-> rows(p)] \in pages
        OBVIOUS
      <3> QED
        BY <3>1
    <2>3. {z.rows : z \in pages} = {rows(p) : p \in 1..t}
      BY <2>1, <2>2
    <2> QED
      BY <1>3, <2>3
  <1>11. \A z \in pages : n > 0 => Cardinality(z.rows) \in 1..limit
    BY <1>4, <1>9
  <1>12. \A z, w \in pages : z.number < w.number =>
           /\ Cardinality(z.rows) = limit
           /\ \A x \in z.rows, y \in w.rows : Precedes(key, order, x, y)
    <2> SUFFICES ASSUME NEW z \in pages, NEW w \in pages, z.number < w.number
                 PROVE  /\ Cardinality(z.rows) = limit
                        /\ \A x \in z.rows, y \in w.rows : Precedes(key, order, x, y)
      OBVIOUS
    <2>1. PICK p \in 1..t : z.number = p /\ z.rows = rows(p)
      BY <1>9
    <2>2. PICK q \in 1..t : w.number = q /\ w.rows = rows(q)
      BY <1>9
    <2>3. p < q /\ p < t /\ n > 0
      BY <1>7, <1>8, <2>1, <2>2
    <2> QED
      BY <1>4, <1>5, <2>1, <2>2, <2>3
  <1> QED
    BY <1>10, <1>11, <1>12 DEF PagesPartition, rows, t, n

\* The tables are finite and what they are sorted by are numbers.
LEMMA TablesAreLists ==
  ASSUME TypeOK
  PROVE  /\ \A q \in ShipmentQueries : IsList(ShipmentKey(shipments, q))
         /\ \A q \in EventQueries : IsList(EventKey(events, q))
         /\ \A s : IsList(EventsOf(events, s))
         /\ IsList(UserKey(users, <<>>)) /\ IsList(CustomerKey(customers))
  <1>1. lastId \in Nat /\ IsFiniteSet(1..lastId)
    <2>1. lastId \in Nat
      BY DEF TypeOK, IdsOK
    <2>2. 1 \in Int /\ lastId \in Int
      BY <2>1
    <2> QED
      BY <2>1, <2>2, FS_Interval
  <1>2. ASSUME NEW S \in SUBSET (1..lastId)
        PROVE  IsFiniteSet(S) /\ S \subseteq Nat
    <2>1. IsFiniteSet(S)
      BY <1>1, FS_Subset
    <2>2. S \subseteq Nat
      BY <1>1
    <2> QED
      BY <2>1, <2>2
  <1>3. /\ DOMAIN shipments \subseteq 1..lastId /\ DOMAIN events \subseteq 1..lastId
        /\ DOMAIN users \subseteq 1..lastId /\ DOMAIN customers \subseteq 1..lastId
    BY DEF TypeOK, IdsOK, ShipmentsOK
  <1>4. /\ \A s \in DOMAIN shipments : shipments[s].departureDate \in Nat
        /\ \A e \in DOMAIN events : events[e].occurredAt \in Nat
    <2>1. Times \subseteq Nat
      BY RegistryAssumption DEF Times
    <2>2. \A s \in DOMAIN shipments : shipments[s].departureDate \in Times
      BY DEF TypeOK, ShipmentsOK, IsShipment
    <2>3. \A e \in DOMAIN events : events[e].occurredAt \in Times
      BY DEF TypeOK, EventsOK, IsEvent
    <2> QED
      BY <2>1, <2>2, <2>3
  <1>5. ASSUME NEW q
        PROVE  IsList(ShipmentKey(shipments, q))
    <2>1. DOMAIN ShipmentKey(shipments, q) \subseteq DOMAIN shipments
      BY DEF ShipmentKey
    <2>2. \A s \in DOMAIN ShipmentKey(shipments, q) :
            ShipmentKey(shipments, q)[s] = shipments[s].departureDate
      BY DEF ShipmentKey
    <2>3. DOMAIN ShipmentKey(shipments, q) \subseteq 1..lastId
      BY <1>3, <2>1
    <2> QED
      BY <1>2, <1>4, <2>1, <2>2, <2>3 DEF IsList
  <1>6. ASSUME NEW q
        PROVE  IsList(EventKey(events, q))
    <2>1. DOMAIN EventKey(events, q) \subseteq DOMAIN events
      BY DEF EventKey
    <2>2. \A e \in DOMAIN EventKey(events, q) :
            EventKey(events, q)[e] = events[e].occurredAt
      BY DEF EventKey
    <2>3. DOMAIN EventKey(events, q) \subseteq 1..lastId
      BY <1>3, <2>1
    <2> QED
      BY <1>2, <1>4, <2>1, <2>2, <2>3 DEF IsList
  <1>7. ASSUME NEW s
        PROVE  IsList(EventsOf(events, s))
    <2>1. DOMAIN EventsOf(events, s) \subseteq DOMAIN events
      BY DEF EventsOf
    <2>2. \A e \in DOMAIN EventsOf(events, s) :
            EventsOf(events, s)[e] = events[e].occurredAt
      BY DEF EventsOf
    <2>3. DOMAIN EventsOf(events, s) \subseteq 1..lastId
      BY <1>3, <2>1
    <2> QED
      BY <1>2, <1>4, <2>1, <2>2, <2>3 DEF IsList
  <1>8. ASSUME NEW S \in SUBSET (1..lastId)
        PROVE  IsList(ById(S))
    <2>1. DOMAIN ById(S) = S /\ \A x \in S : ById(S)[x] = x
      BY DEF ById
    <2> QED
      BY <1>2, <2>1 DEF IsList
  <1>9. /\ {u \in DOMAIN users : Matches(users[u], <<>>)} \in SUBSET (1..lastId)
        /\ DOMAIN customers \in SUBSET (1..lastId)
    BY <1>3
  <1> QED
    BY <1>5, <1>6, <1>7, <1>8, <1>9 DEF UserKey, CustomerKey

\* The first page of one row holds the row that no other precedes.
LEMMA FirstOfList ==
  ASSUME NEW key, NEW order, IsList(key)
  PROVE  Page(key, order, 1, 1) =
           {x \in DOMAIN key : \A y \in DOMAIN key : ~Precedes(key, order, y, x)}
  <1>1. ASSUME NEW x \in DOMAIN key
        PROVE  OnPage(Rank(key, order, x), 1, 1) <=> Before(key, order, x) = {}
    <2>1. /\ IsFiniteSet(Before(key, order, x))
          /\ Cardinality(Before(key, order, x)) \in Nat
          /\ Rank(key, order, x) = 1 + Cardinality(Before(key, order, x))
      BY RankType
    <2>2. OnPage(Rank(key, order, x), 1, 1)
            <=> Cardinality(Before(key, order, x)) = 0
      BY <2>1 DEF OnPage
    <2> QED
      BY <2>1, <2>2, FS_EmptySet
  <1>2. \A x \in DOMAIN key :
          Before(key, order, x) = {}
            <=> \A y \in DOMAIN key : ~Precedes(key, order, y, x)
    BY DEF Before
  <1> QED
    BY <1>1, <1>2 DEF Page

\* The location read for a whole page is the one read for one shipment.
LEMMA LocationsAgree ==
  ASSUME TypeOK, NEW s \in DOMAIN shipments
  PROVE  LatestLocations(events, DOMAIN shipments)[s] = LatestLocation(events, s)
  <1> DEFINE theirs == {e \in DOMAIN events : events[e].shipment \in DOMAIN shipments}
             Sooner(d, e) ==
               \/ events[d].shipment < events[e].shipment
               \/ /\ events[d].shipment = events[e].shipment
                  /\ \/ events[d].occurredAt > events[e].occurredAt
                     \/ events[d].occurredAt = events[e].occurredAt /\ d > e
             distinct == {e \in theirs :
                            \A d \in theirs :
                              events[d].shipment = events[e].shipment => ~Sooner(d, e)}
             mine == {d \in distinct : events[d].shipment = s}
             key == EventsOf(events, s)
             first == Page(key, EventOrder, 1, 1)
  <1>1. LatestLocations(events, DOMAIN shipments)[s] = {events[e].place : e \in mine}
    BY DEF LatestLocations
  <1>2. LatestLocation(events, s) = {events[e].place : e \in first}
    BY DEF LatestLocation
  <1>3. /\ DOMAIN key = {e \in theirs : events[e].shipment = s}
        /\ \A e \in DOMAIN key : key[e] = events[e].occurredAt
    BY DEF EventsOf
  <1>4. \A e \in DOMAIN events : events[e].shipment \in Nat
    BY DEF TypeOK, EventsOK, IsEvent
  <1>5. \A d, e \in DOMAIN key : Sooner(d, e) <=> Precedes(key, EventOrder, d, e)
    BY <1>3, <1>4 DEF Precedes, EventOrder
  <1>6. mine = {x \in DOMAIN key :
                  \A y \in DOMAIN key : ~Precedes(key, EventOrder, y, x)}
    <2> HIDE DEF Sooner, theirs, key
    <2> QED
      BY <1>3, <1>5
  <1>7. first = {x \in DOMAIN key :
                   \A y \in DOMAIN key : ~Precedes(key, EventOrder, y, x)}
    BY TablesAreLists, FirstOfList
  <1> QED
    BY <1>1, <1>2, <1>6, <1>7

\* Every list of the API is paged into its rows, each once and in order.
THEOREM ListsTheorem == Spec => []ListsAreWhole
  <1>1. RegistryInv => ListsAreWhole
    <2> SUFFICES ASSUME TypeOK
                 PROVE  ListsAreWhole
      BY DEF RegistryInv
    <2>1. {1, 2} \subseteq Nat \ {0}
      OBVIOUS
    <2> QED
      BY <2>1, TablesAreLists, ListIsPaged, LocationsAgree DEF ListsAreWhole
  <1> QED
    BY <1>1, RegistryInvariant, PTL

-----------------------------------------------------------------------------
\* Reading a list page by page while it grows.  A later list extends an
\* earlier one: rows have come, none has gone or changed its sort key.
Extends(later, earlier) ==
  /\ DOMAIN earlier \subseteq DOMAIN later
  /\ \A x \in DOMAIN earlier : later[x] = earlier[x]

\* A row that stays is never moved towards the front by rows that come.
LEMMA RanksOnlyRise ==
  ASSUME NEW later, NEW earlier, NEW order, IsList(later), IsList(earlier),
         Extends(later, earlier), NEW x \in DOMAIN earlier
  PROVE  Rank(earlier, order, x) <= Rank(later, order, x)
  <1>1. x \in DOMAIN later
    BY DEF Extends
  <1>2. Before(earlier, order, x) \subseteq Before(later, order, x)
    BY DEF Extends, Before, Precedes
  <1>3. /\ IsFiniteSet(Before(later, order, x))
        /\ Cardinality(Before(later, order, x)) \in Nat
        /\ Rank(later, order, x) = 1 + Cardinality(Before(later, order, x))
    BY <1>1, RankType
  <1>4. /\ Cardinality(Before(earlier, order, x)) \in Nat
        /\ Rank(earlier, order, x) = 1 + Cardinality(Before(earlier, order, x))
    BY RankType
  <1>5. Cardinality(Before(earlier, order, x))
          <= Cardinality(Before(later, order, x))
    BY <1>2, <1>3, FS_Subset
  <1> QED
    BY <1>3, <1>4, <1>5

\* A set of numbers that holds 1 and with each number the next goes on to n.
LEMMA ReachesTheEnd ==
  ASSUME NEW n \in Nat, NEW S \in SUBSET (1..n), 1 \in S,
         \A k \in S : k < n => k + 1 \in S
  PROVE  n \in S
  <1> SUFFICES ASSUME n \notin S
               PROVE  FALSE
    OBVIOUS
  <1> DEFINE f == [k \in S |-> k + 1]
  <1>1. \A k \in S : k \in Nat /\ k < n
    OBVIOUS
  <1>2. f \in Injection(S, S)
    BY <1>1 DEF Injection, IsInjective
  <1>3. IsFiniteSet(S)
    <2>1. IsFiniteSet(1..n)
      BY FS_Interval
    <2> QED
      BY <2>1, FS_Subset
  <1>4. f \in Surjection(S, S)
    BY <1>2, <1>3, FS_Injection
  <1>5. PICK k \in S : f[k] = 1
    BY <1>4 DEF Surjection
  <1> QED
    BY <1>1, <1>5

\* Who reads page after page, up to the last there is by then, sees every row
\* that was there from the beginning, though each page is read of the list as
\* it is at that moment: lists[p] is the list when page p is read.  New rows
\* push a row to later pages, never past the reader.
THEOREM PagingMissesNothing ==
  ASSUME NEW order, NEW limit \in Nat \ {0}, NEW last \in Nat \ {0}, NEW lists,
         \A p \in 1..last : IsList(lists[p]),
         \A p, q \in 1..last : p <= q => Extends(lists[q], lists[p]),
         last = TotalPages(Cardinality(DOMAIN lists[last]), limit)
  PROVE  \A x \in DOMAIN lists[1] :
           \E p \in 1..last : x \in Page(lists[p], order, p, limit)
  <1> SUFFICES ASSUME NEW x \in DOMAIN lists[1],
                      \A p \in 1..last : x \notin Page(lists[p], order, p, limit)
               PROVE  FALSE
    OBVIOUS
  <1> DEFINE rank(p) == Rank(lists[p], order, x)
             ahead == {p \in 1..last : rank(p) > p * limit}
  <1>1. 1 \in 1..last /\ last \in 1..last
    OBVIOUS
  <1>2. \A p \in 1..last :
          x \in DOMAIN lists[p] /\ rank(p) \in 1..Cardinality(DOMAIN lists[p])
    <2>1. \A p \in 1..last : x \in DOMAIN lists[p]
      BY <1>1 DEF Extends
    <2> QED
      BY <2>1, RankType
  <1>3. \A p \in 1..last : Cardinality(DOMAIN lists[p]) \in Nat
    BY FS_CardinalityType DEF IsList
  <1>4. \A p \in 1..last : rank(p) \notin (p - 1) * limit + 1 .. p * limit
    BY <1>2 DEF Page, OnPage
  <1>5. \A p \in 1..last : rank(p) \in Nat /\ rank(p) > 0
    BY <1>2, <1>3
  <1>6. \A p \in 1..last : p * limit \in Nat /\ (p - 1) * limit \in Nat
    OBVIOUS
  <1>7. 1 \in ahead
    <2>1. (1 - 1) * limit = 0
      OBVIOUS
    <2> QED
      BY <1>1, <1>4, <1>5, <1>6, <2>1
  <1>8. ASSUME NEW p \in ahead, p < last
        PROVE  p + 1 \in ahead
    <2>1. p \in 1..last /\ p + 1 \in 1..last /\ p <= p + 1 /\ (p + 1) - 1 = p
      BY <1>8
    <2>2. rank(p) <= rank(p + 1)
      BY <1>2, <2>1, RanksOnlyRise
    <2>3. rank(p) > p * limit
      BY <1>8
    <2> HIDE DEF rank
    <2> QED
      BY <1>4, <1>5, <1>6, <2>1, <2>2, <2>3
  <1>9. last \in ahead
    <2>1. ahead \in SUBSET (1..last)
      OBVIOUS
    <2> HIDE DEF ahead
    <2> QED
      BY <1>7, <1>8, <2>1, ReachesTheEnd
  <1>10. rank(last) <= last * limit
    <2> DEFINE n == Cardinality(DOMAIN lists[last])
    <2>1. n \in Nat /\ rank(last) \in 1..n
      BY <1>1, <1>2, <1>3
    <2>2. PICK p \in 1..last : rank(last) \in (p - 1) * limit + 1 .. p * limit
      BY <2>1, PageRanges
    <2>3. \A q \in 1..last : q < last => q * limit <= (last - 1) * limit
      BY <1>1, <2>1, PageRanges
    <2>4. last * limit = (last - 1) * limit + limit
      BY <1>1, <2>1, PageRanges
    <2>5. p * limit <= last * limit
      BY <1>1, <1>6, <2>3, <2>4
    <2> HIDE DEF rank
    <2> QED
      BY <1>1, <1>5, <1>6, <2>2, <2>5
  <1> QED
    BY <1>1, <1>5, <1>6, <1>9, <1>10

\* A history, and any selection of events, only grows, except by the removal
\* of a shipment: nothing else takes an event away or changes its place.
HistoryOnlyGrows ==
  [][(\A r \in Requests : pc[r] = "removeShipment" => pc'[r] = pc[r])
       => \A q \in EventQueries :
            Extends(EventKey(events', q), EventKey(events, q))]_vars

LEMMA MoreEvents ==
  ASSUME DOMAIN events \subseteq DOMAIN events',
         \A e \in DOMAIN events : events'[e] = events[e], NEW q
  PROVE  Extends(EventKey(events', q), EventKey(events, q))
  BY DEF Extends, EventKey

\* The only step that takes an event away is the removal of a shipment.
LEMMA EventsRemain ==
  ASSUME TypeOK, NEW r \in Requests, Step(r), ~RemoveShipment(r)
  PROVE  /\ DOMAIN events \subseteq DOMAIN events'
         /\ \A e \in DOMAIN events : events'[e] = events[e]
  <1>1. lastId + 1 \notin DOMAIN events
    BY DEF TypeOK, IdsOK
  <1>2. CASE InsertShipment(r)
    BY <1>1, <1>2 DEF InsertShipment, Put, registryVars
  <1>3. CASE InsertEvent(r)
    BY <1>1, <1>3 DEF InsertEvent, Put, directoryVars
  <1>4. CASE UNCHANGED registryVars
    BY <1>4 DEF registryVars
  <1>5. CASE RegistryStep(r) /\ ~InsertShipment(r) /\ ~InsertEvent(r)
    <2>1. UNCHANGED registryVars
      BY <1>5 DEF RegistryStep, CreateShipment, ReadHandler, ReadCode, Geocode,
         CancelShipment, AddEvent, GetShipment, ReadLocation, ListShipments,
         ShipmentHistory, AllHistory, ReadPage, ReadTotal, ReadLocations
    <2> QED
      BY <1>4, <2>1
  <1> QED
    BY <1>2, <1>3, <1>4, <1>5 DEF Step

THEOREM HistoryTheorem == Spec => HistoryOnlyGrows
  <1> DEFINE A ==
        (\A r \in Requests : pc[r] = "removeShipment" => pc'[r] = pc[r])
          => \A q \in EventQueries :
               Extends(EventKey(events', q), EventKey(events, q))
  <1>1. RegistryInv /\ [Next]_vars => [A]_vars
    <2> SUFFICES ASSUME RegistryInv, Next, NEW q \in EventQueries,
                        \A r \in Requests :
                          pc[r] = "removeShipment" => pc'[r] = pc[r]
                 PROVE  Extends(EventKey(events', q), EventKey(events, q))
      OBVIOUS
    <2>1. TypeOK
      BY DEF RegistryInv
    <2>2. PICK r \in Requests : Step(r)
      BY DEF Next
    <2>3. ~RemoveShipment(r)
      BY <2>1 DEF RemoveShipment, Proceed, Commit, Goto, TypeOK, RequestsOK
    <2> QED
      BY <2>1, <2>2, <2>3, EventsRemain, MoreEvents
  <1>2. HistoryOnlyGrows <=> [][A]_vars
    BY DEF HistoryOnlyGrows
  <1> HIDE DEF A
  <1> QED
    BY <1>1, <1>2, RegistryInvariant, PTL DEF Spec
=============================================================================
