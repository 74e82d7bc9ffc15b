--------------------------- MODULE UserDirectory ---------------------------
(***************************************************************************)
(* Users, customers and the tokens signed for users.  Users are never      *)
(* removed (a deletion clears "active"), customers are, unless a user or a *)
(* shipment refers to them.  Handlers check what they have read and write  *)
(* later; the database only knows that emails are unique and that the      *)
(* customers referred to exist.                                            *)
(***************************************************************************)
EXTENDS ApiRequests

CONSTANTS
  Emails,
  Users0, Customers0, Tokens0,   \* what is there when a behaviour begins
  NewUsers, UserPatches,         \* the bodies that users are created, changed
  NewCustomers, CustomerPatches  \* with, and those of customers

VARIABLES
  users,      \* id -> row
  customers,  \* id -> row
  held        \* observed: the principals that active users were once

directoryVars == <<users, customers, tokens, held, lastId>>

UserFields     == {"email", "role", "active", "customer"}
CustomerFields == {"email", "contact"}
UserRoles      == {"ADMINISTRATOR", "OPERATOR", "CUSTOMER"}

IsUser(w) ==
  /\ w = [f \in UserFields |-> w[f]]
  /\ w.email \in Emails
  /\ w.role \in UserRoles
  /\ w.active \in BOOLEAN
  /\ w.customer \in Nat

\* An administrator belongs to no customer, everybody else to one.
LinkValid(role, customer) ==
  IF role = "ADMINISTRATOR" THEN customer = NoCustomer
                            ELSE customer # NoCustomer

\* The body of an update sends some of the fields.
IsUserPatch(c) ==
  /\ c = [f \in DOMAIN c |-> c[f]]
  /\ DOMAIN c \subseteq UserFields
  /\ "email"    \in DOMAIN c => c.email \in Emails
  /\ "role"     \in DOMAIN c => c.role \in UserRoles
  /\ "active"   \in DOMAIN c => c.active \in BOOLEAN
  /\ "customer" \in DOMAIN c => c.customer \in Nat

\* Bug: a role sent alone is not checked.
BugPatchAccepted(row, c) ==
  "customer" \in DOMAIN c =>
    LinkValid(Updated(row, c).role, Updated(row, c).customer)

\* The link is checked again when one of its ends is sent, against the row
\* that the handler has read.
PatchAccepted(row, c) ==
  {"role", "customer"} \cap DOMAIN c # {} =>
    LinkValid(Updated(row, c).role, Updated(row, c).customer)

IsCustomer(w) ==
  /\ w = [f \in CustomerFields |-> w[f]]
  /\ w.email \in Emails

IsCustomerPatch(c) ==
  /\ c = [f \in DOMAIN c |-> c[f]]
  /\ DOMAIN c \subseteq CustomerFields
  /\ "email" \in DOMAIN c => c.email \in Emails

\* What a token says of a user.
PrincipalOf(u, w) == [user |-> u, role |-> w.role, customer |-> w.customer]

ActivePrincipals(table) ==
  {PrincipalOf(u, table[u]) : u \in {v \in DOMAIN table : table[v].active}}

\* The unique index on email, apart from the row itself.
EmailTaken(table, email, id) ==
  \E i \in DOMAIN table \ {id} : table[i].email = email

ASSUME DirectoryAssumption ==
  /\ DOMAIN Users0 \subseteq Nat \ {0} /\ DOMAIN Customers0 \subseteq Nat \ {0}
  /\ \A u \in DOMAIN Users0 :
       /\ IsUser(Users0[u]) /\ ~EmailTaken(Users0, Users0[u].email, u)
       /\ Users0[u].customer \in DOMAIN Customers0 \cup {NoCustomer}
  /\ \A c \in DOMAIN Customers0 :
       /\ IsCustomer(Customers0[c])
       /\ ~EmailTaken(Customers0, Customers0[c].email, c)
  /\ Tokens0 \subseteq ActivePrincipals(Users0)
  /\ \A w \in NewUsers : IsUser(w)
  /\ \A c \in UserPatches : IsUserPatch(c)
  /\ \A w \in NewCustomers : IsCustomer(w)
  /\ \A c \in CustomerPatches : IsCustomerPatch(c)

\* The foreign key of a user.
LinkDangles(customer) ==
  customer # NoCustomer /\ customer \notin DOMAIN customers

-----------------------------------------------------------------------------
\* POST /operadores: the body is validated, then the email looked up.
CreateUser(r) ==
  /\ pc[r] = "createUser"
  /\ \/ Proceed(r, "USER_INVALID")
     \/ \E w \in NewUsers :
          Take(r, 0, w, NoRow,
               IF ~LinkValid(w.role, w.customer)
               THEN "USER_CUSTOMER_LINK_INVALID"
               ELSE IF EmailTaken(users, w.email, 0) THEN "USER_EMAIL_IN_USE"
                                                     ELSE "insertUser")
  /\ UNCHANGED directoryVars

\* The row is inserted once the password is hashed.  Of the errors of the
\* database only the foreign key is translated.
InsertUser(r) ==
  /\ pc[r] = "insertUser"
  /\ \/ /\ EmailTaken(users, body[r].email, 0)
        /\ Proceed(r, "INTERNAL_ERROR")
        /\ UNCHANGED directoryVars
     \/ /\ LinkDangles(body[r].customer)
        /\ Proceed(r, "USER_CUSTOMER_LINK_INVALID")
        /\ UNCHANGED directoryVars
     \/ /\ ~EmailTaken(users, body[r].email, 0)
        /\ ~LinkDangles(body[r].customer)
        /\ lastId' = lastId + 1
        /\ users'  = Put(users, lastId', body[r])
        /\ held'   = held \cup ActivePrincipals(users')
        /\ Commit(r)
        /\ UNCHANGED <<customers, tokens>>

\* Bug: nobody looks the email up.
BugNextOfUpdate(row, c) == "writeUser"

\* Where an update goes on once the row is read and the body is accepted.
NextOfUpdate(row, c) ==
  IF "email" \in DOMAIN c /\ c.email # row.email THEN "checkUserEmail"
                                                 ELSE "writeUser"

\* PUT /operadores/:id
UpdateUser(r) ==
  /\ pc[r] = "updateUser"
  /\ \/ Proceed(r, "USER_NOT_FOUND")     \* an id that was never given
     \/ Proceed(r, "USER_INVALID")
     \/ \E u \in DOMAIN users, c \in UserPatches :
          Take(r, u, c, users[u],
               IF PatchAccepted(users[u], c) THEN NextOfUpdate(users[u], c)
                                             ELSE "USER_CUSTOMER_LINK_INVALID")
  /\ UNCHANGED directoryVars

\* PUT /operadores/me: an active user changes its own email (or its name and
\* password, which nothing here depends on).
UpdateProfile(r) ==
  /\ pc[r] = "updateProfile"
  /\ LET u == token[r].user IN
       IF ~users[u].active THEN Proceed(r, "FORBIDDEN")
       ELSE \/ Proceed(r, "USER_INVALID")
            \/ \E e \in Emails :
                 Take(r, u, [email |-> e], users[u],
                      NextOfUpdate(users[u], [email |-> e]))
  /\ UNCHANGED directoryVars

\* The email of an update is looked up when it is not the one of the row read.
CheckUserEmail(r) ==
  /\ pc[r] = "checkUserEmail"
  /\ Proceed(r, IF EmailTaken(users, body[r].email, arg[r])
                THEN "USER_EMAIL_IN_USE" ELSE "writeUser")
  /\ UNCHANGED directoryVars

\* The fields that were sent are written, and no other.
WriteUser(r) ==
  /\ pc[r] = "writeUser"
  /\ LET row == Updated(users[arg[r]], body[r]) IN
       \/ /\ EmailTaken(users, row.email, arg[r])
          /\ Proceed(r, "INTERNAL_ERROR")
          /\ UNCHANGED directoryVars
       \/ /\ LinkDangles(row.customer)
          /\ Proceed(r, "USER_CUSTOMER_LINK_INVALID")
          /\ UNCHANGED directoryVars
       \/ /\ ~EmailTaken(users, row.email, arg[r])
          /\ ~LinkDangles(row.customer)
          /\ users' = [users EXCEPT ![arg[r]] = row]
          /\ held'  = held \cup ActivePrincipals(users')
          /\ Commit(r)
          /\ UNCHANGED <<customers, tokens, lastId>>

\* What a deletion writes: the row stays.
SoftDelete == [active |-> FALSE]

\* DELETE /operadores/:id
DeleteUser(r) ==
  /\ pc[r] = "deleteUser"
  /\ \/ Proceed(r, "USER_NOT_FOUND")
     \/ \E u \in DOMAIN users : Take(r, u, SoftDelete, users[u], "writeUser")
  /\ UNCHANGED directoryVars

-----------------------------------------------------------------------------
\* POST /auth/login: the user is read, then the password compared.
Login(r) ==
  /\ pc[r] = "login"
  /\ \/ Proceed(r, "USER_INVALID")           \* not an email
     \/ Proceed(r, "INVALID_CREDENTIALS")    \* no active user has the email
     \/ \E u \in DOMAIN users :
          /\ users[u].active
          /\ Take(r, u, NoRow, users[u], "comparePassword")
  /\ UNCHANGED directoryVars

\* Bug: the role is read again, the customer is not.
BugSign(r) ==
  tokens' = tokens \cup
    {[PrincipalOf(arg[r], seen[r]) EXCEPT !.role = users[arg[r]].role]}

\* The token says what the row said before the password was compared.
Sign(r) == tokens' = tokens \cup {PrincipalOf(arg[r], seen[r])}

ComparePassword(r) ==
  /\ pc[r] = "comparePassword"
  /\ \/ /\ Proceed(r, "INVALID_CREDENTIALS")
        /\ UNCHANGED directoryVars
     \/ /\ Proceed(r, "OK")
        /\ Sign(r)
        /\ UNCHANGED <<users, customers, held, lastId>>

-----------------------------------------------------------------------------
\* POST /clientes
CreateCustomer(r) ==
  /\ pc[r] = "createCustomer"
  /\ \/ Proceed(r, "CUSTOMER_INVALID")
     \/ \E w \in NewCustomers :
          Take(r, 0, w, NoRow,
               IF EmailTaken(customers, w.email, 0) THEN "CUSTOMER_EMAIL_IN_USE"
                                                    ELSE "insertCustomer")
  /\ UNCHANGED directoryVars

\* The errors of the database are not translated.
InsertCustomer(r) ==
  /\ pc[r] = "insertCustomer"
  /\ IF EmailTaken(customers, body[r].email, 0)
     THEN Proceed(r, "INTERNAL_ERROR") /\ UNCHANGED directoryVars
     ELSE /\ lastId' = lastId + 1
          /\ customers' = Put(customers, lastId', body[r])
          /\ Commit(r)
          /\ UNCHANGED <<users, tokens, held>>

\* Bug: a field that was not sent is erased.
BugMerged(r) ==
  [f \in CustomerFields |-> IF f \in DOMAIN body[r] THEN body[r][f] ELSE ""]

\* The fields that were not sent are taken from the row read.
Merged(r) == Updated(seen[r], body[r])

\* PUT /clientes/:id
UpdateCustomer(r) ==
  /\ pc[r] = "updateCustomer"
  /\ \/ Proceed(r, "CUSTOMER_NOT_FOUND")
     \/ Proceed(r, "CUSTOMER_INVALID")
     \/ \E c \in DOMAIN customers, p \in CustomerPatches :
          Take(r, c, p, customers[c],
               IF Updated(customers[c], p).email # customers[c].email
               THEN "checkCustomerEmail" ELSE "writeCustomer")
  /\ UNCHANGED directoryVars

CheckCustomerEmail(r) ==
  /\ pc[r] = "checkCustomerEmail"
  /\ Proceed(r, IF EmailTaken(customers, Merged(r).email, arg[r])
                THEN "CUSTOMER_EMAIL_IN_USE" ELSE "writeCustomer")
  /\ UNCHANGED directoryVars

\* All the fields are written, the ones that were not sent as they were read.
WriteCustomer(r) ==
  /\ pc[r] = "writeCustomer"
  /\ IF \/ arg[r] \notin DOMAIN customers
        \/ EmailTaken(customers, Merged(r).email, arg[r])
     THEN Proceed(r, "INTERNAL_ERROR") /\ UNCHANGED directoryVars
     ELSE /\ customers' = [customers EXCEPT ![arg[r]] = Merged(r)]
          /\ Commit(r)
          /\ UNCHANGED <<users, tokens, held, lastId>>

\* DELETE /clientes/:id
DeleteCustomer(r) ==
  /\ pc[r] = "deleteCustomer"
  /\ \/ Proceed(r, "CUSTOMER_NOT_FOUND")
     \/ \E c \in DOMAIN customers :
          Take(r, c, NoRow, customers[c], "removeCustomer")
  /\ UNCHANGED directoryVars

\* The row is removed unless it is gone or something refers to it.
RemoveCustomer(r, referenced) ==
  /\ pc[r] = "removeCustomer"
  /\ IF arg[r] \notin DOMAIN customers \/ referenced
     THEN Proceed(r, "INTERNAL_ERROR") /\ UNCHANGED directoryVars
     ELSE /\ customers' = Without(customers, {arg[r]})
          /\ Commit(r)
          /\ UNCHANGED <<users, tokens, held, lastId>>

InitDirectory ==
  /\ users = Users0
  /\ customers = Customers0
  /\ tokens = Tokens0
  /\ held = ActivePrincipals(Users0)

DirectoryStep(r) ==
  \/ CreateUser(r)
  \/ InsertUser(r)
  \/ UpdateUser(r)
  \/ UpdateProfile(r)
  \/ CheckUserEmail(r)
  \/ WriteUser(r)
  \/ DeleteUser(r)
  \/ Login(r)
  \/ ComparePassword(r)
  \/ CreateCustomer(r)
  \/ InsertCustomer(r)
  \/ UpdateCustomer(r)
  \/ CheckCustomerEmail(r)
  \/ WriteCustomer(r)
  \/ DeleteCustomer(r)
=============================================================================
