----------------------------- MODULE CartOrder -----------------------------
(***************************************************************************)
(* A user's cart and the orders made from it: POST, PATCH and DELETE       *)
(* /kok/carts and POST /orders/kok/carts/order.                            *)
(*                                                                         *)
(* A request has a session of its own: its first query fixes the snapshot  *)
(* that its plain SELECTs read, while its writes, and SELECT ... FOR       *)
(* UPDATE, work on the committed rows and wait for the row locks of other  *)
(* sessions.  An add, update or delete sends its one write together with   *)
(* the COMMIT, so that the two are one step.  An order keeps its locks     *)
(* from its locking read to its commit; what it writes in between (ORDERS, *)
(* KOK_ORDERS, the ORDER_RECEIVED rows, the notifications, the DELETE) is  *)
(* seen by nobody before.  Its locks on product rows and its SERIALIZABLE  *)
(* gap locks only make others wait longer, and are left out.               *)
(***************************************************************************)
EXTENDS Integers, FiniteSets

CONSTANTS
    Users,
    Products,
    Adds, Updates, Deletes, Orders,  \* the requests of each kind
    User,        \* who sends each request
    Product,     \* what each add request adds
    Quantity,    \* how many each add or update request asks for
    MaxRows,     \* the cart rows that can be issued
    Nobody       \* not a user

Requests == Adds \cup Updates \cup Deletes \cup Orders

ASSUME RequestParameters ==
    /\ Adds \cap (Updates \cup Deletes \cup Orders) = {}
    /\ Updates \cap (Deletes \cup Orders) = {}
    /\ Deletes \cap Orders = {}
    /\ User \in [Requests -> Users]
    /\ Nobody \notin Users

\* Quantities are at least 1, as KokCartAddRequest and KokCartUpdateRequest say.
ASSUME ContentParameters ==
    /\ Product \in [Adds -> Products]
    /\ Quantity \in [Adds \cup Updates -> Nat \ {0}]
    /\ MaxRows \in Nat

Ids == 1 .. MaxRows

\* A row of KOK_CART.
Row == [id : Ids, user : Users, product : Products, quantity : Nat \ {0}]

\* A row of KOK_ORDERS: the request that made it and the cart row it came from.
Item == [by : Orders, cart : Ids]

VARIABLES
    carts,      \* the committed rows of KOK_CART
    issuedTo,   \* whose row each id was made for
    items,      \* the committed rows of KOK_ORDERS
    pc,         \* where each request is
    selected,   \* the cart ids an order request names
    seen,       \* the cart rows a request's session has loaded
    answer      \* what its client was answered

vars == <<carts, issuedTo, items, pc, selected, seen, answer>>

\* "loaded": has read the cart; "locked": an order that holds the locks of the
\* rows it has read; "committed": an add that has committed but not answered.
States == {"idle", "loaded", "locked", "committed", "done"}

\* "missing": a 404, or a 400 whose message says that the rows are gone; "refused":
\* a 400 with another message; "error": a 500.
Answers == {"none", "ok", "missing", "refused", "error"}

TypeOK ==
    /\ carts \in SUBSET Row
    /\ issuedTo \in [Ids -> Users \cup {Nobody}]
    /\ items \in SUBSET Item
    /\ pc \in [Requests -> States]
    /\ selected \in [Requests -> SUBSET Ids]
    /\ seen \in [Requests -> SUBSET Row]
    /\ answer \in [Requests -> Answers]

Init ==
    /\ carts = {}
    /\ issuedTo = [i \in Ids |-> Nobody]
    /\ items = {}
    /\ pc = [r \in Requests |-> "idle"]
    /\ selected = [r \in Requests |-> {}]
    /\ seen = [r \in Requests |-> {}]
    /\ answer = [r \in Requests |-> "none"]

IdsOf(rows) == {row.id : row \in rows}

\* The ids that the server has given to the user of request r.
OwnIds(r) == {i \in Ids : issuedTo[i] = User[r]}

\* UK_KOK_CART_USER_PRODUCT: the committed rows in the way of an insert.
SameKey(user, product) == {row \in carts : row.user = user /\ row.product = product}

\* Mutant: SELECT without FOR UPDATE.
NothingLocked(i) == FALSE

\* Some order request holds the lock of row i.
Locked(i) == \E r \in Orders : pc[r] = "locked" /\ i \in IdsOf(seen[r])

Load(r, rows) ==
    /\ pc' = [pc EXCEPT ![r] = "loaded"]
    /\ seen' = [seen EXCEPT ![r] = rows]
    /\ UNCHANGED <<carts, issuedTo, items, selected, answer>>

\* The session closes and forgets what it has loaded.
Finish(r, result) ==
    /\ pc' = [pc EXCEPT ![r] = "done"]
    /\ answer' = [answer EXCEPT ![r] = result]
    /\ selected' = [selected EXCEPT ![r] = {}]
    /\ seen' = [seen EXCEPT ![r] = {}]

(***************************************************************************)
(* UPDATE ... WHERE KOK_CART_ID = row.id.  Where no row has that id any    *)
(* more SQLAlchemy raises StaleDataError, see Fail.                        *)
(***************************************************************************)
SetQuantity(row, quantity) ==
    /\ ~Locked(row.id)
    /\ row.id \in IdsOf(carts)
    /\ carts' = {c \in carts : c.id # row.id} \cup {[row EXCEPT !.quantity = quantity]}

(***************************************************************************)
(* What every handler does with an exception: a database error, a lock     *)
(* wait given up, a deadlock, a violated constraint, a missing price, or   *)
(* an answer that its response model refuses.  The session rolls back what *)
(* it has not committed.  The route of an order answers a ValueError with  *)
(* a 400.  A process that stops does this to all requests.                 *)
(***************************************************************************)
Fail(r) ==
    /\ pc[r] # "done"
    /\ \/ Finish(r, "error")
       \/ r \in Orders /\ Finish(r, "refused")
    /\ UNCHANGED <<carts, issuedTo, items>>

-----------------------------------------------------------------------------
(* POST /kok/carts *)

LoadForAdd(r) ==
    /\ pc[r] = "idle"
    /\ Load(r, SameKey(User[r], Product[r]))

\* Mutant: an insert that no unique constraint checks.
InsertUnchecked(r) ==
    /\ pc[r] = "loaded"
    /\ seen[r] = {}
    /\ \E i \in Ids :
         /\ issuedTo[i] = Nobody
         /\ \A j \in Ids : j < i => issuedTo[j] # Nobody
         /\ issuedTo' = [issuedTo EXCEPT ![i] = User[r]]
         /\ carts' = carts \cup {[id |-> i, user |-> User[r], product |-> Product[r],
                                  quantity |-> Quantity[r]]}
    /\ pc' = [pc EXCEPT ![r] = "committed"]
    /\ UNCHANGED <<items, selected, seen, answer>>

\* The session has seen no row of this product: an INSERT.
InsertRow(r) ==
    /\ pc[r] = "loaded"
    /\ seen[r] = {}
    /\ SameKey(User[r], Product[r]) = {}
    /\ \E i \in Ids :
         /\ issuedTo[i] = Nobody
         /\ \A j \in Ids : j < i => issuedTo[j] # Nobody
         /\ issuedTo' = [issuedTo EXCEPT ![i] = User[r]]
         /\ carts' = carts \cup {[id |-> i, user |-> User[r], product |-> Product[r],
                                  quantity |-> Quantity[r]]}
    /\ pc' = [pc EXCEPT ![r] = "committed"]
    /\ UNCHANGED <<items, selected, seen, answer>>

\* Mutant: the sum is written as a new row where the old one is gone.
IncreaseOrInsert(r) ==
    /\ pc[r] = "loaded"
    /\ \E row \in seen[r] :
         /\ ~Locked(row.id)
         /\ carts' = {c \in carts : c.id # row.id}
                       \cup {[row EXCEPT !.quantity = @ + Quantity[r]]}
    /\ pc' = [pc EXCEPT ![r] = "committed"]
    /\ UNCHANGED <<issuedTo, items, selected, seen, answer>>

\* The session has seen a row: its quantity there plus the new one is written.
IncreaseQuantity(r) ==
    /\ pc[r] = "loaded"
    /\ \E row \in seen[r] : SetQuantity(row, row.quantity + Quantity[r])
    /\ pc' = [pc EXCEPT ![r] = "committed"]
    /\ UNCHANGED <<issuedTo, items, selected, seen, answer>>

\* After the commit the route looks for the row again; scalar_one fails without it.
ReportAdd(r) ==
    /\ pc[r] = "committed"
    /\ Finish(r, IF SameKey(User[r], Product[r]) # {} THEN "ok" ELSE "error")
    /\ UNCHANGED <<carts, issuedTo, items>>

AddStep(r) == LoadForAdd(r) \/ InsertRow(r) \/ IncreaseQuantity(r) \/ ReportAdd(r)

-----------------------------------------------------------------------------
(* PATCH and DELETE /kok/carts/{kok_cart_id} *)

\* The row of id i, if it is there and the user's.
Lookup(r, i) == {row \in carts : row.id = i /\ row.user = User[r]}

\* ValueError where there is none: a 404.
LoadForUpdate(r) ==
    /\ pc[r] = "idle"
    /\ \E i \in OwnIds(r) :
         \/ /\ Lookup(r, i) # {}
            /\ Load(r, Lookup(r, i))
         \/ /\ Lookup(r, i) = {}
            /\ Finish(r, "missing")
            /\ UNCHANGED <<carts, issuedTo, items>>

\* Mutant: the new quantity is taken off the old one.
DecreaseQuantity(r) ==
    /\ pc[r] = "loaded"
    /\ \E row \in seen[r] : SetQuantity(row, row.quantity - Quantity[r])
    /\ Finish(r, "ok")
    /\ UNCHANGED <<issuedTo, items>>

(***************************************************************************)
(* Nothing is sent where the session has seen the same quantity.  The      *)
(* reply of the commit may be lost: a 500 for a write that was made.       *)
(***************************************************************************)
WriteUpdate(r) ==
    /\ pc[r] = "loaded"
    /\ \E row \in seen[r] :
         IF row.quantity = Quantity[r] THEN UNCHANGED carts ELSE SetQuantity(row, Quantity[r])
    /\ \E result \in {"ok", "error"} : Finish(r, result)
    /\ UNCHANGED <<issuedTo, items>>

(***************************************************************************)
(* delete_kok_cart_item answers a row that is missing, and a query that    *)
(* fails, with a dict; the route takes every dict for a success.           *)
(***************************************************************************)
LoadForDelete(r) ==
    /\ pc[r] = "idle"
    /\ \E i \in OwnIds(r) :
         \/ /\ Lookup(r, i) # {}
            /\ Load(r, Lookup(r, i))
         \/ /\ Finish(r, "ok")
            /\ UNCHANGED <<carts, issuedTo, items>>

\* A DELETE of a row that is already gone is no error; the reply may be lost.
WriteDelete(r) ==
    /\ pc[r] = "loaded"
    /\ \A i \in IdsOf(seen[r]) : ~Locked(i)
    /\ carts' = {row \in carts : row.id \notin IdsOf(seen[r])}
    /\ \E result \in {"ok", "error"} : Finish(r, result)
    /\ UNCHANGED <<issuedTo, items>>

-----------------------------------------------------------------------------
(* POST /orders/kok/carts/order *)

\* Mutant: create_orders_from_selected_carts goes on without rows.
LockAnything(r) ==
    /\ pc[r] = "idle"
    /\ \E ids \in SUBSET OwnIds(r) :
         LET found == {row \in carts : row.id \in ids /\ row.user = User[r]}
         IN  /\ \A i \in IdsOf(found) : ~Locked(i)
             /\ pc' = [pc EXCEPT ![r] = "locked"]
             /\ selected' = [selected EXCEPT ![r] = ids]
             /\ seen' = [seen EXCEPT ![r] = found]
             /\ UNCHANGED answer
    /\ UNCHANGED <<carts, issuedTo, items>>

(***************************************************************************)
(* SELECT ... FOR UPDATE of the selected rows, after the locks of others   *)
(* are gone.  Clients send ids that they were given; some may be stale.    *)
(* ValueError where no row is left: a 400.                                 *)
(***************************************************************************)
LockCarts(r) ==
    /\ pc[r] = "idle"
    /\ \E ids \in (SUBSET OwnIds(r)) \ {{}} :
         LET found == {row \in carts : row.id \in ids /\ row.user = User[r]}
         IN  \/ /\ found # {}
                /\ \A i \in IdsOf(found) : ~Locked(i)
                /\ pc' = [pc EXCEPT ![r] = "locked"]
                /\ selected' = [selected EXCEPT ![r] = ids]
                /\ seen' = [seen EXCEPT ![r] = found]
                /\ UNCHANGED answer
             \/ /\ found = {}
                /\ Finish(r, "missing")
    /\ UNCHANGED <<carts, issuedTo, items>>

(***************************************************************************)
(* An item for every row that was found; the DELETE covers all that were   *)
(* selected.                                                               *)
(***************************************************************************)
CreateOrders(r) ==
    /\ items' = items \cup {[by |-> r, cart |-> i] : i \in IdsOf(seen[r])}
    /\ carts' = {row \in carts : row.id \notin selected[r]}

(***************************************************************************)
(* The route commits, and its answer need not be a 201: the commit's reply *)
(* may be lost, a 500; and the response model, which is built after the    *)
(* commit, refuses a product without a name, and as its ValidationError is *)
(* a ValueError the order that was made is answered with a 400.            *)
(***************************************************************************)
CommitOrder(r) ==
    /\ pc[r] = "locked"
    /\ CreateOrders(r)
    /\ \E result \in {"ok", "refused", "error"} : Finish(r, result)
    /\ UNCHANGED issuedTo

-----------------------------------------------------------------------------

Next ==
    \/ \E r \in Requests : Fail(r)
    \/ \E r \in Adds : AddStep(r)
    \/ \E r \in Updates : LoadForUpdate(r) \/ WriteUpdate(r)
    \/ \E r \in Deletes : LoadForDelete(r) \/ WriteDelete(r)
    \/ \E r \in Orders : LockCarts(r) \/ CommitOrder(r)

Spec == Init /\ [][Next]_vars

=============================================================================
