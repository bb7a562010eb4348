------------------------ MODULE CartOrderProperties ------------------------
(***************************************************************************)
(* What the cart and its orders promise.                                   *)
(***************************************************************************)
EXTENDS CartOrder

(***************************************************************************)
(* The rows an order works on stay as it has read them until it commits:   *)
(* no add, update, delete or other order changes or takes one of them.     *)
(***************************************************************************)
LockedRowsAreStable ==
    \A r \in Orders : pc[r] = "locked" =>
        /\ seen[r] # {}
        /\ seen[r] = {row \in carts : row.id \in selected[r]}

(***************************************************************************)
(* A user has at most one cart row of a product, however many adds of it   *)
(* run at once: the second one's insert fails.                             *)
(***************************************************************************)
OneRowPerProduct ==
    \A row, other \in carts :
        row.user = other.user /\ row.product = other.product => row = other

\* The cart rows that request r has ordered.
TakenBy(r) == {item.cart : item \in {i \in items : i.by = r}}

(***************************************************************************)
(* A client that reads 201 has ordered something, and one that reads that  *)
(* its rows do not exist any more has not: the repeated order of the same  *)
(* rows, that waited for the first one's locks, ends as the document says. *)
(* Any other 400, and a 500, says nothing: an order that was committed may *)
(* be answered with either (cart_router.py:75, :84).                       *)
(***************************************************************************)
OrderAnswersAreTrue ==
    \A r \in Orders :
        /\ answer[r] = "ok" => TakenBy(r) # {}
        /\ answer[r] = "missing" => TakenBy(r) = {}

-----------------------------------------------------------------------------
(* The contract *)

Stage == [i \in Ids |->
            IF issuedTo[i] = Nobody THEN "unissued"
            ELSE IF i \in IdsOf(carts) THEN "in cart"
            ELSE IF \E item \in items : item.cart = i THEN "ordered"
            ELSE "removed"]

Taken == [r \in Orders |-> TakenBy(r)]

Contract == INSTANCE CartContract WITH Rows <- Ids, stage <- Stage, taken <- Taken

(***************************************************************************)
(* docs/db_concurrency_control.md:11-48: a cart row is ordered once, with  *)
(* all that was ordered with it, and is gone; nothing brings it back, and  *)
(* an order that fails leaves the cart as it was.                          *)
(***************************************************************************)
ImplementsCart == Contract!Spec

-----------------------------------------------------------------------------
(* Why it is safe: an inductive invariant *)

\* An id is given to one row, which keeps its user and product while it lives.
RowsAreIssued ==
    /\ \A row \in carts : issuedTo[row.id] = row.user
    /\ \A row, other \in carts : row.id = other.id => row = other

\* A loaded row was issued to the user, and is alive only with the same product.
LoadedRowsAreIssued ==
    \A r \in Requests : \A row \in seen[r] :
        /\ issuedTo[row.id] = row.user
        /\ \A other \in carts : other.id = row.id => other.product = row.product

\* An ordered row was issued and is not in the cart.
ItemsLeftTheCart ==
    \A item \in items : issuedTo[item.cart] # Nobody /\ item.cart \notin IdsOf(carts)

\* Two orders never hold the lock of one row.
LocksAreExclusive ==
    \A r, s \in Orders :
        pc[r] = "locked" /\ pc[s] = "locked" /\ r # s => IdsOf(seen[r]) \cap IdsOf(seen[s]) = {}

\* What an order request has done by now.
OrderProgress ==
    \A r \in Orders :
        /\ selected[r] \subseteq OwnIds(r)
        /\ pc[r] \in {"idle", "locked"} => TakenBy(r) = {} /\ answer[r] = "none"
        /\ pc[r] \in {"idle", "locked", "done"}

\* A delete request has loaded one row at most.
DeletesLoadOneRow == \A r \in Deletes : \A row, other \in seen[r] : row = other

Inv ==
    /\ TypeOK
    /\ LockedRowsAreStable
    /\ OneRowPerProduct
    /\ OrderAnswersAreTrue
    /\ RowsAreIssued
    /\ LoadedRowsAreIssued
    /\ ItemsLeftTheCart
    /\ LocksAreExclusive
    /\ OrderProgress

=============================================================================
