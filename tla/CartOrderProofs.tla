-------------------------- MODULE CartOrderProofs --------------------------
(***************************************************************************)
(* The cart's invariant Inv, and that the cart implements CartContract.    *)
(*                                                                         *)
(* LockedRowsAreStable is the heart: an order may ignore what others have  *)
(* done since it read, because whoever writes a row looks at the locks.    *)
(* It is not inductive alone: that a write can bring no row into an        *)
(* order's selection takes RowsAreIssued and the selections' ids being     *)
(* issued already (OrderProgress); that a stale write brings no second row *)
(* of a product takes LoadedRowsAreIssued.                                 *)
(***************************************************************************)
EXTENDS CartOrderProperties, TLAPS

-----------------------------------------------------------------------------
(* Effects that several actions have *)

\* A request of another kind is no order.
LEMMA OtherKinds ==
    ASSUME NEW r \in Adds \cup Updates \cup Deletes
    PROVE  r \in Requests /\ r \notin Orders /\ User[r] \in Users /\ User[r] # Nobody
  BY RequestParameters DEF Requests

OrdersUntouched ==
    \A s \in Orders : /\ pc'[s] = pc[s]
                      /\ selected'[s] = selected[s]
                      /\ seen'[s] = seen[s]
                      /\ answer'[s] = answer[s]

IssuedStay == \A i \in Ids : issuedTo[i] # Nobody => issuedTo'[i] = issuedTo[i]

\* What other requests do leaves the orders' part of the invariant alone.
LEMMA OrdersKeepProgress ==
    ASSUME Inv, OrdersUntouched, IssuedStay, items' = items
    PROVE  OrderAnswersAreTrue' /\ LocksAreExclusive' /\ OrderProgress'
<1> USE DEF Inv, OrdersUntouched
<1>1. \A r \in Orders : TakenBy(r)' = TakenBy(r)
  BY DEF TakenBy
<1>2. \A r \in Orders : User[r] \in Users /\ User[r] # Nobody
  BY RequestParameters DEF Requests
<1>3. OrderAnswersAreTrue'
  BY <1>1 DEF OrderAnswersAreTrue
<1>4. LocksAreExclusive'
  BY DEF LocksAreExclusive, IdsOf
<1>5. \A r \in Orders : OwnIds(r) \subseteq OwnIds(r)'
  BY <1>2 DEF OwnIds, IssuedStay
<1>6. OrderProgress'
  BY <1>1, <1>5 DEF OrderProgress
<1> QED BY <1>3, <1>4, <1>6

\* A write that respects the locks leaves the locked rows as they are.
LEMMA LockedRowsStay ==
    ASSUME Inv, OrdersUntouched,
           \A row \in carts \ carts' : ~Locked(row.id),
           \A row \in carts' \ carts :
               \/ ~Locked(row.id) /\ row.id \in IdsOf(carts)
               \/ issuedTo[row.id] = Nobody
    PROVE  LockedRowsAreStable'
<1> USE DEF Inv, OrdersUntouched
<1> SUFFICES ASSUME NEW r \in Orders, pc[r] = "locked"
             PROVE  /\ seen[r] # {}
                    /\ seen[r] = {row \in carts' : row.id \in selected[r]}
  BY DEF LockedRowsAreStable
<1>1. seen[r] # {} /\ seen[r] = {row \in carts : row.id \in selected[r]}
  BY DEF LockedRowsAreStable
<1>2. ASSUME NEW row \in carts, row.id \in selected[r]
      PROVE  Locked(row.id)
  BY <1>1, <1>2 DEF Locked, IdsOf
<1>3. ASSUME NEW row \in carts', row.id \in selected[r]
      PROVE  row \in carts
  <2> SUFFICES ASSUME row \notin carts PROVE FALSE
    OBVIOUS
  <2>1. issuedTo[row.id] # Nobody
    BY <1>3, RequestParameters DEF OrderProgress, OwnIds, Requests
  <2>2. PICK old \in carts : old.id = row.id /\ ~Locked(row.id)
    BY <2>1 DEF IdsOf
  <2> QED BY <2>2, <1>2, <1>3
<1> QED BY <1>1, <1>2, <1>3

\* Steps that read the cart, or end a request, and write nothing.
LEMMA CartUntouched ==
    ASSUME Inv, OrdersUntouched, UNCHANGED <<carts, issuedTo, items>>,
           NEW r \in Requests,
           \A s \in Requests \ {r} : seen'[s] = seen[s],
           \/ seen'[r] \subseteq carts
           \/ seen'[r] = seen[r]
    PROVE  /\ LockedRowsAreStable' /\ OneRowPerProduct' /\ OrderAnswersAreTrue'
           /\ RowsAreIssued' /\ LoadedRowsAreIssued' /\ ItemsLeftTheCart'
           /\ LocksAreExclusive' /\ OrderProgress'
<1> USE DEF Inv
<1>1. LockedRowsAreStable'
  BY LockedRowsStay
<1>2. OrderAnswersAreTrue' /\ LocksAreExclusive' /\ OrderProgress'
  BY OrdersKeepProgress DEF IssuedStay
<1>3. OneRowPerProduct' /\ RowsAreIssued'
  BY DEF OneRowPerProduct, RowsAreIssued
<1>4. ItemsLeftTheCart'
  BY DEF ItemsLeftTheCart, IdsOf
<1>5. LoadedRowsAreIssued'
  BY DEF LoadedRowsAreIssued, RowsAreIssued
<1> QED BY <1>1, <1>2, <1>3, <1>4, <1>5

-----------------------------------------------------------------------------
(* The parts of the steps *)

LEMMA LoadEffect ==
    ASSUME Inv, NEW r \in Adds \cup Updates \cup Deletes,
           NEW rows \in SUBSET carts, Load(r, rows)
    PROVE  Inv'
<1> USE DEF Inv
<1>1. r \in Requests /\ r \notin Orders
  BY OtherKinds
<1>2. TypeOK'
  BY <1>1 DEF TypeOK, Load, States
<1>3. OrdersUntouched /\ UNCHANGED <<carts, issuedTo, items>>
  BY <1>1 DEF OrdersUntouched, Load, TypeOK
<1>4. seen'[r] \subseteq carts /\ \A s \in Requests \ {r} : seen'[s] = seen[s]
  BY <1>1 DEF Load, TypeOK
<1> QED BY <1>1, <1>2, <1>3, <1>4, CartUntouched

\* Types and the other requests after a request has ended.
LEMMA FinishTypes ==
    ASSUME TypeOK, NEW r \in Requests, NEW result \in Answers, Finish(r, result)
    PROVE  /\ pc' \in [Requests -> States]
           /\ selected' \in [Requests -> SUBSET Ids]
           /\ seen' \in [Requests -> SUBSET Row]
           /\ answer' \in [Requests -> Answers]
           /\ seen'[r] = {} /\ pc'[r] = "done" /\ answer'[r] = result /\ selected'[r] = {}
           /\ \A s \in Requests \ {r} : /\ pc'[s] = pc[s] /\ seen'[s] = seen[s]
                                        /\ selected'[s] = selected[s] /\ answer'[s] = answer[s]
  BY DEF TypeOK, Finish, States

\* A request of another kind than an order ends without a write.
LEMMA FinishEffect ==
    ASSUME Inv, NEW r \in Adds \cup Updates \cup Deletes, NEW result \in Answers,
           Finish(r, result), UNCHANGED <<carts, issuedTo, items>>
    PROVE  Inv'
<1> USE DEF Inv
<1>1. r \in Requests /\ r \notin Orders
  BY OtherKinds
<1>2. TypeOK'
  BY <1>1, FinishTypes DEF TypeOK
<1>3. OrdersUntouched
  BY <1>1, FinishTypes DEF OrdersUntouched, Requests
<1>4. seen'[r] \subseteq carts /\ \A s \in Requests \ {r} : seen'[s] = seen[s]
  BY <1>1, FinishTypes
<1> QED BY <1>1, <1>2, <1>3, <1>4, CartUntouched

(***************************************************************************)
(* SetQuantity writes a row that is there, under its id, for its user and  *)
(* of its product: only the quantity changes, and no locked row does.      *)
(***************************************************************************)
LEMMA SetQuantityEffect ==
    ASSUME Inv, OrdersUntouched, UNCHANGED <<issuedTo, items>>,
           NEW r \in Requests, NEW row \in seen[r], NEW quantity \in Nat \ {0},
           SetQuantity(row, quantity),
           \A s \in Requests : seen'[s] \subseteq seen[s]
    PROVE  /\ carts' \in SUBSET Row
           /\ LockedRowsAreStable' /\ OneRowPerProduct' /\ OrderAnswersAreTrue'
           /\ RowsAreIssued' /\ LoadedRowsAreIssued' /\ ItemsLeftTheCart'
           /\ LocksAreExclusive' /\ OrderProgress'
<1> DEFINE new == [row EXCEPT !.quantity = quantity]
<1>1. row \in Row
  BY DEF Inv, TypeOK
<1>2. new \in Row /\ new.id = row.id /\ new.user = row.user /\ new.product = row.product
  BY <1>1 DEF Row
<1>3. PICK old \in carts : old.id = row.id
  BY DEF SetQuantity, IdsOf
<1>4. old.user = row.user /\ old.product = row.product /\ issuedTo[row.id] = row.user
  BY <1>3 DEF Inv, LoadedRowsAreIssued, RowsAreIssued
<1>5. carts' = {c \in carts : c.id # row.id} \cup {new}
  BY DEF SetQuantity
<1> HIDE DEF new
<1> USE DEF Inv
<1>6. carts' \in SUBSET Row
  BY <1>2, <1>5 DEF TypeOK
<1>7. LockedRowsAreStable'
  <2>1. \A c \in carts \ carts' : ~Locked(c.id)
    BY <1>5 DEF SetQuantity
  <2>2. \A c \in carts' \ carts : ~Locked(c.id) /\ c.id \in IdsOf(carts)
    BY <1>2, <1>5 DEF SetQuantity
  <2> QED BY <2>1, <2>2, LockedRowsStay
<1>8. OneRowPerProduct'
  <2> SUFFICES ASSUME NEW c \in carts', NEW d \in carts',
                      c.user = d.user, c.product = d.product
               PROVE  c = d
    BY DEF OneRowPerProduct
  <2>1. CASE c # new /\ d # new
    BY <2>1, <1>5 DEF OneRowPerProduct
  <2>2. CASE c = new /\ d # new
    BY <2>2, <1>2, <1>3, <1>4, <1>5 DEF OneRowPerProduct
  <2>3. CASE d = new /\ c # new
    BY <2>3, <1>2, <1>3, <1>4, <1>5 DEF OneRowPerProduct
  <2> QED BY <2>1, <2>2, <2>3
<1>9. RowsAreIssued'
  BY <1>2, <1>4, <1>5 DEF RowsAreIssued
<1>10. LoadedRowsAreIssued'
  <2> SUFFICES ASSUME NEW s \in Requests, NEW c \in seen[s]
               PROVE  /\ issuedTo[c.id] = c.user
                      /\ \A d \in carts' : d.id = c.id => d.product = c.product
    BY DEF LoadedRowsAreIssued
  <2> QED BY <1>2, <1>3, <1>4, <1>5 DEF LoadedRowsAreIssued
<1>11. IdsOf(carts') = IdsOf(carts)
  BY <1>2, <1>3, <1>5 DEF IdsOf
<1>12. ItemsLeftTheCart'
  BY <1>11 DEF ItemsLeftTheCart, IdsOf
<1>13. OrderAnswersAreTrue' /\ LocksAreExclusive' /\ OrderProgress'
  BY OrdersKeepProgress DEF IssuedStay
<1> QED BY <1>6, <1>7, <1>8, <1>9, <1>10, <1>12, <1>13

-----------------------------------------------------------------------------
(* Every step keeps the invariant *)

LEMMA AddKeepsInv ==
    ASSUME Inv, NEW r \in Adds, AddStep(r)
    PROVE  Inv'
<1> USE DEF Inv
<1>0. r \in Requests /\ r \notin Orders /\ User[r] \in Users /\ User[r] # Nobody
  BY OtherKinds
<1>1. CASE LoadForAdd(r)
  BY <1>1, LoadEffect DEF LoadForAdd, SameKey
<1>2. CASE InsertRow(r)
  <2>1. OrdersUntouched /\ items' = items
    BY <1>0, <1>2 DEF InsertRow, OrdersUntouched, TypeOK
  <2>2. PICK i \in Ids :
          /\ issuedTo[i] = Nobody
          /\ issuedTo' = [issuedTo EXCEPT ![i] = User[r]]
          /\ carts' = carts \cup {[id |-> i, user |-> User[r], product |-> Product[r],
                                   quantity |-> Quantity[r]]}
    BY <1>2 DEF InsertRow
  <2> DEFINE new == [id |-> i, user |-> User[r], product |-> Product[r], quantity |-> Quantity[r]]
  <2>3. new \in Row
    BY <1>0, ContentParameters DEF Row
  <2>4. i \notin IdsOf(carts) /\ \A s \in Requests : i \notin IdsOf(seen[s])
    BY <2>2, RequestParameters DEF IdsOf, RowsAreIssued, LoadedRowsAreIssued, TypeOK, Row
  <2>5. IssuedStay /\ issuedTo'[i] = User[r]
    BY <2>2 DEF IssuedStay, TypeOK
  <2>6. TypeOK'
    BY <1>0, <1>2, <2>2, <2>3 DEF TypeOK, InsertRow, States
  <2>7. OrderAnswersAreTrue' /\ LocksAreExclusive' /\ OrderProgress'
    BY <2>1, <2>5, OrdersKeepProgress
  <2>8. LockedRowsAreStable'
    BY <2>1, <2>2, LockedRowsStay
  <2>9. OneRowPerProduct'
    BY <1>2, <2>2 DEF OneRowPerProduct, InsertRow, SameKey
  <2>10. RowsAreIssued'
    BY <2>2, <2>4, <2>5 DEF RowsAreIssued, IdsOf, IssuedStay, TypeOK
  <2>11. \A s \in Requests : \A row \in seen[s] : issuedTo'[row.id] = row.user
    BY <2>2, <2>4 DEF LoadedRowsAreIssued, IdsOf, TypeOK, Row
  <2>12. LoadedRowsAreIssued'
    BY <1>2, <2>2, <2>4, <2>11 DEF LoadedRowsAreIssued, InsertRow, IdsOf
  <2>13. ItemsLeftTheCart'
    BY <2>1, <2>2, <2>5 DEF ItemsLeftTheCart, IdsOf, IssuedStay, TypeOK, Item
  <2> QED BY <2>6, <2>7, <2>8, <2>9, <2>10, <2>12, <2>13
<1>3. CASE IncreaseQuantity(r)
  <2>1. OrdersUntouched /\ UNCHANGED <<issuedTo, items>>
    BY <1>0, <1>3 DEF IncreaseQuantity, OrdersUntouched, TypeOK
  <2>2. PICK row \in seen[r] : SetQuantity(row, row.quantity + Quantity[r])
    BY <1>3 DEF IncreaseQuantity
  <2>3. row.quantity + Quantity[r] \in Nat \ {0}
    BY <1>0, ContentParameters DEF TypeOK, Row
  <2>4. \A s \in Requests : seen'[s] \subseteq seen[s]
    BY <1>3 DEF IncreaseQuantity
  <2>5. carts' \in SUBSET Row /\ LockedRowsAreStable' /\ OneRowPerProduct'
          /\ OrderAnswersAreTrue' /\ RowsAreIssued' /\ LoadedRowsAreIssued'
          /\ ItemsLeftTheCart' /\ LocksAreExclusive' /\ OrderProgress'
    BY <1>0, <2>1, <2>2, <2>3, <2>4, SetQuantityEffect
  <2>6. TypeOK'
    BY <1>0, <1>3, <2>5 DEF TypeOK, IncreaseQuantity, States
  <2> QED BY <2>5, <2>6
<1>4. CASE ReportAdd(r)
  BY <1>4, FinishEffect DEF ReportAdd, Answers
<1> QED BY <1>1, <1>2, <1>3, <1>4 DEF AddStep

LEMMA UpdateKeepsInv ==
    ASSUME Inv, NEW r \in Updates, LoadForUpdate(r) \/ WriteUpdate(r)
    PROVE  Inv'
<1> USE DEF Inv
<1>0. r \in Requests /\ r \notin Orders
  BY OtherKinds
<1>1. CASE LoadForUpdate(r)
  <2>1. PICK i \in OwnIds(r) :
          \/ Load(r, Lookup(r, i))
          \/ Finish(r, "missing") /\ UNCHANGED <<carts, issuedTo, items>>
    BY <1>1 DEF LoadForUpdate
  <2> QED BY <2>1, LoadEffect, FinishEffect DEF Lookup, Answers
<1>2. CASE WriteUpdate(r)
  <2>1. PICK row \in seen[r] :
          \/ UNCHANGED carts
          \/ SetQuantity(row, Quantity[r])
    BY <1>2 DEF WriteUpdate
  <2>2. PICK result \in {"ok", "error"} : Finish(r, result) /\ UNCHANGED <<issuedTo, items>>
    BY <1>2 DEF WriteUpdate
  <2>3. CASE UNCHANGED carts
    BY <2>2, <2>3, FinishEffect DEF Answers
  <2>4. CASE SetQuantity(row, Quantity[r])
    <3>1. OrdersUntouched /\ \A s \in Requests : seen'[s] \subseteq seen[s]
      BY <1>0, <2>2, FinishTypes DEF OrdersUntouched, Requests, Answers
    <3>2. Quantity[r] \in Nat \ {0}
      BY ContentParameters
    <3>3. carts' \in SUBSET Row /\ LockedRowsAreStable' /\ OneRowPerProduct'
            /\ OrderAnswersAreTrue' /\ RowsAreIssued' /\ LoadedRowsAreIssued'
            /\ ItemsLeftTheCart' /\ LocksAreExclusive' /\ OrderProgress'
      BY <1>0, <2>2, <2>4, <3>1, <3>2, SetQuantityEffect
    <3>4. TypeOK'
      BY <1>0, <2>2, <3>3, FinishTypes DEF TypeOK, Answers
    <3> QED BY <3>3, <3>4
  <2> QED BY <2>1, <2>3, <2>4
<1> QED BY <1>1, <1>2

\* Rows that leave the cart disturb only the orders that have locked them.
LEMMA RowsLeave ==
    ASSUME Inv, carts' \subseteq carts, issuedTo' = issuedTo,
           \A s \in Requests : seen'[s] \subseteq seen[s]
    PROVE  OneRowPerProduct' /\ RowsAreIssued' /\ LoadedRowsAreIssued'
  BY DEF Inv, OneRowPerProduct, RowsAreIssued, LoadedRowsAreIssued

LEMMA DeleteKeepsInv ==
    ASSUME Inv, NEW r \in Deletes, LoadForDelete(r) \/ WriteDelete(r)
    PROVE  Inv'
<1> USE DEF Inv
<1>0. r \in Requests /\ r \notin Orders
  BY OtherKinds
<1>1. CASE LoadForDelete(r)
  <2>1. PICK i \in OwnIds(r) :
          \/ Load(r, Lookup(r, i))
          \/ Finish(r, "ok") /\ UNCHANGED <<carts, issuedTo, items>>
    BY <1>1 DEF LoadForDelete
  <2> QED BY <2>1, LoadEffect, FinishEffect DEF Lookup, Answers
<1>2. CASE WriteDelete(r)
  <2>1. carts' = {row \in carts : row.id \notin IdsOf(seen[r])}
    BY <1>2 DEF WriteDelete
  <2>2. PICK result \in {"ok", "error"} : Finish(r, result) /\ UNCHANGED <<issuedTo, items>>
    BY <1>2 DEF WriteDelete
  <2>3. OrdersUntouched /\ \A s \in Requests : seen'[s] \subseteq seen[s]
    BY <1>0, <2>2, FinishTypes DEF OrdersUntouched, Requests, Answers
  <2>4. TypeOK'
    BY <1>0, <2>1, <2>2, FinishTypes DEF TypeOK, Answers
  <2>5. LockedRowsAreStable'
    <3>1. \A row \in carts \ carts' : ~Locked(row.id)
      BY <1>2, <2>1 DEF WriteDelete
    <3> QED BY <2>1, <2>3, <3>1, LockedRowsStay
  <2>6. OneRowPerProduct' /\ RowsAreIssued' /\ LoadedRowsAreIssued'
    BY <2>1, <2>2, <2>3, RowsLeave
  <2>7. ItemsLeftTheCart'
    BY <2>1, <2>2 DEF ItemsLeftTheCart, IdsOf
  <2>8. OrderAnswersAreTrue' /\ LocksAreExclusive' /\ OrderProgress'
    BY <2>2, <2>3, OrdersKeepProgress DEF IssuedStay
  <2> QED BY <2>4, <2>5, <2>6, <2>7, <2>8
<1> QED BY <1>1, <1>2

\* What ends an order request without a commit.
LEMMA OrderGivesUp ==
    ASSUME Inv, NEW r \in Orders, pc[r] # "done", NEW result \in {"missing", "refused", "error"},
           Finish(r, result), UNCHANGED <<carts, issuedTo, items>>
    PROVE  Inv'
<1> USE DEF Inv
<1>1. r \in Requests /\ result \in Answers
  BY DEF Requests, Answers
<1>2. TypeOK'
  BY <1>1, FinishTypes DEF TypeOK
<1>3. \A s \in Orders : TakenBy(s)' = TakenBy(s) /\ s \in Requests
  BY DEF TakenBy, Requests
<1>4. \A s \in Orders : pc'[s] = "locked" => s # r /\ pc[s] = "locked"
  BY <1>1, <1>3, FinishTypes
<1>5. LockedRowsAreStable'
  BY <1>1, <1>3, <1>4, FinishTypes DEF LockedRowsAreStable
<1>6. OrderAnswersAreTrue'
  BY <1>1, <1>3, FinishTypes DEF OrderAnswersAreTrue, OrderProgress
<1>7. LocksAreExclusive'
  BY <1>1, <1>3, <1>4, FinishTypes DEF LocksAreExclusive, IdsOf
<1>8. OrderProgress'
  BY <1>1, <1>3, FinishTypes DEF OrderProgress, OwnIds
<1>9. OneRowPerProduct' /\ RowsAreIssued' /\ ItemsLeftTheCart'
  BY DEF OneRowPerProduct, RowsAreIssued, ItemsLeftTheCart, IdsOf
<1>10. LoadedRowsAreIssued'
  BY <1>1, FinishTypes DEF LoadedRowsAreIssued
<1> QED BY <1>2, <1>5, <1>6, <1>7, <1>8, <1>9, <1>10

LEMMA FailKeepsInv ==
    ASSUME Inv, NEW r \in Requests, Fail(r)
    PROVE  Inv'
<1>1. CASE r \in Orders
  BY <1>1, OrderGivesUp DEF Fail
<1>2. CASE r \in Adds \cup Updates \cup Deletes
  BY <1>2, FinishEffect DEF Fail, Answers
<1> QED BY <1>1, <1>2 DEF Requests

LEMMA LockCartsKeepsInv ==
    ASSUME Inv, NEW r \in Orders, LockCarts(r)
    PROVE  Inv'
<1> USE DEF Inv
<1>1. r \in Requests /\ pc[r] = "idle" /\ UNCHANGED <<carts, issuedTo, items>>
  BY DEF LockCarts, Requests
<1>2. PICK ids \in SUBSET OwnIds(r), found \in SUBSET carts :
        /\ found = {row \in carts : row.id \in ids /\ row.user = User[r]}
        /\ \/ /\ found # {}
              /\ \A i \in IdsOf(found) : ~Locked(i)
              /\ pc' = [pc EXCEPT ![r] = "locked"]
              /\ selected' = [selected EXCEPT ![r] = ids]
              /\ seen' = [seen EXCEPT ![r] = found]
              /\ UNCHANGED answer
           \/ Finish(r, "missing")
  BY DEF LockCarts
<1>3. CASE Finish(r, "missing")
  BY <1>1, <1>3, OrderGivesUp
<1>4. CASE /\ found # {}
           /\ \A i \in IdsOf(found) : ~Locked(i)
           /\ pc' = [pc EXCEPT ![r] = "locked"]
           /\ selected' = [selected EXCEPT ![r] = ids]
           /\ seen' = [seen EXCEPT ![r] = found]
           /\ UNCHANGED answer
  <2>1. found = {row \in carts : row.id \in ids}
    BY <1>2 DEF OwnIds, RowsAreIssued
  <2>2. \A s \in Orders : TakenBy(s)' = TakenBy(s) /\ s \in Requests
    BY <1>1 DEF TakenBy, Requests
  <2>3. TypeOK'
    BY <1>1, <1>4 DEF TypeOK, States, OwnIds
  <2>4. LockedRowsAreStable'
    BY <1>1, <1>4, <2>1, <2>2 DEF LockedRowsAreStable, TypeOK
  <2>5. OrderAnswersAreTrue' /\ OneRowPerProduct' /\ RowsAreIssued' /\ ItemsLeftTheCart'
    BY <1>1, <1>4, <2>2
       DEF OrderAnswersAreTrue, OneRowPerProduct, RowsAreIssued, ItemsLeftTheCart, IdsOf
  <2>6. LoadedRowsAreIssued'
    BY <1>1, <1>4 DEF LoadedRowsAreIssued, RowsAreIssued, TypeOK
  <2>7. \A s \in Orders : s # r /\ pc[s] = "locked" => IdsOf(seen[s]) \cap IdsOf(found) = {}
    BY <1>4 DEF Locked
  <2>8. LocksAreExclusive'
    BY <1>1, <1>4, <2>2, <2>7 DEF LocksAreExclusive, IdsOf, TypeOK
  <2>9. OrderProgress'
    BY <1>1, <1>4, <2>2 DEF OrderProgress, OwnIds, TypeOK
  <2> QED BY <2>3, <2>4, <2>5, <2>6, <2>8, <2>9
<1> QED BY <1>2, <1>3, <1>4

\* A committing order takes exactly the rows it has locked.
LEMMA CommitTakes ==
    ASSUME Inv, NEW r \in Orders, CommitOrder(r)
    PROVE  /\ IdsOf(seen[r]) # {} /\ IdsOf(seen[r]) \subseteq IdsOf(carts)
           /\ \A i \in Ids : i \in IdsOf(carts') <=> i \in IdsOf(carts) \ IdsOf(seen[r])
           /\ TakenBy(r) = {} /\ TakenBy(r)' = IdsOf(seen[r])
           /\ \A s \in Orders \ {r} : TakenBy(s)' = TakenBy(s)
<1> USE DEF Inv
<1>1. pc[r] = "locked" /\ TakenBy(r) = {}
  BY DEF CommitOrder, CreateOrders, OrderProgress
<1>2. seen[r] # {} /\ seen[r] = {row \in carts : row.id \in selected[r]}
  BY <1>1 DEF LockedRowsAreStable
<1>3. carts' = {row \in carts : row.id \notin selected[r]}
  BY DEF CommitOrder, CreateOrders
<1>4. \A i \in IdsOf(carts) : i \in IdsOf(seen[r]) <=> i \in selected[r]
  BY <1>2 DEF IdsOf
<1>5. \A i \in Ids : i \in IdsOf(carts') <=> i \in IdsOf(carts) \ IdsOf(seen[r])
  BY <1>3, <1>4 DEF IdsOf
<1>6. items' = items \cup {[by |-> r, cart |-> i] : i \in IdsOf(seen[r])}
  BY DEF CommitOrder, CreateOrders
<1>7. \A s \in Orders \ {r} : TakenBy(s)' = TakenBy(s)
  BY <1>6 DEF TakenBy
<1>8. TakenBy(r)' = IdsOf(seen[r])
  <2>1. ASSUME NEW i \in IdsOf(seen[r]) PROVE i \in TakenBy(r)'
    <3>1. [by |-> r, cart |-> i] \in items'
      BY <1>6
    <3> QED BY <3>1 DEF TakenBy
  <2>2. ASSUME NEW i \in TakenBy(r)' PROVE i \in IdsOf(seen[r])
    BY <1>1, <1>6 DEF TakenBy
  <2> QED BY <2>1, <2>2
<1> QED BY <1>1, <1>2, <1>5, <1>7, <1>8 DEF IdsOf

LEMMA CommitOrderKeepsInv ==
    ASSUME Inv, NEW r \in Orders, CommitOrder(r)
    PROVE  Inv'
<1> USE DEF Inv
<1>1. r \in Requests /\ pc[r] = "locked" /\ UNCHANGED issuedTo
  BY DEF CommitOrder, CreateOrders, Requests
<1>2. PICK result \in {"ok", "refused", "error"} : Finish(r, result)
  BY DEF CommitOrder, CreateOrders
<1>3. /\ carts' = {row \in carts : row.id \notin selected[r]}
      /\ items' = items \cup {[by |-> r, cart |-> i] : i \in IdsOf(seen[r])}
  BY DEF CommitOrder, CreateOrders
<1>4. result \in Answers /\ \A s \in Orders : s \in Requests
  BY DEF Answers, Requests
<1>5. TypeOK'
  <2>1. IdsOf(seen[r]) \subseteq Ids
    BY <1>1 DEF TypeOK, IdsOf, Row
  <2>2. items' \in SUBSET Item
    BY <1>3, <2>1 DEF TypeOK, Item
  <2> QED BY <1>1, <1>2, <1>3, <1>4, <2>2, FinishTypes DEF TypeOK
<1>6. \A s \in Orders : pc'[s] = "locked" => s # r /\ pc[s] = "locked"
  BY <1>1, <1>2, <1>4, FinishTypes
<1>7. LockedRowsAreStable'
  <2> SUFFICES ASSUME NEW s \in Orders, s # r, pc[s] = "locked"
               PROVE  seen[s] # {} /\ seen[s] = {row \in carts' : row.id \in selected[s]}
    BY <1>1, <1>2, <1>4, <1>6, FinishTypes DEF LockedRowsAreStable
  <2>1. seen[s] # {} /\ seen[s] = {row \in carts : row.id \in selected[s]}
    BY DEF LockedRowsAreStable
  <2>2. \A row \in seen[s] : row \notin seen[r]
    BY <1>1 DEF LocksAreExclusive, IdsOf
  <2>3. \A row \in seen[s] : row.id \notin selected[r]
    BY <1>1, <2>1, <2>2 DEF LockedRowsAreStable
  <2> QED BY <1>3, <2>1, <2>3
<1>8. \A s \in Requests : seen'[s] \subseteq seen[s]
  BY <1>1, <1>2, <1>4, FinishTypes
<1>9. OneRowPerProduct' /\ RowsAreIssued' /\ LoadedRowsAreIssued'
  BY <1>1, <1>3, <1>8, RowsLeave
<1>10. LocksAreExclusive'
  BY <1>1, <1>2, <1>4, <1>6, FinishTypes DEF LocksAreExclusive, IdsOf
<1>11. ItemsLeftTheCart'
  <2>1. \A item \in items : issuedTo'[item.cart] # Nobody /\ item.cart \notin IdsOf(carts')
    BY <1>1, <1>3 DEF ItemsLeftTheCart, IdsOf
  <2>2. \A i \in IdsOf(seen[r]) : i \in Ids /\ i \notin IdsOf(carts')
    BY <1>1, CommitTakes DEF IdsOf, TypeOK, Row
  <2>3. \A i \in IdsOf(seen[r]) : issuedTo'[i] # Nobody
    BY <1>1, RequestParameters DEF IdsOf, LoadedRowsAreIssued, TypeOK, Row
  <2> QED BY <1>3, <2>1, <2>2, <2>3 DEF ItemsLeftTheCart
<1>12. OrderAnswersAreTrue'
  BY <1>1, <1>2, <1>4, CommitTakes, FinishTypes DEF OrderAnswersAreTrue
<1>13. OrderProgress'
  BY <1>1, <1>2, <1>4, CommitTakes, FinishTypes DEF OrderProgress, OwnIds
<1> QED BY <1>5, <1>7, <1>9, <1>10, <1>11, <1>12, <1>13

-----------------------------------------------------------------------------
(* The theorems *)

LEMMA InitInv == Init => Inv
<1> SUFFICES ASSUME Init PROVE Inv
  OBVIOUS
<1> USE DEF Init
<1>1. TypeOK
  BY DEF TypeOK, States, Answers
<1>2. \A r \in Orders : r \in Requests /\ TakenBy(r) = {}
  BY DEF Requests, TakenBy
<1>3. OrderProgress /\ OrderAnswersAreTrue
  BY <1>2 DEF OrderProgress, OrderAnswersAreTrue, OwnIds
<1>4. LockedRowsAreStable /\ LocksAreExclusive
  BY <1>2 DEF LockedRowsAreStable, LocksAreExclusive
<1>5. OneRowPerProduct /\ RowsAreIssued /\ LoadedRowsAreIssued /\ ItemsLeftTheCart
  BY DEF OneRowPerProduct, RowsAreIssued, LoadedRowsAreIssued, ItemsLeftTheCart
<1> QED BY <1>1, <1>3, <1>4, <1>5 DEF Inv

LEMMA StepInv == Inv /\ [Next]_vars => Inv'
<1> SUFFICES ASSUME Inv, [Next]_vars PROVE Inv'
  OBVIOUS
<1>1. CASE \E r \in Requests : Fail(r)
  BY <1>1, FailKeepsInv
<1>2. CASE \E r \in Adds : AddStep(r)
  BY <1>2, AddKeepsInv
<1>3. CASE \E r \in Updates : LoadForUpdate(r) \/ WriteUpdate(r)
  BY <1>3, UpdateKeepsInv
<1>4. CASE \E r \in Deletes : LoadForDelete(r) \/ WriteDelete(r)
  BY <1>4, DeleteKeepsInv
<1>5. CASE \E r \in Orders : LockCarts(r) \/ CommitOrder(r)
  BY <1>5, LockCartsKeepsInv, CommitOrderKeepsInv
<1>6. CASE UNCHANGED vars
  BY <1>6 DEF vars, Inv, TypeOK, LockedRowsAreStable, OneRowPerProduct, OrderAnswersAreTrue,
              RowsAreIssued, LoadedRowsAreIssued, ItemsLeftTheCart, LocksAreExclusive,
              OrderProgress, TakenBy, IdsOf, OwnIds
<1> QED BY <1>1, <1>2, <1>3, <1>4, <1>5, <1>6 DEF Next

(***************************************************************************)
(* The cart's inductive invariant holds for any numbers of users, products *)
(* and requests.                                                           *)
(***************************************************************************)
THEOREM Invariance == Spec => []Inv
  BY InitInv, StepInv, PTL DEF Spec

\* All variables keep their types, whatever the requests and whoever fails.
THEOREM TypeCorrect == Spec => []TypeOK
<1>1. Inv => TypeOK
  BY DEF Inv
<1> QED BY <1>1, Invariance, PTL

(***************************************************************************)
(* No request of any kind changes or takes a row between an order's SELECT *)
(* ... FOR UPDATE and its commit.                                          *)
(***************************************************************************)
THEOREM LocksProtect == Spec => []LockedRowsAreStable
<1>1. Inv => LockedRowsAreStable
  BY DEF Inv
<1> QED BY <1>1, Invariance, PTL

\* However many adds run at once, a user has one row of a product.
THEOREM RowPerProduct == Spec => []OneRowPerProduct
<1>1. Inv => OneRowPerProduct
  BY DEF Inv
<1> QED BY <1>1, Invariance, PTL

(***************************************************************************)
(* A 201 means that the request has ordered rows, and the 400 that says    *)
(* that its rows do not exist that it has not, although an order that was  *)
(* committed may also be answered with another 400 or with a 500.          *)
(***************************************************************************)
THEOREM OrdersToldTruly == Spec => []OrderAnswersAreTrue
<1>1. Inv => OrderAnswersAreTrue
  BY DEF Inv
<1> QED BY <1>1, Invariance, PTL

-----------------------------------------------------------------------------
(* The cart implements CartContract *)

\* The one more invariant that this takes: a DELETE removes one row.
LEMMA DeletesStep == Inv /\ DeletesLoadOneRow /\ [Next]_vars => DeletesLoadOneRow'
<1> SUFFICES ASSUME Inv, DeletesLoadOneRow, [Next]_vars,
                    NEW d \in Deletes, seen'[d] # seen[d]
             PROVE  \A row, other \in seen'[d] : row = other
  BY DEF DeletesLoadOneRow
<1> USE DEF Inv
<1>1. d \in Requests /\ d \notin Adds /\ d \notin Updates /\ d \notin Orders
  BY RequestParameters DEF Requests
<1>2. \A r \in Requests : \A result : Finish(r, result) => seen'[d] = seen[d] \/ seen'[d] = {}
  BY <1>1 DEF Finish, TypeOK
<1>3. \A r \in Requests : \A rows : Load(r, rows) /\ r # d => seen'[d] = seen[d]
  BY <1>1 DEF Load, TypeOK
<1>4. CASE \E r \in Requests : Fail(r)
  BY <1>2, <1>4 DEF Fail
<1>5. CASE \E r \in Adds : AddStep(r)
  BY <1>1, <1>2, <1>3, <1>5
     DEF AddStep, LoadForAdd, InsertRow, IncreaseQuantity, ReportAdd, Requests
<1>6. CASE \E r \in Updates : LoadForUpdate(r) \/ WriteUpdate(r)
  BY <1>1, <1>2, <1>3, <1>6 DEF LoadForUpdate, WriteUpdate, Requests
<1>7. CASE \E r \in Deletes : LoadForDelete(r) \/ WriteDelete(r)
  <2>1. PICK r \in Deletes : LoadForDelete(r) \/ WriteDelete(r)
    BY <1>7
  <2>2. CASE \E i \in Ids : Load(r, Lookup(r, i))
    <3>1. CASE r = d
      BY <1>1, <2>2, <3>1 DEF Load, TypeOK, Lookup, RowsAreIssued
    <3> QED BY <1>3, <2>2, <3>1 DEF Requests
  <2> QED BY <1>2, <2>1, <2>2 DEF LoadForDelete, WriteDelete, Requests, OwnIds
<1>8. CASE \E r \in Orders : LockCarts(r) \/ CommitOrder(r)
  BY <1>1, <1>2, <1>8 DEF LockCarts, CommitOrder, Requests, TypeOK
<1> QED BY <1>4, <1>5, <1>6, <1>7, <1>8 DEF Next, vars

LEMMA DeletesInvariance == Spec => []DeletesLoadOneRow
<1>1. Init => DeletesLoadOneRow
  BY DEF Init, DeletesLoadOneRow, Requests
<1> QED BY <1>1, DeletesStep, Invariance, PTL DEF Spec

LEMMA InitContract == Init => Contract!Init
  BY DEF Init, Contract!Init, Stage, Taken, TakenBy

\* The contract sees the ids in the cart, not the quantities.
LEMMA SameIds ==
    ASSUME Inv, UNCHANGED <<issuedTo, items>>, IdsOf(carts') = IdsOf(carts)
    PROVE  UNCHANGED <<Stage, Taken>>
<1>1. \A i \in Ids : i \in IdsOf(carts)' <=> i \in IdsOf(carts)
  BY DEF IdsOf
<1> QED BY <1>1 DEF Stage, Taken, TakenBy

LEMMA SetQuantityKeepsIds ==
    ASSUME Inv, NEW r \in Requests, NEW row \in seen[r], NEW quantity \in Nat,
           SetQuantity(row, quantity)
    PROVE  IdsOf(carts') = IdsOf(carts)
<1>1. row \in Row
  BY DEF Inv, TypeOK
<1>2. [row EXCEPT !.quantity = quantity].id = row.id
  BY <1>1 DEF Row
<1> QED BY <1>2 DEF SetQuantity, IdsOf

LEMMA InsertContract ==
    ASSUME Inv, NEW r \in Adds, InsertRow(r)
    PROVE  Contract!Next
<1>1. PICK i \in Ids :
        /\ issuedTo[i] = Nobody
        /\ issuedTo' = [issuedTo EXCEPT ![i] = User[r]]
        /\ carts' = carts \cup {[id |-> i, user |-> User[r], product |-> Product[r],
                                 quantity |-> Quantity[r]]}
  BY DEF InsertRow
<1>2. User[r] # Nobody
  BY OtherKinds
<1>3. \A j \in Ids : j \in IdsOf(carts)' <=> j \in IdsOf(carts) \/ j = i
  <2> DEFINE new == [id |-> i, user |-> User[r], product |-> Product[r], quantity |-> Quantity[r]]
  <2>1. new.id = i /\ carts' = carts \cup {new}
    BY <1>1
  <2> HIDE DEF new
  <2> QED BY <2>1 DEF IdsOf
<1>4. Stage' = [Stage EXCEPT ![i] = "in cart"] /\ Stage[i] = "unissued"
  BY <1>1, <1>2, <1>3 DEF Stage, Inv, TypeOK, InsertRow
<1>5. Taken' = Taken
  BY DEF Taken, TakenBy, InsertRow
<1> QED BY <1>4, <1>5 DEF Contract!Next, Contract!Issue

LEMMA DeleteContract ==
    ASSUME Inv, DeletesLoadOneRow, NEW r \in Deletes, WriteDelete(r)
    PROVE  Contract!Next \/ UNCHANGED <<Stage, Taken>>
<1> USE DEF Inv
<1>1. UNCHANGED <<issuedTo, items>> /\ carts' = {row \in carts : row.id \notin IdsOf(seen[r])}
  BY DEF WriteDelete
<1>2. Taken' = Taken
  BY <1>1 DEF Taken, TakenBy
<1>3. \A i \in Ids : i \in IdsOf(carts)' <=> i \in IdsOf(carts) \ IdsOf(seen[r])
  BY <1>1 DEF IdsOf
<1>4. CASE IdsOf(carts) \cap IdsOf(seen[r]) = {}
  BY <1>1, <1>2, <1>3, <1>4 DEF Stage
<1>5. CASE \E i \in IdsOf(carts) : IdsOf(carts) \cap IdsOf(seen[r]) = {i}
  <2>1. PICK i \in IdsOf(carts) : IdsOf(carts) \cap IdsOf(seen[r]) = {i}
    BY <1>5
  <2>2. i \in Ids /\ issuedTo[i] # Nobody
    BY RequestParameters DEF IdsOf, TypeOK, Row, RowsAreIssued
  <2>3. \A item \in items : item.cart # i
    BY DEF ItemsLeftTheCart
  <2>4. \A j \in Ids : j \in IdsOf(carts)' <=> j \in IdsOf(carts) /\ j # i
    BY <1>3, <2>1
  <2>5. Stage[i] = "in cart"
    BY <2>2 DEF Stage
  <2>6. Stage' = [j \in Ids |-> IF j = i THEN "removed" ELSE Stage[j]]
    BY <1>1, <2>2, <2>3, <2>4 DEF Stage
  <2>7. Stage' = [Stage EXCEPT ![i] = "removed"]
    BY <2>6 DEF Stage
  <2> QED BY <1>2, <2>2, <2>5, <2>7 DEF Contract!Next, Contract!Remove
<1>6. \A i, j \in IdsOf(seen[r]) : i = j
  BY DEF DeletesLoadOneRow, IdsOf
<1> QED BY <1>4, <1>5, <1>6

LEMMA CommitContract ==
    ASSUME Inv, NEW r \in Orders, CommitOrder(r)
    PROVE  Contract!Next
<1> USE DEF Inv
<1> DEFINE ids == IdsOf(seen[r])
<1>1. /\ ids # {} /\ ids \subseteq IdsOf(carts)
      /\ \A i \in Ids : i \in IdsOf(carts') <=> i \in IdsOf(carts) \ ids
      /\ TakenBy(r) = {} /\ TakenBy(r)' = ids
      /\ \A s \in Orders \ {r} : TakenBy(s)' = TakenBy(s)
  BY CommitTakes
<1>2. ids \in SUBSET Ids
  <2>1. r \in Requests /\ seen[r] \subseteq Row
    BY DEF Requests, TypeOK
  <2> QED BY <2>1 DEF IdsOf, Row
<1>3. \A i \in ids : issuedTo[i] # Nobody
  <2>1. \A row \in carts : issuedTo[row.id] # Nobody
    BY RequestParameters DEF TypeOK, Row, RowsAreIssued
  <2> QED BY <1>1, <2>1 DEF IdsOf
<1>4. UNCHANGED issuedTo /\ items' = items \cup {[by |-> r, cart |-> i] : i \in ids}
  BY DEF CommitOrder, CreateOrders
<1>5. \A i \in Ids : (\E item \in items' : item.cart = i)
                       <=> i \in ids \/ (\E item \in items : item.cart = i)
  <2> TAKE i \in Ids
  <2>1. ASSUME i \in ids PROVE \E item \in items' : item.cart = i
    <3>1. [by |-> r, cart |-> i] \in items'
      BY <1>4, <2>1
    <3> QED BY <3>1
  <2>2. ASSUME NEW item \in items', item.cart = i
        PROVE  i \in ids \/ item \in items
    BY <1>4, <2>2
  <2> QED BY <1>4, <2>1, <2>2
<1>6. \A i \in Ids : i \in IdsOf(carts)' <=> i \in IdsOf(carts) \ ids
  BY <1>1 DEF IdsOf
<1> HIDE DEF ids
<1>7. Stage' = [i \in Ids |-> IF i \in ids THEN "ordered" ELSE Stage[i]]
  BY <1>1, <1>3, <1>4, <1>5, <1>6 DEF Stage
<1>8. \A i \in ids : Stage[i] = "in cart"
  BY <1>1, <1>2, <1>3 DEF Stage
<1>9. Taken' = [Taken EXCEPT ![r] = ids] /\ Taken[r] = {}
  <2>1. /\ Taken = [s \in Orders |-> Taken[s]]
        /\ Taken' = [s \in Orders |-> Taken'[s]]
        /\ \A s \in Orders : Taken[s] = TakenBy(s) /\ Taken'[s] = TakenBy(s)'
    BY DEF Taken
  <2>2. Taken'[r] = ids /\ \A s \in Orders \ {r} : Taken'[s] = Taken[s]
    BY <1>1, <2>1
  <2> HIDE DEF Taken
  <2> QED BY <1>1, <2>1, <2>2
<1>10. Contract!Take(r, ids)
  BY <1>1, <1>7, <1>8, <1>9 DEF Contract!Take
<1> QED BY <1>2, <1>10 DEF Contract!Next

LEMMA StepContract ==
    ASSUME Inv, DeletesLoadOneRow, Next
    PROVE  Contract!Next \/ UNCHANGED <<Stage, Taken>>
<1>1. CASE UNCHANGED <<carts, issuedTo, items>>
  BY <1>1, SameIds
<1>2. ASSUME NEW r \in Adds, AddStep(r), ~UNCHANGED <<carts, issuedTo, items>>
      PROVE  Contract!Next \/ UNCHANGED <<Stage, Taken>>
  <2>1. CASE InsertRow(r)
    BY <2>1, InsertContract
  <2>2. CASE IncreaseQuantity(r)
    <3>1. PICK row \in seen[r] : SetQuantity(row, row.quantity + Quantity[r])
      BY <2>2 DEF IncreaseQuantity
    <3>2. r \in Requests /\ row.quantity + Quantity[r] \in Nat
      BY OtherKinds, ContentParameters DEF Inv, TypeOK, Row
    <3> QED BY <2>2, <3>1, <3>2, SetQuantityKeepsIds, SameIds DEF IncreaseQuantity
  <2> QED BY <1>2, <2>1, <2>2 DEF AddStep, LoadForAdd, Load, ReportAdd
<1>3. ASSUME NEW r \in Updates, LoadForUpdate(r) \/ WriteUpdate(r)
      PROVE  Contract!Next \/ UNCHANGED <<Stage, Taken>>
  <2>1. CASE UNCHANGED <<carts, issuedTo, items>>
    BY <2>1, SameIds
  <2>2. CASE WriteUpdate(r) /\ ~UNCHANGED carts
    <3>1. PICK row \in seen[r] : SetQuantity(row, Quantity[r])
      BY <2>2 DEF WriteUpdate
    <3>2. r \in Requests /\ Quantity[r] \in Nat
      BY OtherKinds, ContentParameters
    <3> QED BY <2>2, <3>1, <3>2, SetQuantityKeepsIds, SameIds DEF WriteUpdate
  <2> QED BY <1>3, <2>1, <2>2 DEF LoadForUpdate, Load, WriteUpdate
<1>4. ASSUME NEW r \in Deletes, LoadForDelete(r) \/ WriteDelete(r)
      PROVE  Contract!Next \/ UNCHANGED <<Stage, Taken>>
  BY <1>1, <1>4, DeleteContract DEF LoadForDelete, Load
<1>5. ASSUME NEW r \in Orders, LockCarts(r) \/ CommitOrder(r)
      PROVE  Contract!Next \/ UNCHANGED <<Stage, Taken>>
  BY <1>1, <1>5, CommitContract DEF LockCarts
<1> QED BY <1>1, <1>2, <1>3, <1>4, <1>5 DEF Next, Fail

(***************************************************************************)
(* A cart row is ordered at most once, together with everything its order  *)
(* takes, and never comes back, for any numbers of users, products and     *)
(* requests, each of which may fail at any point.                          *)
(***************************************************************************)
THEOREM Implementation == Spec => ImplementsCart
<1>1. Inv /\ DeletesLoadOneRow /\ [Next]_vars => [Contract!Next]_(Contract!vars)
  <2> SUFFICES ASSUME Inv, DeletesLoadOneRow, [Next]_vars PROVE [Contract!Next]_(Contract!vars)
    OBVIOUS
  <2>1. CASE Next
    BY <2>1, StepContract DEF Contract!vars
  <2>2. CASE UNCHANGED vars
    BY <2>2, SameIds DEF vars, Contract!vars
  <2> QED BY <2>1, <2>2
<1> QED BY <1>1, InitContract, Invariance, DeletesInvariance, PTL DEF Spec, ImplementsCart, Contract!Spec

=============================================================================
