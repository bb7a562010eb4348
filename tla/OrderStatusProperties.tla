------------------------ MODULE OrderStatusProperties ------------------------
(***************************************************************************)
(* What the status of an order line promises, and what two of the writers  *)
(* promise that the code does not keep.                                    *)
(***************************************************************************)
EXTENDS OrderStatus

HasCode(l, code) == \E x \in RowsOf(rows, l) : x.code = code

(***************************************************************************)
(* get_kok_current_status and get_hs_current_status answer a paid line     *)
(* with PAYMENT_COMPLETED, unless it has ever been cancelled, even when it *)
(* was received, paid and paid again within one second: the history id     *)
(* breaks the tie.                                                         *)
(***************************************************************************)
PaidIsCurrent ==
    \A l \in Lines :
        HasCode(l, "PAYMENT_COMPLETED") /\ ~ HasCode(l, "CANCELLED")
            => CodesOf(CurrentRows(rows, l)) = {"PAYMENT_COMPLETED"}

(***************************************************************************)
(* The lines that the direct confirmation of a request is about.           *)
(***************************************************************************)
Confirmed(r) == IF Kind[r] = "confirm_order" THEN Siblings(r) \ HsLines ELSE {Target[r]}

WrittenFor(r, l) == \E x \in RowsOf(rows, l) : x.by = r

(***************************************************************************)
(* kok/payment_router.py:27-140: a confirmation that was answered with 200 *)
(* has committed the payment of each of its lines; one that was not has    *)
(* committed all of them or none, whatever failed on the way.              *)
(***************************************************************************)
ConfirmationsAreRecorded ==
    \A r \in Requests : Kind[r] \in {"confirm_line", "confirm_order"} =>
        /\ answer[r] = "ok" => \A l \in Confirmed(r) : WrittenFor(r, l)
        /\ \A l, other \in Confirmed(r) : WrittenFor(r, l) => WrittenFor(r, other)

(***************************************************************************)
(* A home shopping line is paid by the webhook of payment v2 only.  Its    *)
(* own confirmation waits for a PAYMENT_REQUESTED row                      *)
(* (hs_order_flow_crud.py:194) that no request ever commits, and so never  *)
(* succeeds.                                                               *)
(***************************************************************************)
HsIsPaidByV2Only ==
    /\ \A x \in rows : x.line \in HsLines /\ x.code = "PAYMENT_COMPLETED" => Kind[x.by] = "v2"
    /\ \A r \in Requests : Kind[r] = "confirm_hs" => answer[r] # "ok"

\* The statuses of a line that one query can find: more than one when the
\* last second has several rows, which the query does not order.
Ambiguous(S, l) == Cardinality(CodesOf(LatestRows(S, l))) > 1

ConfirmedAlone(S, l) == \E x \in RowsOf(S, l) : x.by \in Requests /\ Kind[x.by] = "confirm_line"

\* A payment cancelled by its webhook while a direct confirmation paid the lines
\* one after the other, perhaps some before and some after the cancellation.
Contested(S, l) == {"PAYMENT_COMPLETED", "CANCELLED"} \subseteq {x.code : x \in RowsOf(S, l)}

\* A cancellation that failed midway has reached line l and not line m.
CancelledAlone(S, l, m) ==
    \E x \in RowsOf(S, l) : x.code = "CANCELLED" /\ \A y \in RowsOf(S, m) : y.by # x.by

(***************************************************************************)
(* GET /orders reads the status of one line after the other, while         *)
(* payments settle the order.  The lines of an order that settles as a     *)
(* whole, in one way, are shown with one status, never some of them paid   *)
(* and some not: the reads of one session see one moment.  An order does   *)
(* not settle as a whole when one line is confirmed alone, or when the     *)
(* failure of cancel_order is swallowed (payment_v2_crud.py:543).          *)
(***************************************************************************)
ListsAreUniform ==
    \A r \in Requests :
        Kind[r] = "list" /\ answer[r] = "ok" =>
            \A s, t \in seen[r] :
                \/ s[2] = t[2]
                \/ "unread" \in {s[2], t[2]}
                \/ CancelledAlone(snapshot[r], s[1], t[1])
                \/ CancelledAlone(snapshot[r], t[1], s[1])
                \/ \E l \in {s[1], t[1]} :
                      \/ ConfirmedAlone(snapshot[r], l)
                      \/ Ambiguous(snapshot[r], l)
                      \/ Contested(snapshot[r], l)

-----------------------------------------------------------------------------
(* The contract *)

Marks == [l \in Lines |-> {x.code : x \in RowsOf(rows, l)}]

Contract == INSTANCE OrderStatusContract WITH marks <- Marks

(***************************************************************************)
(* Whatever was asked for, in whatever order and however it ended, a line  *)
(* is received once and then paid, with its whole order or confirmed       *)
(* alone, or cancelled with some of its order's lines; nothing is ever     *)
(* deleted, and no other status reaches the tables.  (A confirmation does  *)
(* not look at the status, whatever kok/payment_router.py:37 says.)        *)
(***************************************************************************)
ImplementsStatus == Contract!Spec

-----------------------------------------------------------------------------
(* What the documents say and the code does not do *)

(***************************************************************************)
(* routers/payment/v1_router.py:43: when a payment is complete, the lines  *)
(* of the order are updated to PAYMENT_COMPLETED in a transaction.         *)
(***************************************************************************)
PaidV1IsRecorded ==
    \A r \in Requests : answer[r] = "paid" => \A l \in Siblings(r) : WrittenFor(r, l)

=============================================================================
