------------------------- MODULE OrderStatusContract -------------------------
(***************************************************************************)
(* What the order routes make of an order line's status, whatever they are *)
(* asked for: a line is received, and later paid or cancelled.  A payment  *)
(* and the confirmation of an order pay all its lines at once, a direct    *)
(* confirmation pays one line alone, and a cancellation reaches the lines  *)
(* of one order, perhaps only some of them.                                *)
(***************************************************************************)
CONSTANTS Lines, Orders, OrderOf

Outcomes == {"PAYMENT_COMPLETED", "CANCELLED"}

VARIABLE marks      \* the codes that each line has ever had in the tables

TypeOK == marks \in [Lines -> SUBSET (Outcomes \cup {"ORDER_RECEIVED"})]

LinesOf(o) == {l \in Lines : OrderOf[l] = o}

Init == marks \in [Lines -> {{}, {"ORDER_RECEIVED"}}]

Mark(touched, code) ==
    marks' = [l \in Lines |-> IF l \in touched THEN marks[l] \cup {code} ELSE marks[l]]

Received(l) == "ORDER_RECEIVED" \in marks[l]

Receive(o) == Mark(LinesOf(o), "ORDER_RECEIVED")

Pay(o) ==
    /\ \A l \in LinesOf(o) : Received(l)
    /\ Mark(LinesOf(o), "PAYMENT_COMPLETED")

PayLine(l) ==
    /\ Received(l)
    /\ Mark({l}, "PAYMENT_COMPLETED")

Cancel(o) ==
    /\ \A l \in LinesOf(o) : Received(l)
    /\ \E reached \in SUBSET LinesOf(o) : Mark(reached, "CANCELLED")

Next ==
    \/ \E o \in Orders : Receive(o) \/ Pay(o) \/ Cancel(o)
    \/ \E l \in Lines : PayLine(l)

Spec == Init /\ [][Next]_marks
=============================================================================
