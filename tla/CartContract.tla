---------------------------- MODULE CartContract ----------------------------
(***************************************************************************)
(* The life of a cart row, without saying how: it is issued once, and      *)
(* leaves the cart once, either removed by its user or taken by an order.  *)
(* An order takes what it orders in one step, at least one row, all of it  *)
(* from the cart.                                                          *)
(***************************************************************************)

CONSTANTS
    Rows,     \* the ids of the cart rows
    Orders    \* the requests that order rows

VARIABLES
    stage,    \* where a row is in its life
    taken     \* the rows an order has taken

vars == <<stage, taken>>

Init ==
    /\ stage = [i \in Rows |-> "unissued"]
    /\ taken = [r \in Orders |-> {}]

Issue(i) ==
    /\ stage[i] = "unissued"
    /\ stage' = [stage EXCEPT ![i] = "in cart"]
    /\ UNCHANGED taken

Remove(i) ==
    /\ stage[i] = "in cart"
    /\ stage' = [stage EXCEPT ![i] = "removed"]
    /\ UNCHANGED taken

Take(r, rows) ==
    /\ rows # {}
    /\ \A i \in rows : stage[i] = "in cart"
    /\ taken[r] = {}
    /\ stage' = [i \in Rows |-> IF i \in rows THEN "ordered" ELSE stage[i]]
    /\ taken' = [taken EXCEPT ![r] = rows]

Next ==
    \/ \E i \in Rows : Issue(i) \/ Remove(i)
    \/ \E r \in Orders, rows \in SUBSET Rows : Take(r, rows)

Spec == Init /\ [][Next]_vars

=============================================================================
