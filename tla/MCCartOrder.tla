---------------------------- MODULE MCCartOrder ----------------------------
(***************************************************************************)
(* A small instance of the cart: who asks for what.                        *)
(***************************************************************************)
EXTENDS CartOrderProperties, TLC

CONSTANTS a1, a2, a3, u1, d1, k1, k2, alice, rice, milk

\* One user, several devices.
AllByAlice == [r \in Requests |-> alice]

\* Two adds of one product, one of another.
TwoOfRice == [r \in Adds |-> IF r = a3 THEN milk ELSE rice]

\* The update asks for the quantity that one add leaves, and not two.
SmallQuantities == [r \in Adds \cup Updates |-> 1]

\* The adds of rice are alike, and so are the orders.
Alike == Permutations({a1, a2}) \cup Permutations({k1, k2})

=============================================================================
