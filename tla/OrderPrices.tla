------------------------------ MODULE OrderPrices ------------------------------
(***************************************************************************)
(* What an order costs: each line stores its price when the order is made, *)
(* and the payment, later, adds up what is stored while the offers of the  *)
(* products may have changed.                                              *)
(***************************************************************************)
EXTENDS Integers, FiniteSets, Functions

CONSTANTS
    OrderLines,     \* the lines that an order may have, one product each
    HsLine,         \* the line that is a home shopping order, alone
    Prices,
    Quantities,
    Absent          \* no discounted price

ASSUME OrderPricesParameters ==
    /\ IsFiniteSet(OrderLines) /\ HsLine \in OrderLines
    /\ Prices \subseteq Nat /\ Prices # {}
    /\ Quantities \subseteq Nat

VARIABLES
    offers,         \* the base and the discounted price of each line's product
    purchase,       \* the lines of the order: quantity and stored order_price
    ordered,        \* the total that the client was told
    charged         \* the amount that the last payment was asked for

orderPricesVars == <<offers, purchase, ordered, charged>>

Offer == [base : Prices, discounted : Prices \cup {Absent}]

OrderPricesTypeOK ==
    /\ offers \in [OrderLines -> Offer]
    /\ DOMAIN purchase \subseteq OrderLines
    /\ \A l \in DOMAIN purchase : purchase[l] \in [quantity : Quantities, price : Nat]
    /\ ordered \in Nat
    /\ charged \subseteq Nat

\* The product's price before any offer is made.
OrderPricesInit ==
    /\ offers = [l \in OrderLines |-> [base |-> CHOOSE p \in Prices : TRUE, discounted |-> Absent]]
    /\ purchase = [l \in {} |-> 0]
    /\ ordered = 0
    /\ charged = {}

\* COALESCE(kok_discounted_price, kok_product_price, 0)
KokUnitPrice(offer) == IF offer.discounted # Absent THEN offer.discounted ELSE offer.base

\* dc_price or the reduced sale price: a dc_price of 0 counts as none.
HsUnitPrice(offer) == IF offer.discounted \in {Absent, 0} THEN offer.base ELSE offer.discounted

LinePrice(l, quantity) ==
    quantity * (IF l = HsLine THEN HsUnitPrice(offers[l]) ELSE KokUnitPrice(offers[l]))

SumOver(f) == SumFunction(f)

StoredTotal == SumOver([l \in DOMAIN purchase |-> purchase[l].price])

ChangeOffer(l) ==
    /\ \E offer \in Offer : offers' = [offers EXCEPT ![l] = offer]
    /\ UNCHANGED <<purchase, ordered, charged>>

\* A home shopping order is one line; a kok order has all that was selected.
Orderable == {lines \in (SUBSET OrderLines) \ {{}} : HsLine \in lines => lines = {HsLine}}

PlaceOrder ==
    /\ purchase = [l \in {} |-> 0]
    /\ \E lines \in Orderable : \E quantity \in [lines -> Quantities] :
        LET made == [l \in lines |->
                       [quantity |-> quantity[l], price |-> LinePrice(l, quantity[l])]]
        IN  /\ purchase' = made
            /\ ordered' = SumOver([l \in lines |-> made[l].price])
    /\ UNCHANGED <<offers, charged>>

\* Mutant: the offers of the day count.
TodaysTotals == {SumOver([l \in DOMAIN purchase |-> LinePrice(l, purchase[l].quantity)])}

(***************************************************************************)
(* calculate_order_total_price: the sum of what is stored.  A sum of 0 is  *)
(* taken for prices that are missing, and each line is calculated again; a *)
(* line that cannot be, or a failed query, counts as 0.                    *)
(***************************************************************************)
OrderTotals ==
    {0} \cup
    (IF StoredTotal > 0
     THEN {StoredTotal}
     ELSE {SumOver([l \in DOMAIN purchase |->
                      IF l \in known THEN LinePrice(l, purchase[l].quantity) ELSE 0]) :
             known \in SUBSET DOMAIN purchase})

RequestPayment ==
    /\ purchase # [l \in {} |-> 0]
    /\ \E total \in OrderTotals : charged' = {total}
    /\ UNCHANGED <<offers, purchase, ordered>>

OrderPricesNext ==
    \/ \E l \in OrderLines : ChangeOffer(l)
    \/ PlaceOrder
    \/ RequestPayment

OrderPricesSpec == OrderPricesInit /\ [][OrderPricesNext]_orderPricesVars
-----------------------------------------------------------------------------
(***************************************************************************)
(* order_price_management_crud.py:16: whatever became of the offers between*)
(* the order and its payments, a payment is asked for the total that the   *)
(* client was told.  The code has two ways round it: a failed query asks   *)
(* for nothing, and an order that cost nothing is priced anew.             *)
(***************************************************************************)
ChargedAsOrdered == \A total \in charged : total \in {ordered, 0} \/ ordered = 0
=============================================================================
