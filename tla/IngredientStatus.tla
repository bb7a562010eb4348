--------------------------- MODULE IngredientStatus ---------------------------
(***************************************************************************)
(* GET /{recipe_id}/status: which materials of a recipe a user has bought  *)
(* in the last seven days, has in the cart, or has not.  The orders and    *)
(* then the cart are read in one transaction, whose snapshot is taken by   *)
(* its first query, while other requests of the user fill the cart, turn   *)
(* it into an order and cancel orders.  A product counts for the material  *)
(* that its name's keyword names, if it names one.                         *)
(***************************************************************************)
EXTENDS Integers, Sequences, FiniteSets, SequencesExt

CONSTANTS
    Goods,          \* the products
    KeywordOf,      \* the material a product's name stands for, or NoKeyword
    NoKeyword,
    MaterialsOf,    \* the rows of the recipe: it may list a material twice
    StatusViews,    \* the requests
    MaxMoments      \* bound: how many states of the tables a request may meet

ASSUME IngredientStatusParameters ==
    /\ Goods \subseteq DOMAIN KeywordOf
    /\ MaterialsOf \in Seq(ToSet(MaterialsOf))
    /\ NoKeyword \notin ToSet(MaterialsOf)

VARIABLES
    bought,         \* products of recent orders that are not cancelled
    inCart,
    statusPc,
    snapshot,       \* the tables as a request sees them
    ordersRead,     \* the result of its second query
    status,         \* its answer
    moments         \* the tables as they were at any time of the request

ingredientStatusVars ==
    <<bought, inCart, statusPc, snapshot, ordersRead, status, moments>>

Statuses == {"owned", "cart", "not_owned"}

Tables == [bought : SUBSET Goods, inCart : SUBSET Goods]

Now == [bought |-> bought, inCart |-> inCart]

NoTables == [bought |-> {}, inCart |-> {}]

StatusAnswer(statusOf, counts) == [statusOf |-> statusOf, counts |-> counts]

NoAnswer == StatusAnswer(<<>>, <<>>)

Count(statusOf, kind) == Cardinality({n \in DOMAIN statusOf : statusOf[n] = kind})

IngredientStatusTypeOK ==
    /\ Now \in Tables
    /\ statusPc \in [StatusViews -> {"unsent", "begun", "ordered", "done", "failed"}]
    /\ snapshot \in [StatusViews -> Tables]
    /\ ordersRead \in [StatusViews -> SUBSET Goods]
    /\ \A v \in StatusViews : status[v] # NoAnswer =>
        status[v].statusOf \in [ToSet(MaterialsOf) -> Statuses]
    /\ moments \in [StatusViews -> SUBSET Tables]

IngredientStatusInit ==
    /\ bought = {}
    /\ inCart = {}
    /\ statusPc = [v \in StatusViews |-> "unsent"]
    /\ snapshot = [v \in StatusViews |-> NoTables]
    /\ ordersRead = [v \in StatusViews |-> {}]
    /\ status = [v \in StatusViews |-> NoAnswer]
    /\ moments = [v \in StatusViews |-> {}]

Open == {v \in StatusViews : statusPc[v] \in {"begun", "ordered"}}

\* The tables change under the requests that are open.
Becomes(newBought, newCart) ==
    /\ bought' = newBought
    /\ inCart' = newCart
    /\ moments' = [v \in StatusViews |-> moments[v] \cup (IF v \in Open THEN {Now'} ELSE {})]
    /\ \A v \in StatusViews : Cardinality(moments'[v]) <= MaxMoments
    /\ UNCHANGED <<statusPc, snapshot, ordersRead, status>>

PutInCart == \E p \in Goods \ inCart : Becomes(bought, inCart \cup {p})

TakeFromCart == \E p \in inCart : Becomes(bought, inCart \ {p})

\* One commit takes the selected products from the cart and orders them.
OrderCart == \E p \in inCart : Becomes(bought \cup {p}, inCart \ {p})

\* The order is cancelled, or its seven days are over.
LoseOrder == \E p \in bought : Becomes(bought \ {p}, inCart)

\* The first query, for the recipe's materials, takes the snapshot.
ReadMaterials(v) ==
    /\ statusPc[v] = "unsent"
    /\ statusPc' = [statusPc EXCEPT ![v] = "begun"]
    /\ snapshot' = [snapshot EXCEPT ![v] = Now]
    /\ moments' = [moments EXCEPT ![v] = {Now}]
    /\ UNCHANGED <<bought, inCart, ordersRead, status>>

ReadOrders(v) ==
    /\ statusPc[v] = "begun"
    /\ statusPc' = [statusPc EXCEPT ![v] = "ordered"]
    /\ ordersRead' = [ordersRead EXCEPT ![v] = snapshot[v].bought]
    /\ UNCHANGED <<bought, inCart, snapshot, status, moments>>

Names(products, material) == {p \in products : KeywordOf[p] = material}

\* Row by row; a material that is listed again is looked up again.
MarkMaterial(owned, cart, statusOf, material) ==
    [n \in DOMAIN statusOf |->
        IF n # material THEN statusOf[n]
        ELSE CASE Names(owned, n) # {} -> "owned"
               [] Names(owned, n) = {} /\ Names(cart, n) # {} -> "cart"
               [] OTHER -> "not_owned"]

MarkAll(owned, cart) ==
    FoldLeft(LAMBDA statusOf, material : MarkMaterial(owned, cart, statusOf, material),
             [n \in ToSet(MaterialsOf) |-> "not_owned"], MaterialsOf)

\* Mutant: the cart is read in a transaction of its own.
LatestCart(v) == inCart

CartSeen(v) == snapshot[v].inCart

ReadCart(v) ==
    /\ statusPc[v] = "ordered"
    /\ statusPc' = [statusPc EXCEPT ![v] = "done"]
    /\ LET statusOf == MarkAll(ordersRead[v], CartSeen(v))
       IN  status' = [status EXCEPT ![v] =
             StatusAnswer(statusOf, [kind \in Statuses |-> Count(statusOf, kind)])]
    /\ UNCHANGED <<bought, inCart, snapshot, ordersRead, moments>>

\* Any error makes the route answer that there is no such recipe.
FailStatus(v) ==
    /\ v \in Open
    /\ statusPc' = [statusPc EXCEPT ![v] = "failed"]
    /\ UNCHANGED <<bought, inCart, snapshot, ordersRead, status, moments>>

IngredientStatusNext ==
    \/ PutInCart \/ TakeFromCart \/ OrderCart \/ LoseOrder
    \/ \E v \in StatusViews :
        ReadMaterials(v) \/ ReadOrders(v) \/ ReadCart(v) \/ FailStatus(v)

IngredientStatusSpec ==
    IngredientStatusInit /\ [][IngredientStatusNext]_ingredientStatusVars
-----------------------------------------------------------------------------
Truth(tables, material) ==
    CASE \E p \in tables.bought : KeywordOf[p] = material -> "owned"
      [] ~ (\E p \in tables.bought : KeywordOf[p] = material)
         /\ \E p \in tables.inCart : KeywordOf[p] = material -> "cart"
      [] OTHER -> "not_owned"

(***************************************************************************)
(* recipe_ingredient_status_crud.py:205: an answer was true of all the     *)
(* materials together at one moment of its request: what goes from the     *)
(* cart to an order meanwhile is in one of the two, not missed by the read *)
(* of the orders and by that of the cart.  Its counts add up to the        *)
(* number of different materials.                                          *)
(***************************************************************************)
StatusOfOneMoment ==
    \A v \in StatusViews : status[v] # NoAnswer =>
        /\ \E tables \in moments[v] : \A n \in ToSet(MaterialsOf) :
            status[v].statusOf[n] = Truth(tables, n)
        /\ status[v].counts["owned"] + status[v].counts["cart"]
             + status[v].counts["not_owned"] = Cardinality(ToSet(MaterialsOf))
=============================================================================
