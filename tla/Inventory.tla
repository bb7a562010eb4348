------------------------------ MODULE Inventory ------------------------------
(***************************************************************************)
(* recommend_sequentially_for_inventory: recipes are chosen one after the  *)
(* other, each time one with the most rows of materials that are still in  *)
(* stock and, among those, the largest amount; what it is said to use is   *)
(* taken from the stock.  Amounts are whole numbers here, so that the      *)
(* tolerance of 1e-9 for sums of floats stands for equality.               *)
(***************************************************************************)
EXTENDS Integers, Sequences, FiniteSets, SequencesExt, FiniteSetsExt

CONSTANTS
    Ingredients,    \* the names in the requests
    Units,          \* with "" for none
    Asks,           \* the requests: lists of ingredients, in which names may repeat
    Pool            \* the recipes of the query, by id, with their materials

ASSUME InventoryParameters ==
    /\ "" \in Units
    /\ \A ask \in Asks : ask \in Seq([name : Ingredients, amount : Int, unit : Units])
    /\ IsFiniteSet(DOMAIN Pool)
    /\ \A r \in DOMAIN Pool :
        /\ Pool[r] \in Seq(ToSet(Pool[r]))
        /\ \A i \in DOMAIN Pool[r] : Pool[r][i].amount \in Nat /\ Pool[r][i].unit \in Units

VARIABLES
    given,          \* the amounts of the request, 0 for what it does not name
    unitOf,         \* and their units
    stock,          \* remaining_stock
    chosen,         \* the recipes in the answer, with what they are said to use
    wanted,         \* max_results
    stopped         \* "unsent", "no", "early" or "exhausted"

inventoryVars == <<given, unitOf, stock, chosen, wanted, stopped>>

InventoryTypeOK ==
    /\ given \in [Ingredients -> Int]
    /\ unitOf \in [Ingredients -> Units]
    /\ stock \in [Ingredients -> Int]
    /\ \A i \in DOMAIN chosen :
        /\ chosen[i].recipe \in DOMAIN Pool
        /\ chosen[i].used \in [Ingredients -> Nat]
        /\ chosen[i].spent \in [Ingredients -> Int]
        /\ chosen[i].count \in Nat
    /\ wanted \in Nat \ {0}
    /\ stopped \in {"unsent", "no", "early", "exhausted"}

NotUsed == [i \in Ingredients |-> 0]

InventoryInit ==
    /\ given = NotUsed
    /\ unitOf = [i \in Ingredients |-> ""]
    /\ stock = NotUsed
    /\ chosen = <<>>
    /\ wanted = 1
    /\ stopped = "unsent"

NamesIn(ask) == {ask[n].name : n \in DOMAIN ask}

\* The dict of the stock keeps the last entry of a name.
LastOf(ask, i) == ask[Max({n \in DOMAIN ask : ask[n].name = i})]

\* A missing amount is 1, a missing unit "".
Receive ==
    /\ stopped = "unsent"
    /\ \E ask \in Asks :
        /\ given' = [i \in Ingredients |-> IF i \in NamesIn(ask) THEN LastOf(ask, i).amount ELSE 0]
        /\ unitOf' = [i \in Ingredients |-> IF i \in NamesIn(ask) THEN LastOf(ask, i).unit ELSE ""]
    /\ wanted' \in 1..(Cardinality(DOMAIN Pool) + 1)
    /\ stock' = given'
    /\ stopped' = "no"
    /\ UNCHANGED chosen

UnitsCompatible(have, req) == have = "" \/ req = "" \/ have = req

Usable(units, left, m) ==
    /\ m.name \in Ingredients
    /\ left[m.name] > 0 /\ m.amount > 0
    /\ UnitsCompatible(units[m.name], m.unit)

(***************************************************************************)
(* score_recipe_usage: a material that a recipe lists twice counts twice   *)
(* and is reported, and taken from the stock, with its last amount only.   *)
(***************************************************************************)
UseMaterial(units, score, m) ==
    IF ~ Usable(units, score.left, m) THEN score
    ELSE LET amount == IF score.left[m.name] >= m.amount THEN m.amount ELSE score.left[m.name]
         IN  [left |-> [score.left EXCEPT ![m.name] = @ - amount],
              used |-> [score.used EXCEPT ![m.name] = amount],
              count |-> score.count + 1,
              total |-> score.total + amount]

ScoreFrom(units, left, r) ==
    FoldLeft(LAMBDA score, m : UseMaterial(units, score, m),
             [left |-> left, used |-> NotUsed, count |-> 0, total |-> 0], Pool[r])

Score(r) == ScoreFrom(unitOf, stock, r)

Candidates ==
    {r \in DOMAIN Pool :
        /\ \A i \in DOMAIN chosen : chosen[i].recipe # r
        /\ \E i \in DOMAIN Pool[r] :
            Pool[r][i].name \in Ingredients /\ stock[Pool[r][i].name] > 0}

\* Mutant: the amount is compared before the rows.
MoreAmount(a, b) == a.total > b.total \/ (a.total = b.total /\ a.count > b.count)

Better(a, b) == a.count > b.count \/ (a.count = b.count /\ a.total > b.total)

\* Which of several best ones is first depends on the order of a set.
BestRecipes == {r \in Candidates : \A q \in Candidates : ~ Better(Score(q), Score(r))}

\* Mutant: every recipe is scored against the stock of the request.
KeepStock(score) == stock

Deduct(score) == [i \in Ingredients |-> stock[i] - score.used[i]]

\* What the evaluation has taken from its copy of the stock.
Spent(score) == [i \in Ingredients |-> stock[i] - score.left[i]]

Choose ==
    /\ stopped = "no"
    /\ \E r \in BestRecipes :
        /\ Score(r).count > 0
        /\ stock' = Deduct(Score(r))
        /\ chosen' = Append(chosen, [recipe |-> r, used |-> Score(r).used,
                                    spent |-> Spent(Score(r)), count |-> Score(r).count])
    /\ stopped' = IF Len(chosen') >= wanted THEN "early" ELSE "no"
    /\ UNCHANGED <<given, unitOf, wanted>>

Exhausted ==
    /\ stopped = "no"
    /\ \A r \in Candidates : Score(r).count = 0
    /\ stopped' = "exhausted"
    /\ UNCHANGED <<given, unitOf, stock, chosen, wanted>>

InventoryNext == Receive \/ Choose \/ Exhausted

InventorySpec == InventoryInit /\ [][InventoryNext]_inventoryVars
-----------------------------------------------------------------------------
\* The recipe has one row for i at most.
ListsOnce(r, i) ==
    \A j, k \in DOMAIN Pool[r] : Pool[r][j].name = i /\ Pool[r][k].name = i => j = k

\* matched_ingredient_count
Kinds(n) == Cardinality({i \in Ingredients : chosen[n].used[i] > 0})

UsedOf(i) == SumFunction([n \in DOMAIN chosen |-> chosen[n].used[i]])

(***************************************************************************)
(* inventory_recipe.py:119: what the recipes of an answer are said to use  *)
(* and what is left is what was given, nothing is overdrawn, and no recipe *)
(* is proposed twice; and what a recipe is said to use of an ingredient is *)
(* all that it needed of it, unless the recipe lists the ingredient twice. *)
(***************************************************************************)
StockIsSpentOnce ==
    /\ \A i \in Ingredients :
        /\ stock[i] + UsedOf(i) = given[i]
        /\ given[i] >= 0 => stock[i] >= 0
    /\ \A n \in DOMAIN chosen : \A i \in Ingredients :
        ListsOnce(chosen[n].recipe, i) => chosen[n].used[i] = chosen[n].spent[i]
    /\ \A m, n \in DOMAIN chosen : chosen[m].recipe = chosen[n].recipe => m = n

(***************************************************************************)
(* recipe_recommendation_crud.py:249, "the most ingredients first": each   *)
(* recipe of an answer uses as many rows of materials as any that comes    *)
(* after it, though each was chosen from another stock.  As many kinds of  *)
(* ingredient it uses only if it lists none twice: then so many are said to*)
(* be matched.  And when the search ends by itself, no recipe that was left*)
(* out has a use for anything that is left.                                *)
(***************************************************************************)
MostKindsFirst ==
    /\ \A m, n \in DOMAIN chosen : m < n =>
        /\ chosen[m].count >= chosen[n].count
        /\ (\A i \in Ingredients : ListsOnce(chosen[m].recipe, i)) => Kinds(m) >= Kinds(n)
    /\ stopped = "exhausted" =>
        \A r \in DOMAIN Pool : \A i \in DOMAIN Pool[r] :
            Usable(unitOf, stock, Pool[r][i]) => \E n \in DOMAIN chosen : chosen[n].recipe = r

(***************************************************************************)
(* inventory_recipe.py:42, "reduces the temporary stock, which prevents    *)
(* that it is used again": the recipes of an answer need no more of an     *)
(* ingredient, together, than was given.                                   *)
(***************************************************************************)
StockIsNotUsedAgain ==
    \A i \in Ingredients : given[i] >= 0 =>
        SumFunction([n \in DOMAIN chosen |-> chosen[n].spent[i]]) <= given[i]
=============================================================================
