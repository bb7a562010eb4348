----------------------------- MODULE RecipeSearch -----------------------------
(***************************************************************************)
(* The pages of recipes.  GET /search asks the ML service for the recipes  *)
(* that are nearest to a name, again after a timeout and not after any     *)
(* other error; or it looks up the recipes with all the ingredients of a   *)
(* list, as do the recipes for a cart, and for a broadcast, which are those*)
(* of a cart's first page.  The lookup has nothing to order its rows by,   *)
(* so that each page is cut out of an order of its own.                    *)
(***************************************************************************)
EXTENDS Integers, Sequences, FiniteSets, SequencesExt

CONSTANTS
    Ranking,        \* every recipe, by its distance to the name
    Recipes,
    MaterialNames,  \* what each recipe is made of
    NameLists,      \* the lists of ingredients, split at the commas
    Requests,       \* the pages that are asked for, with their routes
    RecipesPerPage,
    MLRetries

Routes == {"search", "ingredients", "cart"}

ASSUME RecipeSearchParameters ==
    /\ Ranking \in Seq(Recipes)
    /\ IsFiniteSet(Recipes)
    /\ \A names \in NameLists : names \in Seq(ToSet(names))
    /\ Requests \subseteq Routes \X (Nat \ {0})
    /\ RecipesPerPage \in Nat \ {0}
    /\ MLRetries \in Nat

VARIABLES
    searchPc,
    timeouts,       \* of the ML service, by request
    sought,         \* the list of the request
    shown,          \* the answer, "failed" requests having none
    total           \* and the total in it

recipeSearchVars == <<searchPc, timeouts, sought, shown, total>>

RecipeSearchTypeOK ==
    /\ searchPc \in [Requests -> {"unsent", "asking", "done", "failed"}]
    /\ timeouts \in [Requests -> 0..MLRetries + 1]
    /\ sought \in [Requests -> NameLists \cup {<<>>}]
    /\ shown \in [Requests -> Seq(Recipes)]
    /\ total \in [Requests -> Nat]

RecipeSearchInit ==
    /\ searchPc = [r \in Requests |-> "unsent"]
    /\ timeouts = [r \in Requests |-> 0]
    /\ sought = [r \in Requests |-> <<>>]
    /\ shown = [r \in Requests |-> <<>>]
    /\ total = [r \in Requests |-> 0]

First(s, n) == SubSeq(s, 1, Min({n, Len(s)}))

UpTo(page) == page * RecipesPerPage

ShowPage(r, recipes, count) ==
    /\ searchPc' = [searchPc EXCEPT ![r] = "done"]
    /\ shown' = [shown EXCEPT ![r] = recipes]
    /\ total' = [total EXCEPT ![r] = count]

AskML(r) ==
    /\ searchPc[r] = "unsent"
    /\ r[1] = "search"
    /\ searchPc' = [searchPc EXCEPT ![r] = "asking"]
    /\ UNCHANGED <<timeouts, sought, shown, total>>

\* One more than the page needs is asked for, and the first of them shown.
Nearest(page) == First(Ranking, UpTo(page) + 1)

FirstOfNearest(page) == First(Nearest(page), RecipesPerPage)

\* One more than is on the pages so far, if more were found than are shown.
TotalSoFar(page) ==
    IF Nearest(page) = <<>> THEN 0
    ELSE UpTo(page - 1) + Len(FirstOfNearest(page))
           + (IF Len(Nearest(page)) > RecipesPerPage THEN 1 ELSE 0)

ShowSearch(r) ==
    /\ searchPc[r] = "asking"
    /\ ShowPage(r, FirstOfNearest(r[2]), TotalSoFar(r[2]))
    /\ UNCHANGED <<timeouts, sought>>

GiveUp(r) ==
    /\ searchPc' = [searchPc EXCEPT ![r] = "failed"]
    /\ UNCHANGED <<sought, shown, total>>

TimeOut(r) ==
    /\ searchPc[r] = "asking"
    /\ timeouts' = [timeouts EXCEPT ![r] = @ + 1]
    /\ IF timeouts[r] < MLRetries THEN UNCHANGED <<searchPc, sought, shown, total>> ELSE GiveUp(r)

FailML(r) ==
    /\ searchPc[r] = "asking"
    /\ GiveUp(r)
    /\ UNCHANGED timeouts

\* A name that is asked for twice is found once: then no recipe has them all.
WithAll(names) ==
    {d \in Recipes :
        names # <<>> /\ Cardinality(MaterialNames[d] \cap ToSet(names)) = Len(names)}

WithAny(names) == {d \in Recipes : MaterialNames[d] \cap ToSet(names) # {}}

Found(names) == ToSet(names) \cap UNION {MaterialNames[d] : d \in Recipes}

\* Mutant: the total is counted after the LIMIT.
TotalOfAPage(names) == Min({Cardinality(WithAny(names)), RecipesPerPage})

(***************************************************************************)
(* The query of the total does not group by recipe: if each name is in any *)
(* recipe, it counts the recipes with one of them.                         *)
(***************************************************************************)
TotalOf(names) ==
    IF Cardinality(Found(names)) = Len(names) THEN Cardinality(WithAny(names)) ELSE 0

\* OFFSET and LIMIT, of the recipes in any order.
RowsOf(names, page) ==
    LET left == Cardinality(WithAll(names)) - UpTo(page - 1)
    IN  {rows \in [1..Max({0, Min({left, RecipesPerPage})}) -> WithAll(names)] : IsInjective(rows)}

\* A cart's total is the number of recipes on its page.
LookUp(r) ==
    /\ searchPc[r] = "unsent"
    /\ r[1] # "search"
    /\ \E names \in NameLists : \E rows \in RowsOf(names, r[2]) :
        /\ sought' = [sought EXCEPT ![r] = names]
        /\ ShowPage(r, rows, IF r[1] = "cart" THEN Len(rows) ELSE TotalOf(names))
    /\ UNCHANGED timeouts

FailLookUp(r) ==
    /\ searchPc[r] = "unsent"
    /\ r[1] # "search"
    /\ GiveUp(r)
    /\ UNCHANGED timeouts

RecipeSearchNext ==
    \E r \in Requests :
        \/ AskML(r) \/ ShowSearch(r) \/ TimeOut(r) \/ FailML(r)
        \/ LookUp(r) \/ FailLookUp(r)

RecipeSearchSpec == RecipeSearchInit /\ [][RecipeSearchNext]_recipeSearchVars
-----------------------------------------------------------------------------
LookedUp(r, names) == r[1] # "search" /\ searchPc[r] = "done" /\ sought[r] = names

(***************************************************************************)
(* recipe_search_crud.py:29, "the recipes with all the ingredients": of the*)
(* pages of one list, whatever order each was cut from, those before a page*)
(* with a recipe are full; and none has a recipe after one at which a      *)
(* search had come to the total, which may say too much and never too      *)
(* little.                                                                 *)
(***************************************************************************)
IngredientPagesReachAll ==
    \A names \in NameLists : \A r, q \in Requests :
        (LookedUp(r, names) /\ LookedUp(q, names) /\ r[2] < q[2] /\ shown[q] # <<>>) =>
            /\ Len(shown[r]) = RecipesPerPage
            /\ r[1] = "ingredients" => total[r] > UpTo(r[2])

(***************************************************************************)
(* search_router.py:35, "pagination is reflected exactly": no recipe is on *)
(* two pages of the search.                                                *)
(***************************************************************************)
SearchPagesApart ==
    \A r, q \in Requests :
        (r # q /\ r[1] = "search" /\ q[1] = "search") =>
            ToSet(shown[r]) \cap ToSet(shown[q]) = {}
=============================================================================
