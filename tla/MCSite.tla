-------------------------------- MODULE MCSite --------------------------------
(***************************************************************************)
(* Small instances of the components that keep their state apart from      *)
(* payments, carts and order statuses and share none of it with each other.*)
(* A behaviour is one of a single component, chosen at the start, so that  *)
(* their states add up and are not multiplied.                             *)
(***************************************************************************)
EXTENDS Likes, Accounts, UserLog, OrderPrices, SearchHistory, Catalog,
        Combinations, Inventory, RecipeSearch, IngredientStatus

VARIABLE component

OneEmail == [s \in Signups |-> "a@x"]

\* Four toggles of a broadcast by one user, one of a product.
ToggleTargets == [t \in Toggles |-> IF t = 5 THEN "product" ELSE "live"]

VisitPurposes == [v \in Visits |-> v]

\* One user posts and removes, another one removes and searches.
HistoryUsers ==
    [r \in HistoryRequests |-> IF r \in {"removeOther", "search"} THEN "other" ELSE "user"]

\* Two views of one listing, one of another.
ViewSubjects == [v \in Views |-> IF v = 3 THEN "other" ELSE "one"]

\* The first page twice, and the page after it.
PagesOfViews == [v \in PageViews |-> IF v = 3 THEN 2 ELSE 1]

Needs(name, amount, unit) == [name |-> name, amount |-> amount, unit |-> unit]

\* A stew lists eggs twice; no two recipes are alike in what they need.
SmallPool ==
    [r \in {"soup", "stew", "salad"} |->
        CASE r = "soup" -> <<Needs("egg", 1, "ea"), Needs("leek", 1, "g")>>
          [] r = "stew" -> <<Needs("egg", 2, "ea"), Needs("egg", 1, ""), Needs("tofu", 1, "")>>
          [] r = "salad" -> <<Needs("leek", 3, "g"), Needs("tofu", 2, "ea")>>]

\* Three entries, in which eggs may occur twice and an amount be negative.
SmallAsks ==
    {<<Needs("egg", a, u), Needs("leek", b, ""), Needs(n, c, w)>> :
        a \in 0..3, u \in Units, b \in {-1, 1, 2, 3}, n \in {"egg", "tofu"}, c \in 0..3,
        w \in {"", "g"}}

RankedRecipes == <<"a", "b", "c", "d">>

\* Three recipes have egg, two tofu, and one both.
MaterialsOfRecipes ==
    [d \in {"a", "b", "c", "d"} |->
        CASE d = "a" -> {"egg", "tofu"} [] d = "d" -> {"tofu", "leek"} [] OTHER -> {"egg"}]

SmallLists == {<<>>, <<"egg">>, <<"egg", "egg">>, <<"egg", "tofu">>}

PagesAsked ==
    {<<"search", 1>>, <<"search", 2>>, <<"ingredients", 1>>, <<"ingredients", 2>>, <<"cart", 2>>}

KeywordsOfGoods ==
    [p \in Goods |-> CASE p = "soy" -> "tofu" [] p = "eggs" -> "egg" [] OTHER -> "none"]

\* The recipe lists eggs twice.
RecipeMaterials == <<"egg", "tofu", "egg">>

SiteVars ==
    <<likesVars, accountsVars, userLogVars, orderPricesVars,
      searchHistoryVars, catalogVars, combinationsVars, inventoryVars,
      recipeSearchVars, ingredientStatusVars, component>>

Components ==
    {"likes", "accounts", "log", "prices", "history", "catalog",
     "combinations", "inventory", "search", "status"}

\* Which of the listings is looked at matters to the catalog only.
SiteInit ==
    /\ component \in Components
    /\ LikesInit
    /\ AccountsInit
    /\ UserLogInit
    /\ OrderPricesInit
    /\ SearchHistoryInit
    /\ CatalogInit
    /\ CombinationsInit
    /\ InventoryInit
    /\ RecipeSearchInit
    /\ IngredientStatusInit
    /\ component # "catalog" => listing = "schedule"

SiteNext ==
    /\ UNCHANGED component
    /\ \/ /\ component = "likes"
          /\ LikesNext
          /\ UNCHANGED <<accountsVars, userLogVars, orderPricesVars,
                         searchHistoryVars, catalogVars, combinationsVars,
                         inventoryVars, recipeSearchVars, ingredientStatusVars>>
       \/ /\ component = "accounts"
          /\ AccountsNext
          /\ UNCHANGED <<likesVars, userLogVars, orderPricesVars,
                         searchHistoryVars, catalogVars, combinationsVars,
                         inventoryVars, recipeSearchVars, ingredientStatusVars>>
       \/ /\ component = "log"
          /\ UserLogNext
          /\ UNCHANGED <<likesVars, accountsVars, orderPricesVars,
                         searchHistoryVars, catalogVars, combinationsVars,
                         inventoryVars, recipeSearchVars, ingredientStatusVars>>
       \/ /\ component = "prices"
          /\ OrderPricesNext
          /\ UNCHANGED <<likesVars, accountsVars, userLogVars,
                         searchHistoryVars, catalogVars, combinationsVars,
                         inventoryVars, recipeSearchVars, ingredientStatusVars>>
       \/ /\ component = "history"
          /\ SearchHistoryNext
          /\ UNCHANGED <<likesVars, accountsVars, userLogVars,
                         orderPricesVars, catalogVars, combinationsVars,
                         inventoryVars, recipeSearchVars, ingredientStatusVars>>
       \/ /\ component = "catalog"
          /\ CatalogNext
          /\ UNCHANGED <<likesVars, accountsVars, userLogVars,
                         orderPricesVars, searchHistoryVars, combinationsVars,
                         inventoryVars, recipeSearchVars, ingredientStatusVars>>
       \/ /\ component = "combinations"
          /\ CombinationsNext
          /\ UNCHANGED <<likesVars, accountsVars, userLogVars,
                         orderPricesVars, searchHistoryVars, catalogVars,
                         inventoryVars, recipeSearchVars, ingredientStatusVars>>
       \/ /\ component = "inventory"
          /\ InventoryNext
          /\ UNCHANGED <<likesVars, accountsVars, userLogVars,
                         orderPricesVars, searchHistoryVars, catalogVars,
                         combinationsVars, recipeSearchVars,
                         ingredientStatusVars>>
       \/ /\ component = "search"
          /\ RecipeSearchNext
          /\ UNCHANGED <<likesVars, accountsVars, userLogVars,
                         orderPricesVars, searchHistoryVars, catalogVars,
                         combinationsVars, inventoryVars, ingredientStatusVars>>
       \/ /\ component = "status"
          /\ IngredientStatusNext
          /\ UNCHANGED <<likesVars, accountsVars, userLogVars,
                         orderPricesVars, searchHistoryVars, catalogVars,
                         combinationsVars, inventoryVars, recipeSearchVars>>

SiteSpec == SiteInit /\ [][SiteNext]_SiteVars

\* Every component's state is well typed.
SiteTypeOK ==
    /\ LikesTypeOK
    /\ AccountsTypeOK
    /\ UserLogTypeOK
    /\ OrderPricesTypeOK
    /\ SearchHistoryTypeOK
    /\ CatalogTypeOK
    /\ CombinationsTypeOK
    /\ InventoryTypeOK
    /\ RecipeSearchTypeOK
    /\ IngredientStatusTypeOK
=============================================================================
