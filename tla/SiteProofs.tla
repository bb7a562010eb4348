------------------------------ MODULE SiteProofs ------------------------------
(***************************************************************************)
(* The components that share no state, side by side: a behaviour of the    *)
(* site is one of each of them, so that what is proved of one component    *)
(* holds of the site.                                                      *)
(***************************************************************************)
EXTENDS MCSite, UserProofs, CatalogProofs, RecipeProofs

\* Each component starts as it does alone.
LEMMA SiteStarts ==
    SiteInit =>
        /\ LikesInit
        /\ AccountsInit
        /\ UserLogInit
        /\ OrderPricesInit
        /\ SearchHistoryInit
        /\ CatalogInit
        /\ CombinationsInit
        /\ InventoryInit
        /\ RecipeSearchInit
        /\ IngredientStatusInit
  BY DEF SiteInit

\* A step of the site is one of one component, and the others stand still.
LEMMA SiteSteps ==
    [SiteNext]_SiteVars =>
        /\ [LikesNext]_likesVars
        /\ [AccountsNext]_accountsVars
        /\ [UserLogNext]_userLogVars
        /\ [OrderPricesNext]_orderPricesVars
        /\ [SearchHistoryNext]_searchHistoryVars
        /\ [CatalogNext]_catalogVars
        /\ [CombinationsNext]_combinationsVars
        /\ [InventoryNext]_inventoryVars
        /\ [RecipeSearchNext]_recipeSearchVars
        /\ [IngredientStatusNext]_ingredientStatusVars
  BY DEF SiteNext, SiteVars

(***************************************************************************)
(* MCSite.tla composes the components by letting one of them run: what     *)
(* that shows is what each of them does.                                   *)
(***************************************************************************)
THEOREM SiteIsItsParts ==
    SiteSpec =>
        /\ LikesSpec
        /\ AccountsSpec
        /\ UserLogSpec
        /\ OrderPricesSpec
        /\ SearchHistorySpec
        /\ CatalogSpec
        /\ CombinationsSpec
        /\ InventorySpec
        /\ RecipeSearchSpec
        /\ IngredientStatusSpec
  BY SiteStarts, SiteSteps, PTL
  DEF SiteSpec, LikesSpec, AccountsSpec, UserLogSpec, OrderPricesSpec, SearchHistorySpec,
      CatalogSpec, CombinationsSpec, InventorySpec, RecipeSearchSpec, IngredientStatusSpec

(***************************************************************************)
(* SiteTypeOK: no request, failure or restart puts a value where the code  *)
(* of any of the ten components keeps another kind of value.               *)
(***************************************************************************)
THEOREM SiteTypes == SiteSpec => []SiteTypeOK
<1>1. /\ LogInv => UserLogTypeOK
      /\ PricesInv => OrderPricesTypeOK
      /\ HistoryInv => SearchHistoryTypeOK
      /\ CatalogInv => CatalogTypeOK
      /\ TrackerInv => CombinationsTypeOK
      /\ InventoryInv => InventoryTypeOK
      /\ SearchInv => RecipeSearchTypeOK
      /\ StatusInv => IngredientStatusTypeOK
  BY DEF LogInv, PricesInv, HistoryInv, CatalogInv, TrackerInv, InventoryInv, SearchInv,
         StatusInv
<1>2. /\ LikesTypeOK
      /\ AccountsTypeOK
      /\ LogInv
      /\ PricesInv
      /\ HistoryInv
      /\ CatalogInv
      /\ TrackerInv
      /\ InventoryInv
      /\ SearchInv
      /\ StatusInv
      => SiteTypeOK
  BY <1>1 DEF SiteTypeOK
<1> QED
  BY <1>2, SiteIsItsParts, LikesTypes, AccountTypes, LogInvariance, PricesInvariance,
     HistoryInvariance, CatalogInvariance, TrackerInvariance, InventoryInvariance,
     SearchInvariance, StatusInvariance, PTL
=============================================================================
