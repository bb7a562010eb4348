------------------------------ MODULE RecipeProofs ------------------------------
(***************************************************************************)
(* Proofs about the recommendation of recipes: what the pages of an        *)
(* inventory repeat, what an inventory is spent on, what the pages of a    *)
(* list of ingredients reach, and what a recipe's materials are said to    *)
(* be, for any numbers of recipes, requests and pages.                     *)
(***************************************************************************)
EXTENDS Combinations, Inventory, RecipeSearch, IngredientStatus, FoldProofs,
        SequenceTheorems
-----------------------------------------------------------------------------
\* Pages of an inventory, and what the tracker knows of them.

\* While a page is saved the process does nothing else.
Saving(v) == pagePc[v] \in {"saving", "writing", "saved"}

ViewsTakeTurns ==
    /\ \A v, w \in PageViews : Saving(v) /\ Saving(w) => v = w
    /\ \A v \in PageViews : Saving(v) => PageOf[v] \in Combos
    /\ \A v \in PageViews : pagePc[v] \in {"unsent", "begun"} => proposed[v] = {}

\* A request leaves out all that the lower pages had answered, and keeps to it.
ViewsKeepApart ==
    \A v \in PageViews : known[v] \subseteq excluded[v] /\ proposed[v] \cap excluded[v] = {}

\* What was last answered is what is tracked, if no page has replaced it.
AnswersAreTracked ==
    \A c \in Combos :
        \/ lastTold[c] \subseteq tracked[c]
        \/ \E v \in PageViews : Saving(v) /\ PageOf[v] = c

\* The page that is being saved is tracked, or everything was forgotten.
SavedIsTracked ==
    \A v \in PageViews : Saving(v) =>
        tracked[PageOf[v]] = proposed[v] \/ lastTold[PageOf[v]] = {}

\* What the process would find if it were started again.
AnswersAreSaved ==
    trackedFile # Torn /\ ~ unsaved =>
        /\ \A c \in Combos \ Replaced : lastTold[c] \subseteq trackedFile[c]
        /\ \A v \in PageViews : pagePc[v] = "saved" => trackedFile = tracked

TrackerInv ==
    /\ CombinationsTypeOK
    /\ ViewsTakeTurns
    /\ ViewsKeepApart
    /\ AnswersAreTracked
    /\ SavedIsTracked
    /\ AnswersAreSaved

LEMMA InitTrackerInv == CombinationsInit => TrackerInv
  BY DEF CombinationsInit, TrackerInv, CombinationsTypeOK, ViewsTakeTurns, ViewsKeepApart,
         AnswersAreTracked, SavedIsTracked, AnswersAreSaved, Saving, Untracked, Combos

LEMMA NobodySaves == Idle <=> \A v \in PageViews : ~ Saving(v)
  BY DEF Idle, Saving

LEMMA BeginPageKeeps == ASSUME TrackerInv, NEW v \in PageViews, BeginPage(v) PROVE TrackerInv'
<1> USE DEF TrackerInv
<1>1. CombinationsTypeOK'
  BY DEF CombinationsTypeOK, BeginPage, LowerCombos
<1>2. \A w \in PageViews : ~ Saving(w) /\ ~ Saving(w)'
  BY NobodySaves DEF BeginPage, Saving, CombinationsTypeOK
<1>3. ViewsTakeTurns'
  BY <1>2 DEF BeginPage, ViewsTakeTurns, CombinationsTypeOK
<1>4. ViewsKeepApart'
  <2>1. \A c \in Combos : lastTold[c] \subseteq tracked[c]
    BY <1>2 DEF AnswersAreTracked
  <2>2. known'[v] \subseteq excluded'[v] /\ proposed'[v] = {}
    BY <2>1 DEF BeginPage, LowerCombos, CombinationsTypeOK, ViewsTakeTurns
  <2> QED BY <2>2 DEF BeginPage, ViewsKeepApart, CombinationsTypeOK
<1>5. AnswersAreTracked' /\ SavedIsTracked'
  BY <1>2 DEF BeginPage, AnswersAreTracked, SavedIsTracked
<1>6. AnswersAreSaved'
  BY DEF BeginPage, AnswersAreSaved, Replaced, CombinationsTypeOK
<1> QED BY <1>1, <1>3, <1>4, <1>5, <1>6

LEMMA AnswerNoRecipeKeeps ==
    ASSUME TrackerInv, NEW v \in PageViews, AnswerNoRecipe(v) PROVE TrackerInv'
<1> USE DEF TrackerInv
<1>1. CombinationsTypeOK'
  BY DEF CombinationsTypeOK, AnswerNoRecipe
<1>2. \A w \in PageViews : ~ Saving(w) /\ ~ Saving(w)'
  BY NobodySaves DEF AnswerNoRecipe, Saving, CombinationsTypeOK
<1>3. ViewsTakeTurns' /\ ViewsKeepApart'
  BY <1>2 DEF AnswerNoRecipe, ViewsTakeTurns, ViewsKeepApart, CombinationsTypeOK
<1>4. AnswersAreTracked' /\ SavedIsTracked'
  BY <1>2 DEF AnswerNoRecipe, AnswersAreTracked, SavedIsTracked
<1>5. AnswersAreSaved'
  BY DEF AnswerNoRecipe, AnswersAreSaved, Replaced, CombinationsTypeOK
<1> QED BY <1>1, <1>3, <1>4, <1>5

LEMMA TrackKeeps == ASSUME TrackerInv, NEW v \in PageViews, Track(v) PROVE TrackerInv'
<1> USE DEF TrackerInv
<1> PICK recipes \in Proposals(v) :
      /\ proposed' = [proposed EXCEPT ![v] = recipes]
      /\ tracked' = [tracked EXCEPT ![PageOf[v]] = recipes]
  BY DEF Track
<1>0. recipes \in SUBSET Dishes /\ recipes \cap excluded[v] = {}
  BY DEF Proposals
<1>1. CombinationsTypeOK'
  BY <1>0 DEF CombinationsTypeOK, Track
<1>2. \A w \in PageViews : ~ Saving(w) /\ (Saving(w)' <=> w = v)
  BY NobodySaves DEF Track, Saving, CombinationsTypeOK
<1>3. ViewsTakeTurns'
  BY <1>2 DEF Track, ViewsTakeTurns, CombinationsTypeOK
<1>4. ViewsKeepApart'
  BY <1>0 DEF Track, ViewsKeepApart, CombinationsTypeOK
<1>5. AnswersAreTracked'
  BY <1>2 DEF Track, AnswersAreTracked, CombinationsTypeOK
<1>6. SavedIsTracked'
  BY <1>2 DEF Track, SavedIsTracked, CombinationsTypeOK
<1>7. AnswersAreSaved'
  BY <1>2 DEF Track, AnswersAreSaved, Replaced, CombinationsTypeOK, Saving
<1> QED BY <1>1, <1>3, <1>4, <1>5, <1>6, <1>7

\* The file is emptied, written, or neither, while one page is being saved.
LEMMA SaveKeeps ==
    ASSUME TrackerInv, NEW v \in PageViews, OpenFile(v) \/ WriteFile(v) \/ FailSave(v)
    PROVE  TrackerInv'
<1> USE DEF TrackerInv
<1>1. CombinationsTypeOK'
  BY DEF CombinationsTypeOK, OpenFile, WriteFile, FailSave
<1>2. \A w \in PageViews : (Saving(w) <=> w = v) /\ (Saving(w)' <=> w = v)
  BY DEF OpenFile, WriteFile, FailSave, Saving, CombinationsTypeOK, ViewsTakeTurns
<1>3. ViewsTakeTurns' /\ ViewsKeepApart'
  BY <1>2 DEF OpenFile, WriteFile, FailSave, ViewsTakeTurns, ViewsKeepApart, CombinationsTypeOK
<1>4. AnswersAreTracked' /\ SavedIsTracked'
  BY <1>2 DEF OpenFile, WriteFile, FailSave, AnswersAreTracked, SavedIsTracked
<1>5. CASE OpenFile(v)
  BY <1>1, <1>3, <1>4, <1>5 DEF OpenFile, AnswersAreSaved
<1>6. CASE FailSave(v)
  BY <1>1, <1>3, <1>4, <1>6 DEF FailSave, AnswersAreSaved
<1>7. CASE WriteFile(v)
  <2>1. PageOf[v] \in Replaced'
    BY <1>7 DEF WriteFile, Replaced, CombinationsTypeOK
  <2>2. \A c \in Combos \ {PageOf[v]} : lastTold[c] \subseteq tracked[c]
    BY <1>2 DEF AnswersAreTracked
  <2>3. AnswersAreSaved'
    BY <1>7, <2>1, <2>2 DEF WriteFile, AnswersAreSaved
  <2> QED BY <1>1, <1>3, <1>4, <2>3
<1> QED BY <1>5, <1>6, <1>7

LEMMA CleanTrackedKeeps ==
    ASSUME TrackerInv, NEW v \in PageViews, CleanTracked(v) PROVE TrackerInv'
<1> USE DEF TrackerInv
<1>1. CombinationsTypeOK'
  BY DEF CombinationsTypeOK, CleanTracked, Untracked
<1>2. \A w \in PageViews : (Saving(w) <=> w = v) /\ (Saving(w)' <=> w = v)
  BY DEF CleanTracked, Saving, CombinationsTypeOK, ViewsTakeTurns
<1>3. ViewsTakeTurns' /\ ViewsKeepApart'
  BY <1>2 DEF CleanTracked, ViewsTakeTurns, ViewsKeepApart, CombinationsTypeOK
<1>4. AnswersAreTracked' /\ SavedIsTracked'
  BY <1>2, <1>3 DEF CleanTracked, AnswersAreTracked, SavedIsTracked, Untracked, ViewsTakeTurns
<1>5. \A w \in PageViews : pagePc'[w] # "saved"
  BY <1>2 DEF CleanTracked, Saving, CombinationsTypeOK
<1>6. AnswersAreSaved'
  BY <1>5 DEF CleanTracked, AnswersAreSaved, Untracked
<1> QED BY <1>1, <1>3, <1>4, <1>6

LEMMA AnswerPageKeeps ==
    ASSUME TrackerInv, NEW v \in PageViews, AnswerPage(v) PROVE TrackerInv'
<1> USE DEF TrackerInv
<1>0. PageOf[v] \in Combos /\ Saving(v)
  BY DEF AnswerPage, ViewsTakeTurns, Saving
<1>1. CombinationsTypeOK'
  BY <1>0 DEF CombinationsTypeOK, AnswerPage
<1>2. \A w \in PageViews : (Saving(w) <=> w = v) /\ ~ Saving(w)'
  BY <1>0 DEF AnswerPage, Saving, CombinationsTypeOK, ViewsTakeTurns
<1>3. ViewsTakeTurns' /\ ViewsKeepApart'
  BY <1>2 DEF AnswerPage, ViewsTakeTurns, ViewsKeepApart, CombinationsTypeOK
<1>4. \A c \in Combos : lastTold'[c] \subseteq tracked[c]
  <2>1. ASSUME NEW c \in Combos, c # PageOf[v] PROVE lastTold'[c] \subseteq tracked[c]
    BY <1>2, <2>1 DEF AnswersAreTracked, AnswerPage, CombinationsTypeOK
  <2>2. lastTold'[PageOf[v]] \subseteq tracked[PageOf[v]]
    BY <1>0 DEF SavedIsTracked, AnswerPage, CombinationsTypeOK
  <2> QED BY <2>1, <2>2
<1>5. AnswersAreTracked' /\ SavedIsTracked'
  BY <1>2, <1>4 DEF AnswerPage, AnswersAreTracked, SavedIsTracked
<1>6. AnswersAreSaved'
  <2>1. \A w \in PageViews : pagePc'[w] # "saved"
    BY <1>2 DEF Saving
  <2>2. trackedFile # Torn /\ ~ unsaved => trackedFile = tracked
    BY DEF AnswersAreSaved, AnswerPage
  <2> QED BY <1>4, <2>1, <2>2 DEF AnswersAreSaved, AnswerPage
<1> QED BY <1>1, <1>3, <1>5, <1>6

LEMMA FailPageKeeps ==
    ASSUME TrackerInv, NEW v \in PageViews, FailPage(v) PROVE TrackerInv'
<1> USE DEF TrackerInv
<1>0. PageOf[v] \in Combos /\ Saving(v)
  BY DEF FailPage, ViewsTakeTurns, Saving
<1>1. CombinationsTypeOK'
  BY <1>0 DEF CombinationsTypeOK, FailPage
<1>2. \A w \in PageViews : (Saving(w) <=> w = v) /\ ~ Saving(w)'
  BY <1>0 DEF FailPage, Saving, CombinationsTypeOK, ViewsTakeTurns
<1>3. ViewsTakeTurns' /\ ViewsKeepApart'
  BY <1>2 DEF FailPage, ViewsTakeTurns, ViewsKeepApart, CombinationsTypeOK
<1>4. \A c \in Combos : lastTold'[c] \subseteq tracked[c]
  BY <1>0, <1>2 DEF AnswersAreTracked, FailPage, CombinationsTypeOK
<1>5. AnswersAreTracked' /\ SavedIsTracked'
  BY <1>2, <1>4 DEF FailPage, AnswersAreTracked, SavedIsTracked
<1>6. AnswersAreSaved'
  <2>1. \A w \in PageViews : pagePc'[w] # "saved"
    BY <1>2 DEF Saving
  <2>2. trackedFile # Torn /\ ~ unsaved => trackedFile = tracked
    BY DEF AnswersAreSaved, FailPage
  <2> QED BY <1>4, <2>1, <2>2 DEF AnswersAreSaved, FailPage
<1> QED BY <1>1, <1>3, <1>5, <1>6

LEMMA RestartKeeps == TrackerInv /\ Restart => TrackerInv'
<1> SUFFICES ASSUME TrackerInv, Restart PROVE TrackerInv'
  OBVIOUS
<1> USE DEF TrackerInv
<1>1. CombinationsTypeOK'
  BY DEF CombinationsTypeOK, Restart, Untracked
<1>2. \A w \in PageViews : ~ Saving(w)' /\ pagePc'[w] # "saved"
  BY DEF Restart, Saving
<1>3. \A w \in PageViews : pagePc'[w] \in {"unsent", "begun"} => pagePc[w] = "unsent"
  BY DEF Restart
<1>4. ViewsTakeTurns' /\ ViewsKeepApart'
  BY <1>2, <1>3 DEF Restart, ViewsTakeTurns, ViewsKeepApart
<1>5. \A c \in Combos : lastTold'[c] \subseteq tracked'[c]
  BY DEF Restart, AnswersAreSaved, CombinationsTypeOK
<1>6. trackedFile' # Torn => trackedFile' = tracked'
  BY DEF Restart
<1>7. AnswersAreTracked' /\ SavedIsTracked' /\ AnswersAreSaved'
  BY <1>2, <1>5, <1>6 DEF AnswersAreTracked, SavedIsTracked, AnswersAreSaved
<1> QED BY <1>1, <1>4, <1>7

LEMMA NextKeepsTrackerInv == TrackerInv /\ [CombinationsNext]_combinationsVars => TrackerInv'
<1> SUFFICES ASSUME TrackerInv, [CombinationsNext]_combinationsVars PROVE TrackerInv'
  OBVIOUS
<1>1. CASE Age
  BY <1>1 DEF Age, TrackerInv, CombinationsTypeOK, ViewsTakeTurns, ViewsKeepApart,
         AnswersAreTracked, SavedIsTracked, AnswersAreSaved, Saving, Replaced
<1>2. CASE UNCHANGED combinationsVars
  BY <1>2 DEF combinationsVars, TrackerInv, CombinationsTypeOK, ViewsTakeTurns, ViewsKeepApart,
         AnswersAreTracked, SavedIsTracked, AnswersAreSaved, Saving, Replaced
<1> QED BY <1>1, <1>2, BeginPageKeeps, AnswerNoRecipeKeeps, TrackKeeps, SaveKeeps,
           CleanTrackedKeeps, AnswerPageKeeps, FailPageKeeps, RestartKeeps DEF CombinationsNext

THEOREM TrackerInvariance == CombinationsSpec => []TrackerInv
BY InitTrackerInv, NextKeepsTrackerInv, PTL DEF CombinationsSpec

(***************************************************************************)
(* LowerPagesAreExcluded, for any numbers of requests and recipes: no page *)
(* proposes what a lower page had last answered, over crashes and restarts *)
(* at any point of saving the tracker's file.                              *)
(***************************************************************************)
THEOREM LowerPagesHold == CombinationsSpec => []LowerPagesAreExcluded
<1>1. TrackerInv => LowerPagesAreExcluded
  BY DEF TrackerInv, ViewsKeepApart, LowerPagesAreExcluded
<1> QED BY <1>1, TrackerInvariance, PTL
-----------------------------------------------------------------------------
\* What a recipe's materials are said to be.

\* The material of a product that was bought, or else is in the cart.
StatusIn(owned, cart, material) ==
    IF Names(owned, material) # {} THEN "owned"
    ELSE IF Names(cart, material) # {} THEN "cart" ELSE "not_owned"

ListedBy(k) == {MaterialsOf[j] : j \in 1..k}

MaterialSet == ToSet(MaterialsOf)

Marks == [MaterialSet -> Statuses]

Unmarked == [n \in MaterialSet |-> "not_owned"]

MarkRow(owned, cart) ==
    [p \in (1..Len(MaterialsOf)) \X Marks |-> MarkMaterial(owned, cart, p[2], MaterialsOf[p[1]])]

LEMMA MaterialsAreListed ==
    /\ DOMAIN MaterialsOf = 1..Len(MaterialsOf) /\ Len(MaterialsOf) \in Nat
    /\ IsFiniteSet(MaterialSet)
    /\ \A k \in 1..Len(MaterialsOf) : MaterialsOf[k] \in MaterialSet
    /\ ListedBy(0) = {} /\ ListedBy(Len(MaterialsOf)) = MaterialSet
    /\ \A k \in 1..Len(MaterialsOf) : ListedBy(k) = ListedBy(k - 1) \cup {MaterialsOf[k]}
<1>1. /\ DOMAIN MaterialsOf = 1..Len(MaterialsOf) /\ Len(MaterialsOf) \in Nat
      /\ IsFiniteSet(MaterialSet)
  BY IngredientStatusParameters, ElementsAreFinite DEF MaterialSet
<1>2. \A k \in 1..Len(MaterialsOf) : MaterialsOf[k] \in MaterialSet
  BY <1>1 DEF MaterialSet, ToSet
<1>3. ListedBy(0) = {} /\ ListedBy(Len(MaterialsOf)) = MaterialSet
  BY <1>1 DEF ListedBy, MaterialSet, ToSet
<1>4. \A k \in 1..Len(MaterialsOf) : ListedBy(k) = ListedBy(k - 1) \cup {MaterialsOf[k]}
  <2> SUFFICES ASSUME NEW k \in 1..Len(MaterialsOf)
               PROVE  ListedBy(k) = ListedBy(k - 1) \cup {MaterialsOf[k]}
    OBVIOUS
  <2>1. 1..k = (1..(k - 1)) \cup {k}
    BY <1>1
  <2> QED BY <2>1 DEF ListedBy
<1> QED BY <1>1, <1>2, <1>3, <1>4

LEMMA MarkedAs ==
    ASSUME NEW owned, NEW cart, NEW marks \in Marks, NEW material \in MaterialSet
    PROVE  MarkMaterial(owned, cart, marks, material) =
             [n \in MaterialSet |-> IF n = material THEN StatusIn(owned, cart, n) ELSE marks[n]]
<1>1. DOMAIN marks = MaterialSet
  BY DEF Marks
<1>2. ASSUME NEW n \in MaterialSet
      PROVE  (IF n # material THEN marks[n]
              ELSE CASE Names(owned, n) # {} -> "owned"
                     [] Names(owned, n) = {} /\ Names(cart, n) # {} -> "cart"
                     [] OTHER -> "not_owned")
             = (IF n = material THEN StatusIn(owned, cart, n) ELSE marks[n])
  BY DEF StatusIn
<1> QED BY <1>1, <1>2 DEF MarkMaterial

LEMMA MarkRowType ==
    ASSUME NEW owned, NEW cart
    PROVE  Unmarked \in Marks
           /\ MarkRow(owned, cart) \in [(1..Len(MaterialsOf)) \X Marks -> Marks]
<1>1. ASSUME NEW p \in (1..Len(MaterialsOf)) \X Marks
      PROVE  MarkMaterial(owned, cart, p[2], MaterialsOf[p[1]]) \in Marks
  <2>1. p[2] \in Marks /\ MaterialsOf[p[1]] \in MaterialSet
    BY MaterialsAreListed
  <2>2. MarkMaterial(owned, cart, p[2], MaterialsOf[p[1]]) =
          [n \in MaterialSet |-> IF n = MaterialsOf[p[1]] THEN StatusIn(owned, cart, n) ELSE p[2][n]]
    BY <2>1, MarkedAs
  <2> QED BY <2>1, <2>2 DEF Marks, StatusIn, Statuses
<1>2. MarkRow(owned, cart) \in [(1..Len(MaterialsOf)) \X Marks -> Marks]
  BY <1>1 DEF MarkRow
<1> QED BY <1>2 DEF Unmarked, Marks, Statuses

\* The fold, from the left, of the rows.
LEMMA MarkAllFolds ==
    ASSUME NEW owned, NEW cart
    PROVE  \E g \in [SUBSET (1..Len(MaterialsOf)) -> Marks] :
               /\ FoldsLeft(g, Len(MaterialsOf), Unmarked, MarkRow(owned, cart))
               /\ MarkAll(owned, cart) = g[1..Len(MaterialsOf)]
<1> DEFINE D == DOMAIN MaterialsOf
           size == Len(MaterialsOf)
           Step(g) == [s \in SUBSET D |-> IF s = {} THEN [n \in ToSet(MaterialsOf) |-> "not_owned"]
                         ELSE MarkMaterial(owned, cart, g[s \ {Max(s)}], MaterialsOf[Max(s)])]
           marks == CHOOSE g : g = Step(g)
<1>0. D = 1..size /\ size \in Nat
  BY MaterialsAreListed
<1>1. MarkAll(owned, cart) = marks[D]
  BY DEF MarkAll, FoldLeft, MapThenFoldSet
<1>2. PICK g : g \in [SUBSET (1..size) -> Marks]
               /\ FoldsLeft(g, size, Unmarked, MarkRow(owned, cart))
  BY <1>0, MarkRowType, FoldsLeftExists
<1>3. \A s \in SUBSET D : s # {} => GreatestOf(size)[s] = Max(s) /\ Max(s) \in D
  BY <1>0, GreatestIsMax
<1> HIDE DEF size, D
<1>4. g = Step(g)
  <2>1. ASSUME NEW s \in SUBSET D, s # {}
        PROVE  g[s] = MarkMaterial(owned, cart, g[s \ {Max(s)}], MaterialsOf[Max(s)])
    <3>1. <<Max(s), g[s \ {Max(s)}]>> \in (1..size) \X Marks
      BY <1>0, <1>2, <1>3, <2>1
    <3>2. g[s] = MarkRow(owned, cart)[<<Max(s), g[s \ {Max(s)}]>>]
      BY <1>0, <1>2, <1>3, <2>1 DEF FoldsLeft
    <3> QED BY <3>1, <3>2 DEF MarkRow, size
  <2>2. g[{}] = [n \in ToSet(MaterialsOf) |-> "not_owned"]
    BY <1>2 DEF FoldsLeft, Unmarked, MaterialSet
  <2>3. g = [s \in SUBSET D |-> g[s]]
    BY <1>0, <1>2
  <2>4. \A s \in SUBSET D : g[s] = Step(g)[s]
    BY <2>1, <2>2
  <2> QED BY <2>3, <2>4
<1>5. marks = Step(marks)
  <2> HIDE DEF Step
  <2> QED BY <1>4
<1> HIDE DEF marks
<1>6. g[1..size] = marks[1..size]
  <2>1. g[{}] = marks[{}]
    BY <1>4, <1>5
  <2>2. ASSUME NEW s \in SUBSET D, s # {},
               g[s \ {GreatestOf(size)[s]}] = marks[s \ {GreatestOf(size)[s]}]
        PROVE  g[s] = marks[s]
    <3>1. g[s] = MarkMaterial(owned, cart, g[s \ {Max(s)}], MaterialsOf[Max(s)])
      BY <1>4, <2>2
    <3>2. marks[s] = MarkMaterial(owned, cart, marks[s \ {Max(s)}], MaterialsOf[Max(s)])
      BY <1>5, <2>2
    <3> QED BY <1>3, <2>2, <3>1, <3>2
  <2>3. \A s \in SUBSET (1..size) :
          s # {} /\ g[s \ {GreatestOf(size)[s]}] = marks[s \ {GreatestOf(size)[s]}]
            => g[s] = marks[s]
    BY <1>0, <2>2
  <2> QED BY <1>0, <2>1, <2>3, FoldsLeftIsUnique
<1> QED BY <1>0, <1>1, <1>2, <1>6 DEF size

\* A material that is listed twice is marked alike both times.
LEMMA AllAreMarked ==
    ASSUME NEW owned, NEW cart
    PROVE  MarkAll(owned, cart) = [n \in MaterialSet |-> StatusIn(owned, cart, n)]
<1> DEFINE size == Len(MaterialsOf)
<1>0. size \in Nat
  BY MaterialsAreListed
<1>1. PICK g \in [SUBSET (1..size) -> Marks] :
               /\ FoldsLeft(g, size, Unmarked, MarkRow(owned, cart))
               /\ MarkAll(owned, cart) = g[1..size]
  BY MarkAllFolds
<1>2. /\ g[1..0] = Unmarked
      /\ \A k \in 1..size : g[1..k] = MarkRow(owned, cart)[<<k, g[1..(k - 1)]>>]
      /\ \A k \in 0..size : g[1..k] \in Marks
  BY <1>0, <1>1, MarkRowType, FoldsLeftSteps
<1> DEFINE MarkedUpTo(k) ==
             [n \in MaterialSet |->
                IF n \in ListedBy(k) THEN StatusIn(owned, cart, n) ELSE "not_owned"]
           P == {k \in 0..size : g[1..k] = MarkedUpTo(k)}
<1>3. 0 \in P
  BY <1>0, <1>2, MaterialsAreListed DEF Unmarked
<1>4. ASSUME NEW k \in 1..size, k - 1 \in P PROVE k \in P
  <2> DEFINE marks == g[1..(k - 1)]
             row == MaterialsOf[k]
  <2>1. marks \in Marks /\ row \in MaterialSet
    BY <1>0, <1>2, MaterialsAreListed
  <2>2. g[1..k] = MarkMaterial(owned, cart, marks, row)
    BY <1>2, <2>1 DEF MarkRow
  <2>3. g[1..k] = [n \in MaterialSet |-> IF n = row THEN StatusIn(owned, cart, n) ELSE marks[n]]
    <3> HIDE DEF marks, row
    <3> QED BY <2>1, <2>2, MarkedAs
  <2>4. marks = MarkedUpTo(k - 1)
    BY <1>4
  <2>5. ListedBy(k) = ListedBy(k - 1) \cup {MaterialsOf[k]}
    BY MaterialsAreListed
  <2>6. g[1..k] = MarkedUpTo(k)
    BY <2>3, <2>4, <2>5
  <2> QED BY <1>0, <2>6
<1>5. size \in P
  <2> HIDE DEF P, size
  <2>1. \A k \in 0..size : k \in P
    BY <1>0, <1>3, <1>4, NumbersUpTo
  <2> QED BY <1>0, <2>1
<1>6. g[1..size] = MarkedUpTo(size)
  BY <1>5
<1> QED BY <1>1, <1>6, MaterialsAreListed

LEMMA CountsAddUp ==
    ASSUME NEW marks \in Marks
    PROVE  Count(marks, "owned") + Count(marks, "cart") + Count(marks, "not_owned")
             = Cardinality(MaterialSet)
<1> DEFINE A == {n \in MaterialSet : marks[n] = "owned"}
           B == {n \in MaterialSet : marks[n] = "cart"}
           C == {n \in MaterialSet : marks[n] = "not_owned"}
<1>1. /\ A \cap B = {} /\ (A \cup B) \cap C = {} /\ (A \cup B) \cup C = MaterialSet
      /\ A \in SUBSET MaterialSet /\ B \in SUBSET MaterialSet /\ C \in SUBSET MaterialSet
  BY DEF Marks, Statuses
<1>2. /\ Count(marks, "owned") = Cardinality(A)
      /\ Count(marks, "cart") = Cardinality(B)
      /\ Count(marks, "not_owned") = Cardinality(C)
  BY DEF Count, Marks
<1> HIDE DEF A, B, C
<1>3. IsFiniteSet(A) /\ IsFiniteSet(B) /\ IsFiniteSet(C)
  BY <1>1, MaterialsAreListed, FS_Subset
<1>4. Cardinality({}) = 0
  BY FS_EmptySet
<1>5. IsFiniteSet(A \cup B) /\ Cardinality(A \cup B) = Cardinality(A) + Cardinality(B) - 0
  BY <1>1, <1>3, <1>4, FS_Union
<1>6. Cardinality((A \cup B) \cup C) = Cardinality(A \cup B) + Cardinality(C) - 0
  BY <1>1, <1>3, <1>4, <1>5, FS_Union
<1>7. Cardinality(A) \in Nat /\ Cardinality(B) \in Nat /\ Cardinality(C) \in Nat
  BY <1>3, FS_CardinalityType
<1>8. Cardinality(MaterialSet) = (Cardinality(A) + Cardinality(B) - 0) + Cardinality(C) - 0
  BY <1>1, <1>5, <1>6
<1>9. Cardinality(A) + Cardinality(B) + Cardinality(C)
        = (Cardinality(A) + Cardinality(B) - 0) + Cardinality(C) - 0
  BY <1>7
<1> QED BY <1>2, <1>8, <1>9

\* A request sees the tables as they were at one of its moments, and has no
\* answer before it is done.
RequestsSeeOneMoment ==
    /\ status = [v \in StatusViews |-> status[v]]
    /\ \A v \in StatusViews :
        /\ statusPc[v] \in {"begun", "ordered"} => snapshot[v] \in moments[v]
        /\ statusPc[v] = "ordered" => ordersRead[v] = snapshot[v].bought
        /\ statusPc[v] \in {"unsent", "begun", "ordered"} => status[v] = NoAnswer

StatusInv == IngredientStatusTypeOK /\ RequestsSeeOneMoment /\ StatusOfOneMoment

LEMMA InitStatusInv == IngredientStatusInit => StatusInv
  BY DEF IngredientStatusInit, StatusInv, IngredientStatusTypeOK, RequestsSeeOneMoment,
         StatusOfOneMoment, Now, NoTables, Tables

LEMMA BecomesKeeps ==
    ASSUME StatusInv, NEW newBought \in SUBSET Goods, NEW newCart \in SUBSET Goods,
           Becomes(newBought, newCart)
    PROVE  StatusInv'
<1> USE DEF StatusInv
<1>1. Now' \in Tables
  BY DEF Becomes, Now, Tables
<1>2. moments' \in [StatusViews -> SUBSET Tables]
      /\ \A v \in StatusViews : moments[v] \subseteq moments'[v]
  BY <1>1 DEF Becomes, IngredientStatusTypeOK
<1>3. IngredientStatusTypeOK'
  BY <1>1, <1>2 DEF Becomes, IngredientStatusTypeOK
<1>4. RequestsSeeOneMoment'
  BY <1>2 DEF Becomes, RequestsSeeOneMoment
<1>5. StatusOfOneMoment'
  BY <1>2 DEF Becomes, StatusOfOneMoment
<1> QED BY <1>3, <1>4, <1>5

LEMMA ReadCartKeeps == ASSUME StatusInv, NEW v \in StatusViews, ReadCart(v) PROVE StatusInv'
<1> USE DEF StatusInv
<1> DEFINE marks == MarkAll(ordersRead[v], CartSeen(v))
           counts == [kind \in Statuses |-> Count(marks, kind)]
<1>1. marks = [n \in MaterialSet |-> StatusIn(ordersRead[v], CartSeen(v), n)]
  BY AllAreMarked
<1>2. marks \in Marks
  BY <1>1 DEF Marks, StatusIn, Statuses
<1>3. status' = [status EXCEPT ![v] = StatusAnswer(marks, counts)]
  BY DEF ReadCart
<1>4. counts["owned"] + counts["cart"] + counts["not_owned"] = Cardinality(MaterialSet)
  BY <1>2, CountsAddUp DEF Statuses
<1>5. \A n \in MaterialSet : marks[n] = Truth(snapshot[v], n)
  <2>1. ordersRead[v] = snapshot[v].bought /\ CartSeen(v) = snapshot[v].inCart
    BY DEF ReadCart, RequestsSeeOneMoment, CartSeen
  <2> QED BY <1>1, <2>1 DEF StatusIn, Truth, Names
<1>6. snapshot[v] \in moments[v] /\ moments' = moments /\ v \in DOMAIN status
  BY DEF ReadCart, RequestsSeeOneMoment
<1> HIDE DEF marks, counts
<1>7. status'[v].statusOf = marks /\ status'[v].counts = counts
      /\ \A w \in StatusViews : w # v => status'[w] = status[w]
  BY <1>3, <1>6 DEF StatusAnswer
<1>8. IngredientStatusTypeOK'
  <2>1. \A w \in StatusViews : (status[w] # NoAnswer)' =>
          status'[w].statusOf \in [ToSet(MaterialsOf) -> Statuses]
    BY <1>2, <1>7 DEF IngredientStatusTypeOK, Marks, MaterialSet
  <2> QED BY <2>1 DEF IngredientStatusTypeOK, ReadCart, Now
<1>9. RequestsSeeOneMoment'
  <2>1. status' = [w \in StatusViews |-> status'[w]]
    BY <1>3 DEF RequestsSeeOneMoment
  <2>2. statusPc' = [statusPc EXCEPT ![v] = "done"] /\ UNCHANGED <<snapshot, ordersRead>>
    BY DEF ReadCart
  <2> QED BY <1>6, <1>7, <2>1, <2>2 DEF RequestsSeeOneMoment, IngredientStatusTypeOK
<1>10. StatusOfOneMoment'
  <2> SUFFICES ASSUME NEW w \in StatusViews, status'[w] # NoAnswer
               PROVE  /\ \E tables \in moments'[w] : \A n \in ToSet(MaterialsOf) :
                             status'[w].statusOf[n] = Truth(tables, n)
                      /\ status'[w].counts["owned"] + status'[w].counts["cart"]
                           + status'[w].counts["not_owned"] = Cardinality(ToSet(MaterialsOf))
    BY DEF StatusOfOneMoment
  <2>1. CASE w = v
    BY <1>4, <1>5, <1>6, <1>7, <2>1 DEF MaterialSet
  <2>2. CASE w # v
    BY <1>6, <1>7, <2>2 DEF StatusOfOneMoment
  <2> QED BY <2>1, <2>2
<1> QED BY <1>8, <1>9, <1>10

LEMMA NextKeepsStatusInv ==
    StatusInv /\ [IngredientStatusNext]_ingredientStatusVars => StatusInv'
<1> SUFFICES ASSUME StatusInv, [IngredientStatusNext]_ingredientStatusVars PROVE StatusInv'
  OBVIOUS
<1>0. bought \in SUBSET Goods /\ inCart \in SUBSET Goods /\ Now \in Tables
  BY DEF StatusInv, IngredientStatusTypeOK, Now, Tables
<1>1. CASE PutInCart
  <2> PICK p \in Goods \ inCart : Becomes(bought, inCart \cup {p})
    BY <1>1 DEF PutInCart
  <2> QED BY <1>0, BecomesKeeps
<1>2. CASE TakeFromCart
  <2> PICK p \in inCart : Becomes(bought, inCart \ {p})
    BY <1>2 DEF TakeFromCart
  <2> QED BY <1>0, BecomesKeeps
<1>3. CASE OrderCart
  <2> PICK p \in inCart : Becomes(bought \cup {p}, inCart \ {p})
    BY <1>3 DEF OrderCart
  <2> QED BY <1>0, BecomesKeeps
<1>4. CASE LoseOrder
  <2> PICK p \in bought : Becomes(bought \ {p}, inCart)
    BY <1>4 DEF LoseOrder
  <2> QED BY <1>0, BecomesKeeps
<1>5. ASSUME NEW v \in StatusViews, ReadMaterials(v) PROVE StatusInv'
  <2> USE DEF StatusInv
  <2>1. IngredientStatusTypeOK'
    BY <1>0, <1>5 DEF ReadMaterials, IngredientStatusTypeOK, Now
  <2>2. RequestsSeeOneMoment'
    BY <1>5 DEF ReadMaterials, RequestsSeeOneMoment, IngredientStatusTypeOK
  <2>3. \A w \in StatusViews : status'[w] # NoAnswer => moments'[w] = moments[w]
    BY <1>5 DEF ReadMaterials, RequestsSeeOneMoment, IngredientStatusTypeOK
  <2>4. StatusOfOneMoment'
    BY <1>5, <2>3 DEF ReadMaterials, StatusOfOneMoment
  <2> QED BY <2>1, <2>2, <2>4
<1>6. ASSUME NEW v \in StatusViews, ReadOrders(v) PROVE StatusInv'
  <2> USE DEF StatusInv
  <2>1. IngredientStatusTypeOK'
    BY <1>6 DEF ReadOrders, IngredientStatusTypeOK, Now, Tables
  <2>2. RequestsSeeOneMoment'
    BY <1>6 DEF ReadOrders, RequestsSeeOneMoment, IngredientStatusTypeOK
  <2>3. StatusOfOneMoment'
    BY <1>6 DEF ReadOrders, StatusOfOneMoment
  <2> QED BY <2>1, <2>2, <2>3
<1>7. ASSUME NEW v \in StatusViews, ReadCart(v) PROVE StatusInv'
  BY <1>7, ReadCartKeeps
<1>8. ASSUME NEW v \in StatusViews, FailStatus(v) PROVE StatusInv'
  BY <1>8 DEF FailStatus, StatusInv, IngredientStatusTypeOK, RequestsSeeOneMoment,
              StatusOfOneMoment, Now
<1>9. CASE UNCHANGED ingredientStatusVars
  BY <1>9 DEF ingredientStatusVars, StatusInv, IngredientStatusTypeOK, RequestsSeeOneMoment,
              StatusOfOneMoment, Now
<1> QED BY <1>1, <1>2, <1>3, <1>4, <1>5, <1>6, <1>7, <1>8, <1>9 DEF IngredientStatusNext

THEOREM StatusInvariance == IngredientStatusSpec => []StatusInv
BY InitStatusInv, NextKeepsStatusInv, PTL DEF IngredientStatusSpec

(***************************************************************************)
(* StatusOfOneMoment, for any numbers of materials, products and requests: *)
(* an answer was true of all materials together at one moment, however the *)
(* cart and the orders changed meanwhile, and its counts add up.           *)
(***************************************************************************)
THEOREM StatusHolds == IngredientStatusSpec => []StatusOfOneMoment
<1>1. StatusInv => StatusOfOneMoment
  BY DEF StatusInv
<1> QED BY <1>1, StatusInvariance, PTL
-----------------------------------------------------------------------------
\* What an inventory is spent on.

PoolRecipes == DOMAIN Pool

Stocks == [Ingredients -> Int]

Uses == [Ingredients -> Nat]

ChosenRecipe == [recipe : PoolRecipes, used : Uses, spent : Stocks, count : Nat]

\* Nothing is chosen before the request; what is chosen adds up with what is left.
ChoicesAddUp ==
    /\ chosen \in Seq(ChosenRecipe)
    /\ stopped = "unsent" => chosen = <<>>
    /\ \A i \in Ingredients : stock[i] + UsedOf(i) = given[i]
    /\ \A i \in Ingredients : given[i] >= 0 => stock[i] >= 0
    /\ \A m, n \in DOMAIN chosen : chosen[m].recipe = chosen[n].recipe => m = n

\* What a recipe is said to use is what it takes, for materials it lists once.
UsesAreTold(recipe, used, spent, count) ==
    /\ \A i \in Ingredients : ListsOnce(recipe, i) => used[i] = spent[i]
    /\ Cardinality({i \in Ingredients : used[i] > 0}) \in 0..count
    /\ (\A i \in Ingredients : ListsOnce(recipe, i)) =>
          Cardinality({i \in Ingredients : used[i] > 0}) = count

ChoicesAreTold ==
    \A n \in DOMAIN chosen :
        UsesAreTold(chosen[n].recipe, chosen[n].used, chosen[n].spent, chosen[n].count)

\* No recipe that is left uses more rows than any that was chosen.
ChoicesDescend ==
    /\ \A m, n \in DOMAIN chosen : m < n => chosen[m].count >= chosen[n].count
    /\ \A r \in Candidates : \A n \in DOMAIN chosen : Score(r).count <= chosen[n].count
    /\ stopped = "exhausted" => \A r \in Candidates : Score(r).count = 0

InventoryInv == InventoryTypeOK /\ ChoicesAddUp /\ ChoicesAreTold /\ ChoicesDescend

\* What scoring a recipe goes through.
Scores == [left : Stocks, used : Uses, count : Nat, total : Nat]

Unscored(left) == [left |-> left, used |-> NotUsed, count |-> 0, total |-> 0]

UseRow(units, r) ==
    [p \in (1..Len(Pool[r])) \X Scores |-> UseMaterial(units, p[2], Pool[r][p[1]])]

LEMMA PoolRows ==
    ASSUME NEW r \in PoolRecipes
    PROVE  /\ DOMAIN Pool[r] = 1..Len(Pool[r]) /\ Len(Pool[r]) \in Nat
           /\ \A k \in 1..Len(Pool[r]) : Pool[r][k].amount \in Nat
  BY InventoryParameters, ElementsAreFinite DEF PoolRecipes

\* What a row takes of its material: what there is of it, at most.
TakenOf(score, m) ==
    IF score.left[m.name] >= m.amount THEN m.amount ELSE score.left[m.name]

OneRowMore(next, score, m) ==
    /\ m.name \in Ingredients
    /\ TakenOf(score, m) \in 1..score.left[m.name]
    /\ next \in Scores
    /\ next.count = score.count + 1
    /\ next.left = [score.left EXCEPT ![m.name] = @ - TakenOf(score, m)]
    /\ next.used = [score.used EXCEPT ![m.name] = TakenOf(score, m)]

LEMMA UseSome ==
    ASSUME NEW units, NEW score \in Scores, NEW m, m.amount \in Nat,
           Usable(units, score.left, m)
    PROVE  OneRowMore(UseMaterial(units, score, m), score, m)
<1> DEFINE next == UseMaterial(units, score, m)
           amount == TakenOf(score, m)
<1>1. m.name \in Ingredients /\ score.left[m.name] \in Nat \ {0} /\ m.amount > 0
      /\ score.left \in Stocks /\ score.used \in Uses
      /\ score.count \in Nat /\ score.total \in Nat
  BY DEF Usable, Scores, Stocks
<1>2. amount \in 1..score.left[m.name]
  BY <1>1 DEF TakenOf
<1>3. next = [left |-> [score.left EXCEPT ![m.name] = @ - amount],
              used |-> [score.used EXCEPT ![m.name] = amount],
              count |-> score.count + 1, total |-> score.total + amount]
  BY DEF UseMaterial, TakenOf
<1> HIDE DEF amount, next
<1>4. score.left[m.name] - amount \in Nat /\ amount \in Nat
  BY <1>1, <1>2
<1>5. [score.left EXCEPT ![m.name] = @ - amount] \in Stocks
      /\ [score.used EXCEPT ![m.name] = amount] \in Uses
  BY <1>1, <1>4 DEF Stocks, Uses
<1>6. score.count + 1 \in Nat /\ score.total + amount \in Nat
  BY <1>1, <1>4
<1>7. next \in Scores
  BY <1>3, <1>5, <1>6 DEF Scores
<1>8. /\ next.count = score.count + 1
      /\ next.left = [score.left EXCEPT ![m.name] = @ - amount]
      /\ next.used = [score.used EXCEPT ![m.name] = amount]
  BY <1>3
<1> QED BY <1>1, <1>2, <1>7, <1>8 DEF next, amount, OneRowMore

LEMMA UseNothing ==
    ASSUME NEW units, NEW score, NEW m, ~ Usable(units, score.left, m)
    PROVE  UseMaterial(units, score, m) = score
  BY DEF UseMaterial

LEMMA UseRowType ==
    ASSUME NEW units, NEW left \in Stocks, NEW r \in PoolRecipes
    PROVE  /\ Unscored(left) \in Scores
           /\ UseRow(units, r) \in [(1..Len(Pool[r])) \X Scores -> Scores]
<1>1. ASSUME NEW p \in (1..Len(Pool[r])) \X Scores
      PROVE  UseMaterial(units, p[2], Pool[r][p[1]]) \in Scores
  <2> DEFINE score == p[2]
             m == Pool[r][p[1]]
  <2>1. score \in Scores /\ m.amount \in Nat
    BY PoolRows
  <2>2. UseMaterial(units, score, m) \in Scores
    <3> HIDE DEF score, m
    <3>1. CASE Usable(units, score.left, m)
      BY <2>1, <3>1, UseSome DEF OneRowMore
    <3>2. CASE ~ Usable(units, score.left, m)
      BY <2>1, <3>2, UseNothing
    <3> QED BY <3>1, <3>2
  <2> QED BY <2>2
<1>2. UseRow(units, r) \in [(1..Len(Pool[r])) \X Scores -> Scores]
  BY <1>1 DEF UseRow
<1>3. Unscored(left) \in Scores
  BY DEF Unscored, Scores, NotUsed, Uses
<1> QED BY <1>2, <1>3

IsScoring(g, units, left, r) ==
    /\ g \in [SUBSET (1..Len(Pool[r])) -> Scores]
    /\ FoldsLeft(g, Len(Pool[r]), Unscored(left), UseRow(units, r))
    /\ ScoreFrom(units, left, r) = g[1..Len(Pool[r])]

\* The fold, from the left, of the rows.
LEMMA ScoreFolds ==
    ASSUME NEW units, NEW left \in Stocks, NEW r \in PoolRecipes
    PROVE  \E g : IsScoring(g, units, left, r)
<1> DEFINE D == DOMAIN Pool[r]
           size == Len(Pool[r])
           Step(g) == [s \in SUBSET D |->
                         IF s = {} THEN [left |-> left, used |-> NotUsed, count |-> 0, total |-> 0]
                         ELSE UseMaterial(units, g[s \ {Max(s)}], Pool[r][Max(s)])]
           score == CHOOSE g : g = Step(g)
<1>0. D = 1..size /\ size \in Nat
  BY PoolRows
<1>1. ScoreFrom(units, left, r) = score[D]
  BY DEF ScoreFrom, FoldLeft, MapThenFoldSet
<1>2. PICK g : g \in [SUBSET (1..size) -> Scores]
               /\ FoldsLeft(g, size, Unscored(left), UseRow(units, r))
  BY <1>0, UseRowType, FoldsLeftExists
<1>3. \A s \in SUBSET D : s # {} => GreatestOf(size)[s] = Max(s) /\ Max(s) \in D
  BY <1>0, GreatestIsMax
<1> HIDE DEF size, D
<1>4. g = Step(g)
  <2>1. ASSUME NEW s \in SUBSET D, s # {}
        PROVE  g[s] = UseMaterial(units, g[s \ {Max(s)}], Pool[r][Max(s)])
    <3>1. <<Max(s), g[s \ {Max(s)}]>> \in (1..size) \X Scores
      BY <1>0, <1>2, <1>3, <2>1
    <3>2. g[s] = UseRow(units, r)[<<Max(s), g[s \ {Max(s)}]>>]
      BY <1>0, <1>2, <1>3, <2>1 DEF FoldsLeft
    <3> QED BY <3>1, <3>2 DEF UseRow, size
  <2>2. g[{}] = [left |-> left, used |-> NotUsed, count |-> 0, total |-> 0]
    BY <1>2 DEF FoldsLeft, Unscored
  <2>3. g = [s \in SUBSET D |-> g[s]]
    BY <1>0, <1>2
  <2>4. \A s \in SUBSET D : g[s] = Step(g)[s]
    BY <2>1, <2>2
  <2> QED BY <2>3, <2>4
<1>5. score = Step(score)
  <2> HIDE DEF Step
  <2> QED BY <1>4
<1> HIDE DEF score
<1>6. g[1..size] = score[1..size]
  <2>1. g[{}] = score[{}]
    BY <1>4, <1>5
  <2>2. ASSUME NEW s \in SUBSET D, s # {},
               g[s \ {GreatestOf(size)[s]}] = score[s \ {GreatestOf(size)[s]}]
        PROVE  g[s] = score[s]
    <3>1. g[s] = UseMaterial(units, g[s \ {Max(s)}], Pool[r][Max(s)])
      BY <1>4, <2>2
    <3>2. score[s] = UseMaterial(units, score[s \ {Max(s)}], Pool[r][Max(s)])
      BY <1>5, <2>2
    <3> QED BY <1>3, <2>2, <3>1, <3>2
  <2>3. \A s \in SUBSET (1..size) :
          s # {} /\ g[s \ {GreatestOf(size)[s]}] = score[s \ {GreatestOf(size)[s]}]
            => g[s] = score[s]
    BY <1>0, <2>2
  <2> QED BY <1>0, <2>1, <2>3, FoldsLeftIsUnique
<1> QED BY <1>0, <1>1, <1>2, <1>6 DEF size, IsScoring

\* The scores on the way, row by row.
ScoredOnTheWay(at, units, left, r) ==
    /\ at \in [0..Len(Pool[r]) -> Scores]
    /\ at[0] = Unscored(left)
    /\ \A k \in 1..Len(Pool[r]) : at[k] = UseMaterial(units, at[k - 1], Pool[r][k])
    /\ at[Len(Pool[r])] = ScoreFrom(units, left, r)

LEMMA ScoreByRows ==
    ASSUME NEW units, NEW left \in Stocks, NEW r \in PoolRecipes
    PROVE  \E at : ScoredOnTheWay(at, units, left, r)
<1> DEFINE size == Len(Pool[r])
<1>0. size \in Nat
  BY PoolRows
<1>1. PICK g : IsScoring(g, units, left, r)
  BY ScoreFolds
<1> USE DEF IsScoring
<1>2. /\ g[1..0] = Unscored(left)
      /\ \A k \in 1..size : g[1..k] = UseRow(units, r)[<<k, g[1..(k - 1)]>>]
      /\ \A k \in 0..size : g[1..k] \in Scores
  BY <1>0, <1>1, UseRowType, FoldsLeftSteps
<1> DEFINE at == [k \in 0..size |-> g[1..k]]
<1>3. at \in [0..size -> Scores] /\ at[0] = Unscored(left)
      /\ at[size] = ScoreFrom(units, left, r)
  BY <1>0, <1>1, <1>2
<1>4. ASSUME NEW k \in 1..size PROVE at[k] = UseMaterial(units, at[k - 1], Pool[r][k])
  <2>1. k \in 0..size /\ k - 1 \in 0..size
    BY <1>0
  <2>2. at[k] = UseRow(units, r)[<<k, at[k - 1]>>] /\ at[k - 1] \in Scores
    BY <1>2, <2>1
  <2> HIDE DEF at
  <2> QED BY <2>2 DEF UseRow
<1> HIDE DEF at
<1> QED BY <1>3, <1>4 DEF ScoredOnTheWay

LEMMA ScoreType ==
    ASSUME NEW units, NEW left \in Stocks, NEW r \in PoolRecipes
    PROVE  ScoreFrom(units, left, r) \in Scores
<1>1. PICK at : ScoredOnTheWay(at, units, left, r)
  BY ScoreByRows
<1>2. Len(Pool[r]) \in 0..Len(Pool[r])
  BY PoolRows
<1> QED BY <1>1, <1>2 DEF ScoredOnTheWay

\* What the first k rows of a recipe have taken, and are said to use.
TakenByRows(score, left, r, k) ==
    \A i \in Ingredients :
        /\ score.left[i] <= left[i]
        /\ score.used[i] = 0 \/ score.used[i] <= left[i]
        /\ (\A j \in 1..k : Pool[r][j].name # i) => score.used[i] = 0 /\ score.left[i] = left[i]
        /\ ListsOnce(r, i) => score.used[i] + score.left[i] = left[i]

KindsOf(used) == {i \in Ingredients : used[i] > 0}

KindsAreCounted(score, r) ==
    /\ IsFiniteSet(KindsOf(score.used))
    /\ Cardinality(KindsOf(score.used)) <= score.count
    /\ (\A i \in Ingredients : ListsOnce(r, i)) => Cardinality(KindsOf(score.used)) = score.count

LEMMA RowTakes ==
    ASSUME NEW units, NEW left \in Stocks, NEW r \in PoolRecipes, NEW score \in Scores,
           NEW k \in 1..Len(Pool[r]), TakenByRows(score, left, r, k - 1),
           KindsAreCounted(score, r)
    PROVE  /\ TakenByRows(UseMaterial(units, score, Pool[r][k]), left, r, k)
           /\ KindsAreCounted(UseMaterial(units, score, Pool[r][k]), r)
<1> DEFINE m == Pool[r][k]
           next == UseMaterial(units, score, m)
<1>0. /\ m.amount \in Nat /\ DOMAIN Pool[r] = 1..Len(Pool[r]) /\ Len(Pool[r]) \in Nat
      /\ \A j \in 1..k : j \in 1..(k - 1) \/ j = k
      /\ \A j \in 1..(k - 1) : j \in 1..k /\ j # k /\ j \in DOMAIN Pool[r]
  BY PoolRows
<1>1. CASE ~ Usable(units, score.left, m)
  <2>1. next = score
    BY <1>1 DEF UseMaterial
  <2>2. TakenByRows(score, left, r, k)
    BY <1>0 DEF TakenByRows
  <2> QED BY <2>1, <2>2
<1>2. CASE Usable(units, score.left, m)
  <2> DEFINE amount == TakenOf(score, m)
  <2>0. OneRowMore(next, score, m)
    BY <1>0, <1>2, UseSome
  <2> HIDE DEF next
  <2>1. /\ m.name \in Ingredients /\ amount \in 1..score.left[m.name]
        /\ next.left = [score.left EXCEPT ![m.name] = @ - amount]
        /\ next.used = [score.used EXCEPT ![m.name] = amount]
        /\ next.count = score.count + 1
    BY <2>0 DEF OneRowMore
  <2> HIDE DEF amount
  <2>2. /\ score.left \in Stocks /\ score.used \in Uses /\ score.count \in Nat
        /\ score.left[m.name] \in Int /\ left[m.name] \in Int
    BY <2>1 DEF Scores, Stocks
  <2>3. /\ next.left[m.name] = score.left[m.name] - amount /\ next.used[m.name] = amount
        /\ \A i \in Ingredients \ {m.name} :
              next.left[i] = score.left[i] /\ next.used[i] = score.used[i]
    BY <2>1, <2>2 DEF Stocks, Uses
  <2>4. ListsOnce(r, m.name) => score.used[m.name] = 0 /\ score.left[m.name] = left[m.name]
    <3> SUFFICES ASSUME ListsOnce(r, m.name)
                 PROVE  \A j \in 1..(k - 1) : Pool[r][j].name # m.name
      BY <2>1 DEF TakenByRows
    <3> QED BY <1>0 DEF ListsOnce
  <2>5. TakenByRows(next, left, r, k)
    <3> SUFFICES ASSUME NEW i \in Ingredients
                 PROVE  /\ next.left[i] <= left[i]
                        /\ next.used[i] = 0 \/ next.used[i] <= left[i]
                        /\ (\A j \in 1..k : Pool[r][j].name # i) =>
                              next.used[i] = 0 /\ next.left[i] = left[i]
                        /\ ListsOnce(r, i) => next.used[i] + next.left[i] = left[i]
      BY DEF TakenByRows
    <3>1. CASE i # m.name
      <4>1. next.left[i] = score.left[i] /\ next.used[i] = score.used[i]
        BY <2>3, <3>1
      <4>2. /\ score.left[i] <= left[i]
            /\ score.used[i] = 0 \/ score.used[i] <= left[i]
            /\ (\A j \in 1..(k - 1) : Pool[r][j].name # i) =>
                  score.used[i] = 0 /\ score.left[i] = left[i]
            /\ ListsOnce(r, i) => score.used[i] + score.left[i] = left[i]
        BY DEF TakenByRows
      <4>3. (\A j \in 1..k : Pool[r][j].name # i) => \A j \in 1..(k - 1) : Pool[r][j].name # i
        BY <1>0
      <4> QED BY <4>1, <4>2, <4>3
    <3>2. CASE i = m.name
      <4>1. score.left[i] <= left[i]
        BY DEF TakenByRows
      <4>2. next.left[i] = score.left[i] - amount /\ next.used[i] = amount
        BY <2>3, <3>2
      <4>3. amount \in 1..score.left[i] /\ score.left[i] \in Int /\ left[i] \in Int
        BY <2>1, <2>2, <3>2
      <4>4. next.left[i] <= left[i] /\ next.used[i] <= left[i]
        BY <4>1, <4>2, <4>3
      <4>5. ~ \A j \in 1..k : Pool[r][j].name # i
        <5>1. k \in 1..k /\ Pool[r][k].name = i
          BY <3>2
        <5> QED BY <5>1
      <4>6. ListsOnce(r, i) => next.used[i] + next.left[i] = left[i]
        BY <2>4, <3>2, <4>2, <4>3
      <4> QED BY <4>4, <4>5, <4>6
    <3> QED BY <3>1, <3>2
  <2>6. KindsOf(next.used) = KindsOf(score.used) \cup {m.name}
    BY <2>1, <2>2, <2>3 DEF KindsOf
  <2>7. /\ IsFiniteSet(KindsOf(next.used))
        /\ Cardinality(KindsOf(next.used)) =
             IF m.name \in KindsOf(score.used) THEN Cardinality(KindsOf(score.used))
             ELSE Cardinality(KindsOf(score.used)) + 1
    <3> DEFINE K == KindsOf(score.used)
    <3>1. IsFiniteSet(K)
      BY DEF KindsAreCounted
    <3> HIDE DEF K, m
    <3>2. /\ IsFiniteSet(K \cup {m.name})
          /\ Cardinality(K \cup {m.name}) = IF m.name \in K THEN Cardinality(K)
                                            ELSE Cardinality(K) + 1
      BY <3>1, FS_AddElement
    <3> QED BY <2>6, <3>2 DEF K
  <2>8. Cardinality(KindsOf(score.used)) \in Nat
    BY FS_CardinalityType DEF KindsAreCounted
  <2>9. (\A i \in Ingredients : ListsOnce(r, i)) => m.name \notin KindsOf(score.used)
    BY <2>1, <2>4 DEF KindsOf
  <2>10. KindsAreCounted(next, r)
    BY <2>1, <2>2, <2>7, <2>8, <2>9 DEF KindsAreCounted
  <2> QED BY <2>5, <2>10 DEF next
<1> QED BY <1>1, <1>2

\* What a recipe takes, and that it is said to use what it takes.
LEMMA ScoreTakesWhatIsLeft ==
    ASSUME NEW units, NEW left \in Stocks, NEW r \in PoolRecipes
    PROVE  /\ TakenByRows(ScoreFrom(units, left, r), left, r, Len(Pool[r]))
           /\ KindsAreCounted(ScoreFrom(units, left, r), r)
<1> DEFINE size == Len(Pool[r])
<1>0. size \in Nat
  BY PoolRows
<1>1. PICK at : ScoredOnTheWay(at, units, left, r)
  BY ScoreByRows
<1> DEFINE P == {k \in 0..size : TakenByRows(at[k], left, r, k) /\ KindsAreCounted(at[k], r)}
<1>2. 0 \in P
  <2>1. at[0].left = left /\ at[0].used = NotUsed /\ at[0].count = 0
    BY <1>1 DEF ScoredOnTheWay, Unscored
  <2>2. TakenByRows(at[0], left, r, 0)
    BY <2>1 DEF TakenByRows, Stocks, NotUsed
  <2>3. KindsOf(at[0].used) = {}
    BY <2>1 DEF KindsOf, NotUsed
  <2>4. KindsAreCounted(at[0], r)
    BY <2>1, <2>3, FS_EmptySet DEF KindsAreCounted
  <2> QED BY <1>0, <2>2, <2>4
<1>3. ASSUME NEW k \in 1..size, k - 1 \in P PROVE k \in P
  <2>1. at[k - 1] \in Scores /\ k \in 0..size
    BY <1>0, <1>1 DEF ScoredOnTheWay
  <2>2. at[k] = UseMaterial(units, at[k - 1], Pool[r][k])
    BY <1>1 DEF ScoredOnTheWay
  <2>3. TakenByRows(at[k - 1], left, r, k - 1) /\ KindsAreCounted(at[k - 1], r)
    BY <1>3
  <2>4. TakenByRows(at[k], left, r, k) /\ KindsAreCounted(at[k], r)
    BY <2>1, <2>2, <2>3, RowTakes
  <2> QED BY <2>1, <2>4
<1>4. \A k \in 0..size : k \in P
  <2> HIDE DEF P, size
  <2> QED BY <1>0, <1>2, <1>3, NumbersUpTo
<1>5. size \in P
  BY <1>0, <1>4
<1> QED BY <1>1, <1>5 DEF ScoredOnTheWay

\* A recipe that uses no kind has a use for nothing.
LEMMA ScoreOfNothing ==
    ASSUME NEW units, NEW left \in Stocks, NEW r \in PoolRecipes,
           ScoreFrom(units, left, r).count = 0
    PROVE  \A k \in DOMAIN Pool[r] : ~ Usable(units, left, Pool[r][k])
<1> DEFINE size == Len(Pool[r])
<1>0. size \in Nat /\ DOMAIN Pool[r] = 1..size
  BY PoolRows
<1>1. PICK at : ScoredOnTheWay(at, units, left, r)
  BY ScoreByRows
<1> DEFINE P == {k \in 0..size : at[k].count = 0 =>
                     /\ at[k].left = left
                     /\ \A j \in 1..k : ~ Usable(units, left, Pool[r][j])}
<1>2. 0 \in P
  BY <1>0, <1>1 DEF ScoredOnTheWay, Unscored
<1>3. ASSUME NEW k \in 1..size, k - 1 \in P PROVE k \in P
  <2> DEFINE score == at[k - 1]
             m == Pool[r][k]
  <2>1. score \in Scores /\ m.amount \in Nat /\ k \in 0..size
    BY <1>0, <1>1, PoolRows DEF ScoredOnTheWay
  <2>2. at[k] = UseMaterial(units, score, m)
    BY <1>1 DEF ScoredOnTheWay
  <2>3. score.count = 0 =>
          score.left = left /\ \A j \in 1..(k - 1) : ~ Usable(units, left, Pool[r][j])
    BY <1>3
  <2>4. score.count \in Nat
    BY <2>1 DEF Scores
  <2>5. CASE ~ Usable(units, score.left, m)
    <3> HIDE DEF score
    <3>1. at[k] = score
      BY <2>2, <2>5 DEF UseMaterial
    <3>2. \A j \in 1..k : j \in 1..(k - 1) \/ j = k
      BY <1>0
    <3> QED BY <2>1, <2>3, <2>5, <3>1, <3>2
  <2>6. CASE Usable(units, score.left, m)
    <3> HIDE DEF score, m
    <3>0. OneRowMore(at[k], score, m)
      BY <2>1, <2>2, <2>6, UseSome
    <3>1. at[k].count = score.count + 1
      BY <3>0 DEF OneRowMore
    <3> QED BY <2>1, <2>4, <3>1
  <2> QED BY <2>5, <2>6
<1>4. \A k \in 0..size : k \in P
  <2> HIDE DEF P, size
  <2> QED BY <1>0, <1>2, <1>3, NumbersUpTo
<1>5. size \in P
  BY <1>0, <1>4
<1> QED BY <1>0, <1>1, <1>5 DEF ScoredOnTheWay

Within(left, more) == \A i \in Ingredients : left[i] <= more[i]

LEMMA UseOneOfMore ==
    ASSUME NEW units, NEW m, m.amount \in Nat, NEW a \in Scores, NEW b \in Scores,
           Within(a.left, b.left), a.count <= b.count
    PROVE  /\ Within(UseMaterial(units, a, m).left, UseMaterial(units, b, m).left)
           /\ UseMaterial(units, a, m).count <= UseMaterial(units, b, m).count
<1>0. /\ a.left \in Stocks /\ b.left \in Stocks
      /\ a.count \in Nat /\ b.count \in Nat
  BY DEF Scores
<1> DEFINE na == UseMaterial(units, a, m)
           nb == UseMaterial(units, b, m)
<1>1. CASE Usable(units, a.left, m)
  <2>1. m.name \in Ingredients
    BY <1>1 DEF Usable
  <2>2. Usable(units, b.left, m)
    BY <1>0, <1>1, <2>1 DEF Usable, Within, Stocks
  <2>0. OneRowMore(na, a, m) /\ OneRowMore(nb, b, m)
    BY <1>1, <2>2, UseSome
  <2> HIDE DEF na, nb
  <2>3. na.count = a.count + 1 /\ na.left = [a.left EXCEPT ![m.name] = @ - TakenOf(a, m)]
    BY <2>0 DEF OneRowMore
  <2>4. nb.count = b.count + 1 /\ nb.left = [b.left EXCEPT ![m.name] = @ - TakenOf(b, m)]
    BY <2>0 DEF OneRowMore
  <2>5. ASSUME NEW i \in Ingredients PROVE na.left[i] <= nb.left[i]
    <3>1. a.left[i] \in Int /\ b.left[i] \in Int /\ a.left[i] <= b.left[i]
      BY <1>0 DEF Stocks, Within
    <3>2. CASE i = m.name
      BY <1>0, <2>1, <2>3, <2>4, <3>1, <3>2 DEF Stocks, TakenOf
    <3>3. CASE i # m.name
      BY <1>0, <2>1, <2>3, <2>4, <3>1, <3>3 DEF Stocks
    <3> QED BY <3>2, <3>3
  <2>6. na.count <= nb.count
    BY <1>0, <2>3, <2>4
  <2> QED BY <2>5, <2>6 DEF Within, na, nb
<1>2. CASE ~ Usable(units, a.left, m) /\ ~ Usable(units, b.left, m)
  BY <1>2 DEF UseMaterial
<1>3. CASE ~ Usable(units, a.left, m) /\ Usable(units, b.left, m)
  <2>1. m.name \in Ingredients /\ a.left[m.name] <= 0
    BY <1>0, <1>3 DEF Usable, Stocks
  <2>2. na = a
    BY <1>3 DEF UseMaterial
  <2>0. OneRowMore(nb, b, m)
    BY <1>3, UseSome
  <2> HIDE DEF na, nb
  <2>3. /\ nb.count = b.count + 1
        /\ TakenOf(b, m) \in 1..b.left[m.name]
        /\ nb.left = [b.left EXCEPT ![m.name] = @ - TakenOf(b, m)]
    BY <2>0 DEF OneRowMore
  <2>4. ASSUME NEW i \in Ingredients PROVE na.left[i] <= nb.left[i]
    <3>1. a.left[i] \in Int /\ b.left[i] \in Int /\ a.left[i] <= b.left[i]
      BY <1>0 DEF Stocks, Within
    <3>2. CASE i = m.name
      BY <1>0, <2>1, <2>2, <2>3, <3>1, <3>2 DEF Stocks
    <3>3. CASE i # m.name
      BY <1>0, <2>1, <2>2, <2>3, <3>1, <3>3 DEF Stocks
    <3> QED BY <3>2, <3>3
  <2>5. na.count <= nb.count
    BY <1>0, <2>2, <2>3
  <2> QED BY <2>4, <2>5 DEF Within, na, nb
<1> QED BY <1>1, <1>2, <1>3

\* With less in stock a recipe does not use more kinds.
LEMMA ScoreGrows ==
    ASSUME NEW units, NEW left \in Stocks, NEW more \in Stocks, Within(left, more),
           NEW r \in PoolRecipes
    PROVE  ScoreFrom(units, left, r).count <= ScoreFrom(units, more, r).count
<1> DEFINE size == Len(Pool[r])
<1>0. size \in Nat
  BY PoolRows
<1>1. PICK at : ScoredOnTheWay(at, units, left, r)
  BY ScoreByRows
<1>2. PICK bt : ScoredOnTheWay(bt, units, more, r)
  BY ScoreByRows
<1> DEFINE P == {k \in 0..size : Within(at[k].left, bt[k].left) /\ at[k].count <= bt[k].count}
<1>3. 0 \in P
  BY <1>0, <1>1, <1>2 DEF ScoredOnTheWay, Unscored
<1>4. ASSUME NEW k \in 1..size, k - 1 \in P PROVE k \in P
  <2> DEFINE a == at[k - 1]
             b == bt[k - 1]
             m == Pool[r][k]
  <2>1. a \in Scores /\ b \in Scores /\ m.amount \in Nat /\ k \in 0..size
    BY <1>0, <1>1, <1>2, PoolRows DEF ScoredOnTheWay
  <2>2. at[k] = UseMaterial(units, a, m) /\ bt[k] = UseMaterial(units, b, m)
    BY <1>1, <1>2 DEF ScoredOnTheWay
  <2>3. Within(a.left, b.left) /\ a.count <= b.count
    BY <1>4
  <2> HIDE DEF a, b, m
  <2>4. Within(at[k].left, bt[k].left) /\ at[k].count <= bt[k].count
    BY <2>1, <2>2, <2>3, UseOneOfMore
  <2> QED BY <2>1, <2>4
<1>5. \A k \in 0..size : k \in P
  <2> HIDE DEF P, size
  <2> QED BY <1>0, <1>3, <1>4, NumbersUpTo
<1>6. size \in P
  BY <1>0, <1>5
<1> QED BY <1>1, <1>2, <1>6 DEF ScoredOnTheWay

LEMMA ChosenType ==
    ASSUME chosen \in Seq(ChosenRecipe), NEW n \in DOMAIN chosen
    PROVE  chosen[n].recipe \in PoolRecipes /\ chosen[n].used \in Uses /\ chosen[n].count \in Nat
<1>1. chosen[n] \in ChosenRecipe
  OBVIOUS
<1> QED BY <1>1 DEF ChosenRecipe

LEMMA UsedOfType ==
    ASSUME chosen \in Seq(ChosenRecipe), NEW i \in Ingredients
    PROVE  UsedOf(i) \in Nat
<1> DEFINE f == [n \in DOMAIN chosen |-> chosen[n].used[i]]
<1>1. DOMAIN f = 1..Len(chosen) /\ Len(chosen) \in Nat /\ IsFiniteSet(1..Len(chosen))
  BY FS_Interval
<1>2. AreNumbers(f, 1..Len(chosen))
  BY <1>1, ChosenType DEF AreNumbers, Uses
<1> HIDE DEF f
<1>3. SumFunctionOnSet(f, 1..Len(chosen)) \in Nat
  BY <1>1, <1>2, SumType
<1> QED BY <1>1, <1>3 DEF UsedOf, SumFunction, f

LEMMA UsedOfAppend ==
    ASSUME chosen \in Seq(ChosenRecipe), NEW choice \in ChosenRecipe,
           chosen' = Append(chosen, choice), NEW i \in Ingredients
    PROVE  UsedOf(i)' = choice.used[i] + UsedOf(i)
<1> DEFINE f == [n \in DOMAIN chosen |-> chosen[n].used[i]]
           h == [n \in DOMAIN chosen' |-> chosen'[n].used[i]]
           size == Len(chosen)
<1>1. DOMAIN f = 1..size /\ size \in Nat /\ DOMAIN h = 1..(size + 1)
      /\ IsFiniteSet(1..size) /\ IsFiniteSet(1..(size + 1))
  BY FS_Interval
<1>2. \A n \in 1..size : h[n] = f[n]
  OBVIOUS
<1>3. h[size + 1] = choice.used[i] /\ choice.used[i] \in Nat
  BY <1>1 DEF ChosenRecipe, Uses
<1>4. AreNumbers(f, 1..size)
  BY <1>1, ChosenType DEF AreNumbers, Uses
<1> HIDE DEF f, h, size
<1>5. AreNumbers(h, 1..(size + 1)) /\ AreNumbers(h, 1..size)
  BY <1>1, <1>2, <1>3, <1>4 DEF AreNumbers
<1>6. size + 1 \in 1..(size + 1) /\ (1..(size + 1)) \ {size + 1} = 1..size
  BY <1>1
<1>7. SumFunctionOnSet(h, 1..(size + 1))
        = h[size + 1] + SumFunctionOnSet(h, (1..(size + 1)) \ {size + 1})
  BY <1>1, <1>5, <1>6, SumAdd
<1>8. SumFunctionOnSet(h, 1..size) = SumFunctionOnSet(f, 1..size)
  BY <1>1, <1>2, <1>5, SumEqual
<1>9. UsedOf(i) = SumFunctionOnSet(f, 1..size) /\ UsedOf(i)' = SumFunctionOnSet(h, 1..(size + 1))
  BY <1>1 DEF UsedOf, SumFunction, f, h
<1> QED BY <1>3, <1>6, <1>7, <1>8, <1>9

LEMMA UsedOfNothing == ASSUME NEW i, chosen = <<>> PROVE UsedOf(i) = 0
<1> DEFINE f == [n \in DOMAIN chosen |-> chosen[n].used[i]]
<1>1. DOMAIN f = {}
  OBVIOUS
<1> HIDE DEF f
<1>2. SumFunctionOnSet(f, {}) = 0
  BY SumEmpty
<1> QED BY <1>1, <1>2 DEF UsedOf, SumFunction, f

LEMMA InitInventoryInv == InventoryInit => InventoryInv
<1> SUFFICES ASSUME InventoryInit PROVE InventoryInv
  OBVIOUS
<1>0. chosen = <<>> /\ stock = NotUsed /\ given = NotUsed /\ wanted = 1 /\ stopped = "unsent"
  BY DEF InventoryInit
<1>5. DOMAIN chosen = {}
  BY <1>0
<1>1. InventoryTypeOK
  <2>1. NotUsed \in [Ingredients -> Int]
    BY DEF NotUsed
  <2>2. unitOf \in [Ingredients -> Units]
    BY InventoryParameters DEF InventoryInit
  <2> QED BY <1>0, <1>5, <2>1, <2>2 DEF InventoryTypeOK
<1>2. \A i \in Ingredients : UsedOf(i) = 0
  BY UsedOfNothing DEF InventoryInit
<1>3. ChoicesAddUp
  <2>1. \A i \in Ingredients : stock[i] = 0 /\ given[i] = 0
    BY <1>0 DEF NotUsed
  <2> QED BY <1>0, <1>2, <1>5, <2>1 DEF ChoicesAddUp
<1>4. ChoicesDescend
  BY <1>0, <1>5 DEF ChoicesDescend
<1>6. ChoicesAreTold
  BY <1>5 DEF ChoicesAreTold
<1> QED BY <1>1, <1>3, <1>4, <1>6 DEF InventoryInv

LEMMA LastIsOne ==
    ASSUME NEW ask \in Asks, NEW i \in NamesIn(ask)
    PROVE  LastOf(ask, i) \in [name : Ingredients, amount : Int, unit : Units]
<1> DEFINE size == Len(ask)
           rows == {n \in 1..size : ask[n].name = i}
<1>1. /\ size \in Nat /\ DOMAIN ask = 1..size
      /\ \A n \in 1..size : ask[n] \in [name : Ingredients, amount : Int, unit : Units]
  <2> DEFINE entries == [name : Ingredients, amount : Int, unit : Units]
  <2>1. ask \in Seq(entries)
    BY InventoryParameters, Zenon
  <2> HIDE DEF entries
  <2>2. size \in Nat /\ DOMAIN ask = 1..size /\ \A n \in 1..size : ask[n] \in entries
    BY <2>1
  <2> QED BY <2>2 DEF entries
<1>2. rows \in SUBSET (1..size) /\ rows # {}
  BY <1>1 DEF NamesIn
<1>3. LastOf(ask, i) = ask[Max(rows)]
  BY <1>1 DEF LastOf
<1> HIDE DEF size, rows
<1>4. Max(rows) \in 1..size
  BY <1>1, <1>2, GreatestIsMax
<1> QED BY <1>1, <1>3, <1>4

LEMMA ReceiveKeeps == InventoryInv /\ Receive => InventoryInv'
<1> SUFFICES ASSUME InventoryInv, Receive PROVE InventoryInv'
  OBVIOUS
<1> USE DEF InventoryInv
<1>1. chosen = <<>> /\ chosen' = <<>>
  BY DEF Receive, ChoicesAddUp
<1>2. Cardinality(DOMAIN Pool) \in Nat
  BY InventoryParameters, FS_CardinalityType
<1>7. stock' = given' /\ stopped' = "no" /\ wanted' \in 1..(Cardinality(DOMAIN Pool) + 1)
  BY Zenon DEF Receive
<1>3. InventoryTypeOK'
  <2>0. PICK ask \in Asks :
        /\ given' = [i \in Ingredients |-> IF i \in NamesIn(ask) THEN LastOf(ask, i).amount ELSE 0]
        /\ unitOf' = [i \in Ingredients |-> IF i \in NamesIn(ask) THEN LastOf(ask, i).unit ELSE ""]
    BY DEF Receive
  <2>1. given' \in [Ingredients -> Int]
    <3>1. \A i \in Ingredients : i \in NamesIn(ask) => LastOf(ask, i).amount \in Int
      BY LastIsOne
    <3>2. 0 \in Int
      OBVIOUS
    <3> QED BY <2>0, <3>1, <3>2, Zenon
  <2>2. unitOf' \in [Ingredients -> Units]
    <3>1. \A i \in Ingredients : i \in NamesIn(ask) => LastOf(ask, i).unit \in Units
      BY LastIsOne
    <3> QED BY <2>0, <3>1, InventoryParameters, Zenon
  <2> QED BY <1>1, <1>2, <1>7, <2>1, <2>2 DEF InventoryTypeOK
<1>4. \A i \in Ingredients : UsedOf(i)' = 0
  <2> TAKE i \in Ingredients
  <2>1. UsedOf(i) = 0
    BY <1>1, UsedOfNothing
  <2>2. UsedOf(i)' = UsedOf(i)
    BY <1>1 DEF UsedOf
  <2> QED BY <2>1, <2>2
<1>5. ChoicesAddUp'
  <2>1. \A i \in Ingredients : given'[i] \in Int /\ stock'[i] = given'[i]
    BY <1>3, <1>7 DEF InventoryTypeOK
  <2> QED BY <1>1, <1>4, <1>7, <2>1 DEF ChoicesAddUp
<1>6. ChoicesDescend' /\ ChoicesAreTold'
  BY <1>1, <1>7 DEF ChoicesDescend, ChoicesAreTold
<1> QED BY <1>3, <1>5, <1>6

\* What could be cooked after a choice could be before it, and scores no better.
LEMMA ChoiceLeavesWorse ==
    ASSUME InventoryInv, stock' \in Stocks, Within(stock', stock), unitOf' = unitOf,
           NEW choice \in ChosenRecipe, chosen' = Append(chosen, choice), NEW r \in Candidates'
    PROVE  r \in Candidates /\ r \in PoolRecipes /\ Score(r)'.count <= Score(r).count
<1>1. stock \in Stocks
  BY DEF InventoryInv, InventoryTypeOK, Stocks
<1>2. r \in Candidates
  <2>1. \A i \in DOMAIN chosen : i \in DOMAIN chosen' /\ chosen'[i] = chosen[i]
    BY DEF InventoryInv, ChoicesAddUp
  <2>2. \A i \in Ingredients : stock'[i] > 0 => stock[i] > 0
    BY <1>1 DEF Within, Stocks
  <2> QED BY <2>1, <2>2 DEF Candidates
<1>3. r \in PoolRecipes
  BY <1>2 DEF Candidates, PoolRecipes
<1>4. ScoreFrom(unitOf, stock', r).count <= ScoreFrom(unitOf, stock, r).count
  BY <1>1, <1>3, ScoreGrows
<1> QED BY <1>2, <1>3, <1>4 DEF Score

LEMMA ChooseKeeps == InventoryInv /\ Choose => InventoryInv'
<1> SUFFICES ASSUME InventoryInv, Choose PROVE InventoryInv'
  OBVIOUS
<1> USE DEF InventoryInv
<1> PICK r \in BestRecipes :
      /\ Score(r).count > 0
      /\ stock' = Deduct(Score(r))
      /\ chosen' = Append(chosen, [recipe |-> r, used |-> Score(r).used,
                                    spent |-> Spent(Score(r)), count |-> Score(r).count])
  BY DEF Choose
<1> DEFINE choice == [recipe |-> r, used |-> Score(r).used,
                                    spent |-> Spent(Score(r)), count |-> Score(r).count]
           size == Len(chosen)
<1>0. \A n \in 1..(Len(chosen) + 1) : n \in 1..Len(chosen) \/ n = Len(chosen) + 1
  BY DEF ChoicesAddUp
<1>1. r \in Candidates /\ r \in PoolRecipes
  BY DEF BestRecipes, Candidates, PoolRecipes
<1>2. stock \in Stocks /\ given \in Stocks
  BY DEF InventoryTypeOK, Stocks
<1>3. \A q \in PoolRecipes : Score(q) \in Scores
  BY <1>2, ScoreType DEF Score
<1>24. TakenByRows(Score(r), stock, r, Len(Pool[r])) /\ KindsAreCounted(Score(r), r)
  BY <1>1, <1>2, ScoreTakesWhatIsLeft DEF Score
<1>4. \A i \in Ingredients :
        /\ Score(r).used[i] \in Nat /\ Score(r).left[i] \in Int /\ stock[i] \in Int
        /\ Score(r).used[i] = 0 \/ Score(r).used[i] <= stock[i]
  BY <1>1, <1>2, <1>3, <1>24 DEF TakenByRows, Scores, Stocks, Uses
<1>5. choice \in ChosenRecipe
  <2>1. Spent(Score(r)) \in Stocks
    BY <1>4 DEF Spent, Stocks
  <2> QED BY <1>1, <1>3, <2>1 DEF ChosenRecipe, Scores
<1>6. UNCHANGED <<given, unitOf, wanted>> /\ stopped' \in {"early", "no"} /\ stopped = "no"
  BY DEF Choose
<1>7. \A i \in Ingredients : stock'[i] = stock[i] - Score(r).used[i]
  BY DEF Deduct
<1>8. stock' \in Stocks /\ Within(stock', stock)
  <2>1. stock' \in Stocks
    BY <1>4 DEF Deduct, Stocks
  <2> QED BY <1>4, <1>7, <2>1 DEF Within
<1>25. UsesAreTold(r, Score(r).used, Spent(Score(r)), Score(r).count)
  <2>1. ASSUME NEW i \in Ingredients, ListsOnce(r, i)
        PROVE  Score(r).used[i] = Spent(Score(r))[i]
    <3>1. Score(r).used[i] + Score(r).left[i] = stock[i]
      BY <1>24, <2>1 DEF TakenByRows
    <3> QED BY <1>4, <3>1 DEF Spent
  <2>2. Cardinality(KindsOf(Score(r).used)) \in Nat /\ Score(r).count \in Nat
    BY <1>1, <1>3, <1>24, FS_CardinalityType DEF KindsAreCounted, Scores
  <2>3. Cardinality(KindsOf(Score(r).used)) \in 0..Score(r).count
    BY <1>24, <2>2 DEF KindsAreCounted
  <2> QED BY <1>24, <2>1, <2>3 DEF UsesAreTold, KindsAreCounted, KindsOf
<1>9. chosen \in Seq(ChosenRecipe) /\ size \in Nat
  BY DEF ChoicesAddUp
<1>10. chosen' = Append(chosen, choice)
  OBVIOUS
<1>23. \A n \in 1..(size + 1) : n \in 1..size \/ n = size + 1
  BY <1>0
<1> HIDE DEF choice, size
<1>11. /\ chosen' \in Seq(ChosenRecipe)
       /\ DOMAIN chosen' = 1..(size + 1) /\ DOMAIN chosen = 1..size
       /\ \A n \in 1..size : chosen'[n] = chosen[n]
       /\ chosen'[size + 1] = choice
  BY <1>5, <1>9, <1>10 DEF size
<1>12. InventoryTypeOK'
  <2>0. chosen' \in Seq(ChosenRecipe)
    BY <1>11
  <2>1. \A n \in DOMAIN chosen' : chosen'[n] \in ChosenRecipe
    BY <2>0
  <2>2. \A n \in DOMAIN chosen' :
          /\ chosen'[n].recipe \in DOMAIN Pool
          /\ chosen'[n].used \in [Ingredients -> Nat]
          /\ chosen'[n].spent \in [Ingredients -> Int]
          /\ chosen'[n].count \in Nat
    BY <2>1 DEF ChosenRecipe, PoolRecipes, Stocks, Uses
  <2> QED BY <1>6, <1>8, <2>2 DEF InventoryTypeOK, Stocks
<1>13. \A n \in DOMAIN chosen : chosen[n].recipe # r
  BY <1>1 DEF Candidates
<1>14. ChoicesAddUp'
  <2>1. ASSUME NEW i \in Ingredients PROVE stock'[i] + UsedOf(i)' = given'[i]
    <3>1. UsedOf(i)' = Score(r).used[i] + UsedOf(i)
      BY <1>5, <1>9, <1>10, UsedOfAppend DEF choice
    <3>2. UsedOf(i) \in Nat /\ stock[i] \in Int /\ stock[i] + UsedOf(i) = given[i]
      BY <1>2, <1>9, UsedOfType DEF ChoicesAddUp, Stocks
    <3> QED BY <1>4, <1>6, <1>7, <3>1, <3>2
  <2>2. \A m, n \in DOMAIN chosen' : chosen'[m].recipe = chosen'[n].recipe => m = n
    <3>1. choice.recipe = r
      BY DEF choice
    <3>2. \A m \in 1..size : chosen'[m].recipe # r
      BY <1>11, <1>13
    <3>3. \A m, n \in 1..size : chosen'[m].recipe = chosen'[n].recipe => m = n
      BY <1>11 DEF ChoicesAddUp
    <3>4. chosen'[size + 1].recipe = r
      BY <1>11, <3>1
    <3> SUFFICES ASSUME NEW m \in 1..(size + 1), NEW n \in 1..(size + 1),
                        chosen'[m].recipe = chosen'[n].recipe
                 PROVE  m = n
      BY <1>11
    <3>5. (m \in 1..size \/ m = size + 1) /\ (n \in 1..size \/ n = size + 1)
      BY <1>23
    <3> QED BY <3>2, <3>3, <3>4, <3>5
  <2>3. \A i \in Ingredients : given'[i] >= 0 => stock'[i] >= 0
    <3> SUFFICES ASSUME NEW i \in Ingredients, given[i] >= 0 PROVE stock'[i] >= 0
      BY <1>6
    <3>1. stock[i] >= 0
      BY DEF ChoicesAddUp
    <3> QED BY <1>4, <1>7, <3>1
  <2> QED BY <1>6, <1>11, <2>1, <2>2, <2>3 DEF ChoicesAddUp
<1>26. ChoicesAreTold'
  <2> SUFFICES ASSUME NEW n \in 1..(size + 1)
               PROVE  UsesAreTold(chosen'[n].recipe, chosen'[n].used, chosen'[n].spent,
                                  chosen'[n].count)
    BY <1>11 DEF ChoicesAreTold, UsesAreTold
  <2>1. CASE n \in 1..size
    BY <1>11, <2>1 DEF ChoicesAreTold
  <2>2. CASE n = size + 1
    BY <1>11, <1>25, <2>2 DEF choice
  <2> QED BY <1>23, <2>1, <2>2
<1>15. \A q \in Candidates : Score(q).count <= choice.count
  <2> SUFFICES ASSUME NEW q \in Candidates PROVE Score(q).count <= choice.count
    OBVIOUS
  <2>1. ~ Better(Score(q), Score(r))
    BY DEF BestRecipes
  <2>2. Score(q).count \in Nat /\ Score(r).count \in Nat
    BY <1>1, <1>3 DEF Scores, Candidates, PoolRecipes
  <2> QED BY <2>1, <2>2 DEF Better, choice
<1>16. \A n \in DOMAIN chosen : choice.count <= chosen[n].count
  BY <1>1 DEF ChoicesDescend, choice
<1>17. ASSUME NEW q \in Candidates' 
       PROVE  q \in Candidates /\ Score(q)'.count <= Score(q).count
              /\ Score(q)'.count \in Nat /\ Score(q).count \in Nat
  <2>1. q \in Candidates /\ q \in PoolRecipes /\ Score(q)'.count <= Score(q).count
    BY <1>5, <1>6, <1>8, <1>10, ChoiceLeavesWorse
  <2>2. ScoreFrom(unitOf, stock', q) \in Scores
    BY <1>8, <2>1, ScoreType
  <2>3. Score(q)' \in Scores
    BY <1>6, <2>2 DEF Score
  <2> QED BY <1>3, <2>1, <2>3 DEF Scores
<1>18. \A n \in DOMAIN chosen : chosen[n].count \in Nat
  BY <1>9, ChosenType
<1>19. choice.count \in Nat
  BY <1>5 DEF ChosenRecipe
<1>20. \A q \in Candidates' : \A n \in DOMAIN chosen' : Score(q)'.count <= chosen'[n].count
  <2> SUFFICES ASSUME NEW q \in Candidates', NEW n \in 1..(size + 1)
               PROVE  Score(q)'.count <= chosen'[n].count
    BY <1>11
  <2>0. q \in Candidates /\ Score(q)'.count <= Score(q).count
        /\ Score(q)'.count \in Nat /\ Score(q).count \in Nat
    BY <1>17
  <2>1. CASE n = size + 1
    BY <1>11, <1>15, <1>19, <2>0, <2>1
  <2>2. CASE n \in 1..size
    <3>1. Score(q).count <= chosen[n].count /\ chosen[n].count \in Nat
      BY <1>11, <1>18, <2>0, <2>2 DEF ChoicesDescend
    <3>2. Score(q)'.count <= chosen[n].count
      BY <2>0, <3>1
    <3> QED BY <1>11, <2>2, <3>2
  <2> QED BY <1>23, <2>1, <2>2
<1>21. \A m, n \in DOMAIN chosen' : m < n => chosen'[m].count >= chosen'[n].count
  <2> SUFFICES ASSUME NEW m \in 1..(size + 1), NEW n \in 1..(size + 1), m < n
               PROVE  chosen'[m].count >= chosen'[n].count
    BY <1>11
  <2>1. m \in 1..size
    BY <1>9, <1>23
  <2>2. CASE n = size + 1
    BY <1>11, <1>16, <1>18, <1>19, <2>1, <2>2
  <2>3. CASE n \in 1..size
    BY <1>11, <2>1, <2>3 DEF ChoicesDescend
  <2> QED BY <1>23, <2>2, <2>3
<1>22. ChoicesDescend'
  BY <1>6, <1>20, <1>21 DEF ChoicesDescend
<1> QED BY <1>12, <1>14, <1>22, <1>26

LEMMA NextKeepsInventoryInv == InventoryInv /\ [InventoryNext]_inventoryVars => InventoryInv'
<1> SUFFICES ASSUME InventoryInv, [InventoryNext]_inventoryVars PROVE InventoryInv'
  OBVIOUS
<1>1. CASE Exhausted
  BY <1>1 DEF Exhausted, InventoryInv, InventoryTypeOK, ChoicesAddUp, ChoicesDescend,
              ChoicesAreTold, UsedOf, Score, Candidates
<1>2. CASE UNCHANGED inventoryVars
  BY <1>2 DEF inventoryVars, InventoryInv, InventoryTypeOK, ChoicesAddUp, ChoicesDescend,
              ChoicesAreTold, UsedOf, Score, Candidates
<1> QED BY <1>1, <1>2, ReceiveKeeps, ChooseKeeps DEF InventoryNext

THEOREM InventoryInvariance == InventorySpec => []InventoryInv
BY InitInventoryInv, NextKeepsInventoryInv, PTL DEF InventorySpec

(***************************************************************************)
(* StockIsSpentOnce, for any stock and any pool of recipes: what the       *)
(* recipes of an answer are said to use and what is left add up to what    *)
(* was given, and of a material that it lists once each recipe is said to  *)
(* use all that it took.                                                   *)
(***************************************************************************)
THEOREM SpendingHolds == InventorySpec => []StockIsSpentOnce
<1>1. InventoryInv => StockIsSpentOnce
  BY DEF InventoryInv, ChoicesAddUp, ChoicesAreTold, UsesAreTold, StockIsSpentOnce
<1> QED BY <1>1, InventoryInvariance, PTL

(***************************************************************************)
(* MostKindsFirst, for any stock and any pool of recipes: each recipe uses *)
(* as many rows as those after it, and as many kinds if it lists none      *)
(* twice; a search that ends by itself leaves out no recipe with a use for *)
(* what is left.                                                           *)
(***************************************************************************)
THEOREM ChoicesInOrder == InventorySpec => []MostKindsFirst
<1>1. InventoryInv => MostKindsFirst
  <2> SUFFICES ASSUME InventoryInv PROVE MostKindsFirst
    OBVIOUS
  <2>1. ASSUME NEW m \in DOMAIN chosen, NEW n \in DOMAIN chosen, m < n
        PROVE  /\ chosen[m].count >= chosen[n].count
               /\ (\A i \in Ingredients : ListsOnce(chosen[m].recipe, i)) => Kinds(m) >= Kinds(n)
    <3>1. chosen[m].count >= chosen[n].count
      BY <2>1 DEF InventoryInv, ChoicesDescend
    <3>2. chosen[m].count \in Nat /\ chosen[n].count \in Nat
      BY ChosenType DEF InventoryInv, ChoicesAddUp
    <3>3. /\ Kinds(n) \in 0..chosen[n].count
          /\ (\A i \in Ingredients : ListsOnce(chosen[m].recipe, i)) => Kinds(m) = chosen[m].count
      BY DEF InventoryInv, ChoicesAreTold, UsesAreTold, Kinds
    <3> QED BY <3>1, <3>2, <3>3
  <2>2. ASSUME stopped = "exhausted", NEW r \in DOMAIN Pool, NEW k \in DOMAIN Pool[r],
               Usable(unitOf, stock, Pool[r][k]),
               \A n \in DOMAIN chosen : chosen[n].recipe # r
        PROVE  FALSE
    <3>1. r \in PoolRecipes /\ stock \in Stocks
      BY DEF InventoryInv, InventoryTypeOK, PoolRecipes, Stocks
    <3>2. r \in Candidates
      BY <2>2 DEF Candidates, Usable
    <3>3. ScoreFrom(unitOf, stock, r).count = 0
      BY <2>2, <3>2 DEF InventoryInv, ChoicesDescend, Score
    <3> QED BY <2>2, <3>1, <3>3, ScoreOfNothing
  <2> QED BY <2>1, <2>2 DEF MostKindsFirst
<1> QED BY <1>1, InventoryInvariance, PTL
-----------------------------------------------------------------------------
\* Pages of recipes.

LEMMA MinOfTwo ==
    ASSUME NEW a \in Int, NEW b \in Int
    PROVE  Min({a, b}) = IF a <= b THEN a ELSE b
  BY DEF Min

LEMMA MaxOfTwo ==
    ASSUME NEW a \in Int, NEW b \in Int
    PROVE  Max({a, b}) = IF a <= b THEN b ELSE a
  BY DEF Max

\* How many recipes with all the names are left for a page.
LeftFor(names, page) == Cardinality(WithAll(names)) - UpTo(page - 1)

RowsShown(names, page) == Max({0, Min({LeftFor(names, page), RecipesPerPage})})

LEMMA SearchNumbers ==
    /\ RecipesPerPage \in Nat \ {0} /\ MLRetries \in Nat
    /\ \A r \in Requests : r[2] \in Nat \ {0}
    /\ \A p \in Nat : UpTo(p) \in Nat
    /\ \A p \in Nat \ {0} : UpTo(p) = UpTo(p - 1) + RecipesPerPage /\ p - 1 \in Nat
    /\ \A p, q \in Nat : p < q => UpTo(p) <= UpTo(q - 1)
<1> DEFINE R == RecipesPerPage
<1>0. /\ R \in Nat \ {0} /\ MLRetries \in Nat
      /\ Requests \subseteq Routes \X (Nat \ {0})
  BY RecipeSearchParameters
<1>1. \A r \in Requests : r[2] \in Nat \ {0}
  BY <1>0
<1> HIDE DEF R
<1>2. \A p \in Nat : p * R \in Nat
  BY <1>0
<1>3. \A p \in Nat \ {0} : p * R = (p - 1) * R + R
  BY <1>0
<1>4. ASSUME NEW p \in Nat, NEW q \in Nat, p < q PROVE p * R <= (q - 1) * R
  <2>1. q - 1 - p \in Nat
    BY <1>4
  <2>2. (q - 1) * R = p * R + (q - 1 - p) * R
    BY <1>0
  <2>3. (q - 1 - p) * R \in Nat
    BY <1>0, <2>1
  <2> QED BY <1>0, <1>2, <2>2, <2>3
<1>5. \A p \in Nat \ {0} : p - 1 \in Nat
  OBVIOUS
<1> QED BY <1>0, <1>1, <1>2, <1>3, <1>4, <1>5 DEF UpTo, R

LEMMA RecipesAreFinite ==
    ASSUME NEW names
    PROVE  /\ Cardinality(WithAll(names)) \in Nat /\ Cardinality(WithAny(names)) \in Nat
           /\ IsFiniteSet(WithAny(names))
<1>1. IsFiniteSet(Recipes)
  BY RecipeSearchParameters
<1>2. WithAll(names) \subseteq Recipes /\ WithAny(names) \subseteq Recipes
  BY DEF WithAll, WithAny
<1>3. IsFiniteSet(WithAll(names)) /\ IsFiniteSet(WithAny(names))
  BY <1>1, <1>2, FS_Subset
<1> QED BY <1>3, FS_CardinalityType

\* A list has as many different names as entries, at most.
LEMMA NamesOfAList ==
    ASSUME NEW names \in NameLists
    PROVE  /\ names \in Seq(ToSet(names)) /\ Len(names) \in Nat
           /\ IsFiniteSet(ToSet(names)) /\ Cardinality(ToSet(names)) <= Len(names)
<1> DEFINE size == Len(names)
<1>1. names \in Seq(ToSet(names)) /\ size \in Nat /\ DOMAIN names = 1..size
  BY RecipeSearchParameters
<1>2. IsFiniteSet(1..size) /\ Cardinality(1..size) = size
  BY <1>1, FS_Interval
<1>3. names \in Surjection(1..size, ToSet(names))
  BY <1>1 DEF Surjection, ToSet
<1>4. IsFiniteSet(ToSet(names)) /\ Cardinality(ToSet(names)) <= Cardinality(1..size)
  BY <1>2, <1>3, FS_Surjection
<1> QED BY <1>1, <1>2, <1>4

\* If a recipe has all the names, the total counts every such recipe.
LEMMA TotalIsEnough ==
    ASSUME NEW names \in NameLists
    PROVE  /\ TotalOf(names) \in Nat
           /\ Cardinality(WithAll(names)) <= TotalOf(names)
<1>0. /\ Cardinality(WithAll(names)) \in Nat /\ Cardinality(WithAny(names)) \in Nat
      /\ IsFiniteSet(WithAny(names))
  BY RecipesAreFinite
<1>1. CASE WithAll(names) = {}
  <2>1. Cardinality(WithAll(names)) = 0
    BY <1>1, FS_EmptySet
  <2>2. TotalOf(names) \in Nat
    BY <1>0 DEF TotalOf
  <2> QED BY <2>1, <2>2
<1>2. ASSUME NEW d \in WithAll(names)
      PROVE  TotalOf(names) \in Nat /\ Cardinality(WithAll(names)) <= TotalOf(names)
  <2>1. d \in Recipes /\ names # <<>> /\ Cardinality(MaterialNames[d] \cap ToSet(names)) = Len(names)
    BY DEF WithAll
  <2>2. /\ MaterialNames[d] \cap ToSet(names) \subseteq Found(names)
        /\ Found(names) \subseteq ToSet(names)
    BY <2>1 DEF Found
  <2>3. IsFiniteSet(ToSet(names)) /\ Cardinality(ToSet(names)) <= Len(names) /\ Len(names) \in Nat
    BY NamesOfAList
  <2>4. IsFiniteSet(Found(names)) /\ Cardinality(Found(names)) <= Cardinality(ToSet(names))
    BY <2>2, <2>3, FS_Subset
  <2>5. Len(names) <= Cardinality(Found(names))
    BY <2>1, <2>2, <2>4, FS_Subset
  <2>6. Cardinality(Found(names)) \in Nat /\ Cardinality(ToSet(names)) \in Nat
    BY <2>3, <2>4, FS_CardinalityType
  <2>7. TotalOf(names) = Cardinality(WithAny(names))
    BY <2>3, <2>4, <2>5, <2>6 DEF TotalOf
  <2>8. WithAll(names) \subseteq WithAny(names)
    <3> SUFFICES ASSUME NEW e \in WithAll(names), e \notin WithAny(names) PROVE FALSE
      OBVIOUS
    <3>1. MaterialNames[e] \cap ToSet(names) = {} /\ names # <<>>
          /\ Cardinality(MaterialNames[e] \cap ToSet(names)) = Len(names)
      BY DEF WithAll, WithAny
    <3>2. Len(names) = 0
      BY <3>1, FS_EmptySet
    <3> QED BY <3>1, <3>2, NamesOfAList
  <2>9. Cardinality(WithAll(names)) <= Cardinality(WithAny(names))
    BY <1>0, <2>8, FS_Subset
  <2> QED BY <1>0, <2>7, <2>9
<1> QED BY <1>1, <1>2

LEMMA RowsOfAPage ==
    ASSUME NEW names, NEW page \in Nat \ {0}, NEW rows \in RowsOf(names, page)
    PROVE  /\ rows \in Seq(Recipes) /\ Len(rows) \in Nat
           /\ LeftFor(names, page) \in Int
           /\ rows # <<>> => LeftFor(names, page) > 0
           /\ RecipesPerPage <= LeftFor(names, page) => Len(rows) = RecipesPerPage
<1> DEFINE size == RowsShown(names, page)
           left == LeftFor(names, page)
<1>1. /\ RecipesPerPage \in Nat \ {0} /\ UpTo(page - 1) \in Nat
      /\ Cardinality(WithAll(names)) \in Nat
  BY SearchNumbers, RecipesAreFinite
<1>2. left \in Int
  BY <1>1 DEF LeftFor
<1>3. rows \in [1..size -> WithAll(names)]
  BY DEF RowsOf, RowsShown, LeftFor
<1>4. size = IF left <= 0 THEN 0 ELSE IF left <= RecipesPerPage THEN left ELSE RecipesPerPage
  <2>1. Min({left, RecipesPerPage}) = IF left <= RecipesPerPage THEN left ELSE RecipesPerPage
    BY <1>1, <1>2, MinOfTwo
  <2>2. \A b \in Int : Max({0, b}) = IF 0 <= b THEN b ELSE 0
    BY MaxOfTwo
  <2> HIDE DEF left
  <2>3. Min({left, RecipesPerPage}) \in Int
    BY <1>1, <1>2, <2>1
  <2>4. size = Max({0, Min({left, RecipesPerPage})})
    BY DEF RowsShown, left
  <2> HIDE DEF size
  <2> QED BY <1>1, <1>2, <2>1, <2>2, <2>3, <2>4
<1> HIDE DEF size, left
<1>5. size \in Nat /\ WithAll(names) \subseteq Recipes
  BY <1>1, <1>2, <1>4 DEF WithAll
<1>6. rows \in Seq(Recipes) /\ Len(rows) = size
  BY <1>3, <1>5
<1>7. rows # <<>> => size # 0
  BY <1>3
<1> QED BY <1>1, <1>2, <1>4, <1>5, <1>6, <1>7 DEF left

\* A list's page shows what is left for it, in whatever order it was cut.
PagesAreCut ==
    \A r \in Requests :
        (r[1] # "search" /\ searchPc[r] = "done") =>
            /\ shown[r] \in RowsOf(sought[r], r[2])
            /\ r[1] = "ingredients" => total[r] = TotalOf(sought[r])

\* The ML service is asked by searches only, and so often at most.
TriesAreLeft ==
    \A r \in Requests :
        /\ searchPc[r] = "asking" => r[1] = "search"
        /\ searchPc[r] \in {"unsent", "asking"} => timeouts[r] <= MLRetries

SearchInv == RecipeSearchTypeOK /\ PagesAreCut /\ TriesAreLeft

LEMMA InitSearchInv == RecipeSearchInit => SearchInv
  BY SearchNumbers
     DEF RecipeSearchInit, SearchInv, RecipeSearchTypeOK, PagesAreCut, TriesAreLeft

LEMMA FirstType ==
    ASSUME NEW s \in Seq(Recipes), NEW n \in Nat
    PROVE  /\ First(s, n) \in Seq(Recipes) /\ Len(First(s, n)) \in Nat
<1> DEFINE k == IF n <= Len(s) THEN n ELSE Len(s)
<1>1. k \in Nat /\ k <= Len(s) /\ Len(s) \in Nat /\ Min({n, Len(s)}) = k
  BY MinOfTwo
<1>2. \A i \in 1..k : s[i] \in Recipes
  BY <1>1
<1> HIDE DEF k
<1>3. SubSeq(s, 1, k) \in Seq(Recipes)
  BY <1>1, <1>2, SubSeqProperties
<1>4. First(s, n) = SubSeq(s, 1, k)
  BY <1>1 DEF First
<1>5. \A t \in Seq(Recipes) : Len(t) \in Nat
  OBVIOUS
<1> QED BY <1>3, <1>4, <1>5

LEMMA ShowSearchKeeps ==
    ASSUME SearchInv, NEW r \in Requests, ShowSearch(r) PROVE SearchInv'
<1>1. r[2] \in Nat \ {0} /\ UpTo(r[2]) \in Nat /\ UpTo(r[2] - 1) \in Nat /\ RecipesPerPage \in Nat
  BY SearchNumbers
<1>2. Nearest(r[2]) \in Seq(Recipes) /\ Len(Nearest(r[2])) \in Nat
  BY <1>1, FirstType, RecipeSearchParameters DEF Nearest
<1>3. FirstOfNearest(r[2]) \in Seq(Recipes) /\ Len(FirstOfNearest(r[2])) \in Nat
  BY <1>1, <1>2, FirstType DEF FirstOfNearest
<1>4. TotalSoFar(r[2]) \in Nat
  BY <1>1, <1>3 DEF TotalSoFar
<1>5. ShowPage(r, FirstOfNearest(r[2]), TotalSoFar(r[2])) /\ UNCHANGED <<timeouts, sought>>
      /\ searchPc[r] = "asking"
  BY DEF ShowSearch
<1>6. r[1] = "search"
  BY <1>5 DEF SearchInv, TriesAreLeft
<1>7. RecipeSearchTypeOK'
  BY <1>3, <1>4, <1>5 DEF SearchInv, RecipeSearchTypeOK, ShowPage
<1>8. PagesAreCut' /\ TriesAreLeft'
  BY <1>5, <1>6 DEF SearchInv, RecipeSearchTypeOK, PagesAreCut, TriesAreLeft, ShowPage
<1> QED BY <1>7, <1>8 DEF SearchInv

LEMMA LookUpKeeps ==
    ASSUME SearchInv, NEW r \in Requests, LookUp(r) PROVE SearchInv'
<1> PICK names \in NameLists : \E rows \in RowsOf(names, r[2]) :
      /\ sought' = [sought EXCEPT ![r] = names]
      /\ ShowPage(r, rows, IF r[1] = "cart" THEN Len(rows) ELSE TotalOf(names))
  BY DEF LookUp
<1> PICK rows \in RowsOf(names, r[2]) :
      /\ sought' = [sought EXCEPT ![r] = names]
      /\ ShowPage(r, rows, IF r[1] = "cart" THEN Len(rows) ELSE TotalOf(names))
  OBVIOUS
<1> DEFINE count == IF r[1] = "cart" THEN Len(rows) ELSE TotalOf(names)
<1>1. rows \in Seq(Recipes) /\ Len(rows) \in Nat
  BY SearchNumbers, RowsOfAPage
<1>2. TotalOf(names) \in Nat
  BY TotalIsEnough
<1>3. count \in Nat /\ ShowPage(r, rows, count) /\ UNCHANGED timeouts
  BY <1>1, <1>2 DEF LookUp
<1>4. r[1] = "ingredients" => count = TotalOf(names)
  OBVIOUS
<1> HIDE DEF count
<1>5. RecipeSearchTypeOK'
  BY <1>1, <1>3 DEF SearchInv, RecipeSearchTypeOK, ShowPage
<1>6. PagesAreCut'
  <2> SUFFICES ASSUME NEW q \in Requests, q[1] # "search", searchPc'[q] = "done"
               PROVE  /\ shown'[q] \in RowsOf(sought'[q], q[2])
                      /\ q[1] = "ingredients" => total'[q] = TotalOf(sought'[q])
    BY DEF PagesAreCut, RowsOf, WithAll, UpTo, TotalOf, Found, WithAny
  <2>1. CASE q = r
    BY <1>3, <1>4, <2>1 DEF SearchInv, RecipeSearchTypeOK, ShowPage
  <2>2. CASE q # r
    BY <1>3, <2>2 DEF SearchInv, RecipeSearchTypeOK, ShowPage, PagesAreCut
  <2> QED BY <2>1, <2>2
<1>7. TriesAreLeft'
  BY <1>3 DEF SearchInv, RecipeSearchTypeOK, ShowPage, TriesAreLeft
<1> QED BY <1>5, <1>6, <1>7 DEF SearchInv

LEMMA NextKeepsSearchInv == SearchInv /\ [RecipeSearchNext]_recipeSearchVars => SearchInv'
<1> SUFFICES ASSUME SearchInv, [RecipeSearchNext]_recipeSearchVars PROVE SearchInv'
  OBVIOUS
<1>0. MLRetries \in Nat
  BY SearchNumbers
<1>1. CASE UNCHANGED recipeSearchVars
  BY <1>1 DEF recipeSearchVars, SearchInv, RecipeSearchTypeOK, PagesAreCut, TriesAreLeft
<1>2. ASSUME NEW r \in Requests, AskML(r) \/ FailML(r) \/ FailLookUp(r)
      PROVE  SearchInv'
  BY <1>2 DEF SearchInv, RecipeSearchTypeOK, PagesAreCut, TriesAreLeft, AskML, FailML,
              FailLookUp, GiveUp
<1>3. ASSUME NEW r \in Requests, TimeOut(r) PROVE SearchInv'
  <2>1. /\ searchPc[r] = "asking" /\ timeouts[r] \in Nat /\ timeouts[r] <= MLRetries
        /\ timeouts' = [timeouts EXCEPT ![r] = @ + 1] /\ UNCHANGED <<sought, shown, total>>
        /\ \/ timeouts[r] < MLRetries /\ UNCHANGED searchPc
           \/ searchPc' = [searchPc EXCEPT ![r] = "failed"]
    BY <1>3 DEF SearchInv, RecipeSearchTypeOK, TriesAreLeft, TimeOut, GiveUp
  <2>2. RecipeSearchTypeOK'
    <3>1. timeouts[r] + 1 \in 0..MLRetries + 1
      BY <1>0, <2>1
    <3>2. timeouts' \in [Requests -> 0..MLRetries + 1]
      BY <2>1, <3>1 DEF SearchInv, RecipeSearchTypeOK
    <3> QED BY <2>1, <3>2 DEF SearchInv, RecipeSearchTypeOK
  <2>3. PagesAreCut' /\ TriesAreLeft'
    BY <1>0, <2>1 DEF SearchInv, RecipeSearchTypeOK, PagesAreCut, TriesAreLeft
  <2> QED BY <2>2, <2>3 DEF SearchInv
<1> QED BY <1>1, <1>2, <1>3, ShowSearchKeeps, LookUpKeeps DEF RecipeSearchNext

THEOREM SearchInvariance == RecipeSearchSpec => []SearchInv
BY InitSearchInv, NextKeepsSearchInv, PTL DEF RecipeSearchSpec

(***************************************************************************)
(* IngredientPagesReachAll, for any recipes, lists and size of a page: the *)
(* pages before one with a recipe are full, and a search does not come to  *)
(* its total before the last of them.                                      *)
(***************************************************************************)
THEOREM IngredientPagesHold == RecipeSearchSpec => []IngredientPagesReachAll
<1>1. SearchInv => IngredientPagesReachAll
  <2> SUFFICES ASSUME SearchInv, NEW names \in NameLists, NEW r \in Requests, NEW q \in Requests,
                      LookedUp(r, names), LookedUp(q, names), r[2] < q[2], shown[q] # <<>>
               PROVE  /\ Len(shown[r]) = RecipesPerPage
                      /\ r[1] = "ingredients" => total[r] > UpTo(r[2])
    BY DEF IngredientPagesReachAll
  <2>1. /\ shown[r] \in RowsOf(names, r[2]) /\ shown[q] \in RowsOf(names, q[2])
        /\ r[1] = "ingredients" => total[r] = TotalOf(names)
    BY DEF SearchInv, PagesAreCut, LookedUp
  <2>2. /\ r[2] \in Nat \ {0} /\ q[2] \in Nat \ {0} /\ RecipesPerPage \in Nat \ {0}
        /\ UpTo(r[2]) = UpTo(r[2] - 1) + RecipesPerPage /\ UpTo(r[2] - 1) \in Nat
        /\ UpTo(r[2]) <= UpTo(q[2] - 1) /\ UpTo(q[2] - 1) \in Nat
    BY SearchNumbers
  <2>3. Cardinality(WithAll(names)) \in Nat
    BY RecipesAreFinite
  <2>4. LeftFor(names, q[2]) > 0
    BY <2>1, <2>2, RowsOfAPage
  <2>5. Cardinality(WithAll(names)) > UpTo(q[2] - 1)
    BY <2>2, <2>3, <2>4 DEF LeftFor
  <2>6. RecipesPerPage <= LeftFor(names, r[2])
    BY <2>2, <2>3, <2>5 DEF LeftFor
  <2>7. Len(shown[r]) = RecipesPerPage
    BY <2>1, <2>2, <2>6, RowsOfAPage
  <2>8. TotalOf(names) \in Nat /\ Cardinality(WithAll(names)) <= TotalOf(names)
    BY TotalIsEnough
  <2> QED BY <2>1, <2>2, <2>3, <2>5, <2>7, <2>8
<1> QED BY <1>1, SearchInvariance, PTL
=============================================================================
