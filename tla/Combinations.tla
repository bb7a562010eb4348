----------------------------- MODULE Combinations -----------------------------
(***************************************************************************)
(* GET /by-ingredients: page 1 proposes recipes for an inventory, page 2   *)
(* others, page 3 others again.  What was proposed on which page is kept   *)
(* by the combination tracker, in the memory of the one server process and *)
(* in a file that it loads when it starts; the file is truncated and then  *)
(* written, so that a crash in between leaves one that cannot be read.     *)
(* This is the tracking of one user and one inventory, which share no key  *)
(* with any other.                                                         *)
(***************************************************************************)
EXTENDS Integers, FiniteSets

CONSTANTS
    PageViews,      \* the requests
    PageOf,         \* which page each asks for
    Dishes,         \* the recipes with one of the ingredients
    PageSize

ASSUME CombinationsParameters ==
    /\ PageOf \in [PageViews -> Nat \ {0}]
    /\ PageSize \in Nat \ {0}

Combos == 1..3

VARIABLES
    tracked,        \* memory_cache: by combination, the recipes it used
    trackedFile,    \* the file of it, or Torn
    unsaved,        \* whether the last save failed
    old,            \* whether a timestamp is over six hours old
    pagePc,
    excluded,       \* what a request leaves out
    proposed,       \* its answer
    lastTold,       \* the last answer to each page that is not forgotten
    known           \* what the lower pages had answered when a request began

combinationsVars ==
    <<tracked, trackedFile, unsaved, old, pagePc, excluded, proposed, lastTold, known>>

Untracked == [c \in Combos |-> {}]

\* What a half written file holds: nothing that can be read.
Torn == <<>>

CombinationsTypeOK ==
    /\ tracked \in [Combos -> SUBSET Dishes]
    /\ trackedFile \in [Combos -> SUBSET Dishes] \cup {Torn}
    /\ unsaved \in BOOLEAN
    /\ old \in BOOLEAN
    /\ pagePc \in [PageViews -> {"unsent", "begun", "saving", "writing", "saved", "done", "lost"}]
    /\ excluded \in [PageViews -> SUBSET Dishes]
    /\ proposed \in [PageViews -> SUBSET Dishes]
    /\ lastTold \in [Combos -> SUBSET Dishes]
    /\ known \in [PageViews -> SUBSET Dishes]

CombinationsInit ==
    /\ tracked = Untracked
    /\ trackedFile = Untracked
    /\ unsaved = FALSE
    /\ old = FALSE
    /\ pagePc = [v \in PageViews |-> "unsent"]
    /\ excluded = [v \in PageViews |-> {}]
    /\ proposed = [v \in PageViews |-> {}]
    /\ lastTold = Untracked
    /\ known = [v \in PageViews |-> {}]

\* Tracking does not await: while it saves, the process does nothing else.
Idle == \A v \in PageViews : pagePc[v] \notin {"saving", "writing", "saved"}

LowerCombos(v) == {c \in Combos : c < PageOf[v]}

\* The first page's query takes no recipes to leave out.
BeginPage(v) ==
    /\ pagePc[v] = "unsent" /\ Idle
    /\ pagePc' = [pagePc EXCEPT ![v] = "begun"]
    /\ excluded' = [excluded EXCEPT ![v] = UNION {tracked[c] : c \in LowerCombos(v)}]
    /\ known' = [known EXCEPT ![v] = UNION {lastTold[c] : c \in LowerCombos(v)}]
    /\ UNCHANGED <<tracked, trackedFile, unsaved, old, proposed, lastTold>>

\* Beyond the third page, nothing useful to cook, or a failed query.
AnswerNoRecipe(v) ==
    /\ pagePc[v] = "begun" /\ Idle
    /\ pagePc' = [pagePc EXCEPT ![v] = "done"]
    /\ UNCHANGED <<tracked, trackedFile, unsaved, old, excluded, proposed, lastTold, known>>

\* The pool is what is not excluded; the inventory's choice is up to the stock.
Proposals(v) ==
    {recipes \in SUBSET (Dishes \ excluded[v]) :
        recipes # {} /\ Cardinality(recipes) <= PageSize}

Track(v) ==
    /\ pagePc[v] = "begun" /\ Idle
    /\ PageOf[v] \in Combos
    /\ \E recipes \in Proposals(v) :
        /\ proposed' = [proposed EXCEPT ![v] = recipes]
        /\ tracked' = [tracked EXCEPT ![PageOf[v]] = recipes]
    /\ pagePc' = [pagePc EXCEPT ![v] = "saving"]
    /\ UNCHANGED <<trackedFile, unsaved, old, excluded, lastTold, known>>

\* open(..., 'w') empties the file.
OpenFile(v) ==
    /\ pagePc[v] = "saving"
    /\ trackedFile' = Torn
    /\ pagePc' = [pagePc EXCEPT ![v] = "writing"]
    /\ UNCHANGED <<tracked, unsaved, old, excluded, proposed, lastTold, known>>

\* Mutant: the file is written when the process ends in good order.
KeepInMemory(v) ==
    /\ pagePc[v] = "writing"
    /\ trackedFile' = Untracked
    /\ unsaved' = FALSE
    /\ pagePc' = [pagePc EXCEPT ![v] = "saved"]
    /\ UNCHANGED <<tracked, old, excluded, proposed, lastTold, known>>

WriteFile(v) ==
    /\ pagePc[v] = "writing"
    /\ trackedFile' = tracked
    /\ unsaved' = FALSE
    /\ pagePc' = [pagePc EXCEPT ![v] = "saved"]
    /\ UNCHANGED <<tracked, old, excluded, proposed, lastTold, known>>

\* Only logged: the file stays what it was, or torn.
FailSave(v) ==
    /\ pagePc[v] \in {"saving", "writing"}
    /\ unsaved' = TRUE
    /\ pagePc' = [pagePc EXCEPT ![v] = "saved"]
    /\ UNCHANGED <<tracked, trackedFile, old, excluded, proposed, lastTold, known>>

(***************************************************************************)
(* If the last cleanup is ten minutes ago: one page that is over six hours *)
(* old makes it forget every page, the one about to be answered too, and   *)
(* save again.                                                             *)
(***************************************************************************)
CleanTracked(v) ==
    /\ pagePc[v] = "saved" /\ old
    /\ tracked' = Untracked
    /\ old' = FALSE
    /\ lastTold' = Untracked
    /\ pagePc' = [pagePc EXCEPT ![v] = "saving"]
    /\ UNCHANGED <<trackedFile, unsaved, excluded, proposed, known>>

AnswerPage(v) ==
    /\ pagePc[v] = "saved"
    /\ pagePc' = [pagePc EXCEPT ![v] = "done"]
    /\ lastTold' = IF tracked[PageOf[v]] = proposed[v]
               THEN [lastTold EXCEPT ![PageOf[v]] = proposed[v]] ELSE lastTold
    /\ UNCHANGED <<tracked, trackedFile, unsaved, old, excluded, proposed, known>>

\* The response does not validate: 500, and the page's last answer is replaced.
FailPage(v) ==
    /\ pagePc[v] = "saved"
    /\ pagePc' = [pagePc EXCEPT ![v] = "lost"]
    /\ lastTold' = [lastTold EXCEPT ![PageOf[v]] = {}]
    /\ UNCHANGED <<tracked, trackedFile, unsaved, old, excluded, proposed, known>>

Age ==
    /\ Idle /\ ~ old /\ tracked # Untracked
    /\ old' = TRUE
    /\ UNCHANGED <<tracked, trackedFile, unsaved, pagePc, excluded, proposed, lastTold, known>>

\* A page whose saved answer is not sent has overwritten the answer before.
Replaced == {PageOf[v] : v \in {w \in PageViews : pagePc[w] = "saved"}}

\* The process ends, at any point, and is started again.
Restart ==
    /\ tracked' = IF trackedFile = Torn THEN Untracked ELSE trackedFile
    /\ lastTold' = [c \in Combos |->
         IF trackedFile = Torn \/ unsaved \/ c \in Replaced THEN {} ELSE lastTold[c]]
    /\ unsaved' = FALSE
    /\ old' = (old /\ tracked' # Untracked)
    /\ pagePc' = [v \in PageViews |->
         IF pagePc[v] \in {"unsent", "done"} THEN pagePc[v] ELSE "lost"]
    /\ UNCHANGED <<trackedFile, excluded, proposed, known>>

CombinationsNext ==
    \/ \E v \in PageViews :
        \/ BeginPage(v) \/ AnswerNoRecipe(v) \/ Track(v) \/ OpenFile(v) \/ WriteFile(v)
        \/ FailSave(v) \/ CleanTracked(v) \/ AnswerPage(v) \/ FailPage(v)
    \/ Age \/ Restart

CombinationsSpec == CombinationsInit /\ [][CombinationsNext]_combinationsVars
-----------------------------------------------------------------------------
(***************************************************************************)
(* combination_tracker.py:95 and :117, recommendation_router.py:62: a page *)
(* proposes no recipe that a lower page had last answered when the request *)
(* began, though others were asked for in between and the server restarted *)
(* -- unless the tracker had forgotten: after six hours, or because the    *)
(* process ended before the file was written, or before a later answer to  *)
(* that page was sent.                                                     *)
(***************************************************************************)
LowerPagesAreExcluded ==
    \A v \in PageViews : pagePc[v] = "done" => proposed[v] \cap known[v] = {}
=============================================================================
