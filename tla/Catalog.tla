------------------------------- MODULE Catalog -------------------------------
(***************************************************************************)
(* The listings that are kept in Redis beside the tables they are made     *)
(* from: the kok shop's discounted and best selling products, the best of  *)
(* the stores a user bought from, the broadcast schedule and the products  *)
(* recommended for a broadcast's.  A request looks into the cache, reads   *)
(* the tables in one transaction if it finds nothing, and stores what it   *)
(* read.  Nothing that writes the tables tells the cache: an entry goes    *)
(* when it expires or when a route invalidates its kind.                   *)
(***************************************************************************)
EXTENDS Integers, FiniteSets

CONSTANTS
    Views,          \* the requests for a listing
    Subjects,       \* whose listing: a user, a page, a day or a product
    SubjectOf,      \* of each view
    Sweeps,         \* the requests to invalidate the listings
    LastVersion,    \* how often the tables change at most
    EmptyAt         \* the versions of the tables with nothing to list

ASSUME CatalogParameters ==
    /\ SubjectOf \in [Views -> Subjects]
    /\ LastVersion \in Nat
    /\ EmptyAt \subseteq 0..LastVersion

VARIABLES
    listing,        \* which of the listings is looked at
    version,        \* of the tables
    cache,          \* what Redis holds of the listing
    viewPc,
    viewed,         \* what a view has read or was answered
    sweepPc,
    swept           \* what a sweep has found, and when

catalogVars == <<listing, version, cache, viewPc, viewed, sweepPc, swept>>

\* "baseline" is the discounted listing by the query that is kept to compare with.
Listings ==
    {"baseline", "discounted", "top_selling", "store_best", "schedule", "recommendation"}

\* The second page of a best seller is the second page of the whole listing.
Whole == listing = "top_selling"

AnswersFirst == listing = "schedule"

DropsEmpty == listing = "recommendation"

\* The rows as of a version, read by a view, a page of them or all; `simple'
\* are the fixed products that stand in for a failed recommendation.
Rows ==
    [of : Subjects, version : 0..LastVersion, whole : BOOLEAN, simple : BOOLEAN, by : Views]

Empty(rows) == rows.version \in EmptyAt /\ ~ rows.simple

Nothing == [version |-> -1]

\* What a sweep has found of its targets, when, and who was about to store.
Sightings ==
    [targets : SUBSET Subjects, found : SUBSET Subjects, at : 0..LastVersion,
     racing : SUBSET Views]

CatalogTypeOK ==
    /\ listing \in Listings
    /\ version \in 0..LastVersion
    /\ cache \in [Subjects -> Rows \cup {Nothing}]
    /\ viewPc \in [Views -> {"unsent", "missed", "read", "filling", "done", "error"}]
    /\ viewed \in [Views -> Rows \cup {Nothing}]
    /\ sweepPc \in [Sweeps -> {"unsent", "found", "swept", "unswept"}]
    /\ swept \in [Sweeps -> Sightings]

CatalogInit ==
    /\ listing \in Listings
    /\ version = 0
    /\ cache = [k \in Subjects |-> Nothing]
    /\ viewPc = [v \in Views |-> "unsent"]
    /\ viewed = [v \in Views |-> Nothing]
    /\ sweepPc = [s \in Sweeps |-> "unsent"]
    /\ swept = [s \in Sweeps |-> [targets |-> {}, found |-> {}, at |-> 0, racing |-> {}]]

\* Mutant: the key of the cache does not name the user.
SharedKey(v) == CHOOSE k \in Subjects : TRUE

KeyOf(v) == SubjectOf[v]

\* An empty list is stored and taken for a miss.
Hit(v) ==
    /\ viewPc[v] = "unsent"
    /\ listing # "baseline"
    /\ cache[KeyOf(v)] # Nothing
    /\ ~ Empty(cache[KeyOf(v)])
    /\ viewPc' = [viewPc EXCEPT ![v] = "done"]
    /\ viewed' = [viewed EXCEPT ![v] = cache[KeyOf(v)]]
    /\ UNCHANGED <<listing, version, cache, sweepPc, swept>>

\* Whatever Redis holds: its errors are misses.
Miss(v) ==
    /\ viewPc[v] = "unsent"
    /\ viewPc' = [viewPc EXCEPT ![v] = "missed"]
    /\ UNCHANGED <<listing, version, cache, viewed, sweepPc, swept>>

Read(v, simple) ==
    /\ viewPc' = [viewPc EXCEPT ![v] = IF listing = "baseline" THEN "done" ELSE "read"]
    /\ viewed' = [viewed EXCEPT ![v] =
         [of |-> SubjectOf[v], version |-> version, whole |-> FALSE, simple |-> simple,
          by |-> v]]

\* The first of the view's queries; those that follow see the same version.
ReadTables(v) ==
    /\ viewPc[v] = "missed"
    /\ Read(v, FALSE)
    /\ UNCHANGED <<listing, version, cache, sweepPc, swept>>

\* Answered with 500.
FailView(v) ==
    /\ viewPc[v] = "missed"
    /\ listing \notin {"store_best", "recommendation"}
    /\ viewPc' = [viewPc EXCEPT ![v] = "error"]
    /\ UNCHANGED <<listing, version, cache, viewed, sweepPc, swept>>

\* Answered with an empty list, which is not stored.
EmptyBest(v) ==
    /\ viewPc[v] = "missed"
    /\ listing = "store_best"
    /\ viewPc' = [viewPc EXCEPT ![v] = "done"]
    /\ UNCHANGED <<listing, version, cache, viewed, sweepPc, swept>>

\* A failed recommendation is caught, and the simple one is its result like any
\* other, to be stored too; it may find nothing.
FallBack(v) ==
    /\ viewPc[v] = "missed"
    /\ listing = "recommendation"
    /\ \/ Read(v, TRUE)
       \/ viewPc' = [viewPc EXCEPT ![v] = "done"] /\ UNCHANGED viewed
    /\ UNCHANGED <<listing, version, cache, sweepPc, swept>>

\* The best sellers are read again for the cache, all of them.
Stored(v) == [viewed[v] EXCEPT !.whole = Whole]

Store(v) ==
    /\ viewPc[v] = "read" /\ ~ AnswersFirst
    /\ DropsEmpty => ~ Empty(viewed[v])
    /\ cache' = [cache EXCEPT ![KeyOf(v)] = Stored(v)]
    /\ viewPc' = [viewPc EXCEPT ![v] = "done"]
    /\ UNCHANGED <<listing, version, viewed, sweepPc, swept>>

\* An empty recommendation, a failed second query, or Redis is away.
AnswerUnstored(v) ==
    /\ viewPc[v] = "read" /\ ~ AnswersFirst
    /\ viewPc' = [viewPc EXCEPT ![v] = "done"]
    /\ UNCHANGED <<listing, version, cache, viewed, sweepPc, swept>>

\* The schedule is stored by a task of its own.
AnswerSchedule(v) ==
    /\ viewPc[v] = "read" /\ AnswersFirst
    /\ viewPc' = [viewPc EXCEPT ![v] = "filling"]
    /\ UNCHANGED <<listing, version, cache, viewed, sweepPc, swept>>

FillSchedule(v) ==
    /\ viewPc[v] = "filling"
    /\ \E stored \in BOOLEAN :
        cache' = IF stored THEN [cache EXCEPT ![KeyOf(v)] = Stored(v)] ELSE cache
    /\ viewPc' = [viewPc EXCEPT ![v] = "done"]
    /\ UNCHANGED <<listing, version, viewed, sweepPc, swept>>

\* No route invalidates the schedule; a recommendation may be named.
Targets ==
    CASE listing \in {"discounted", "top_selling", "store_best"} -> {Subjects}
      [] listing = "recommendation" -> {Subjects} \cup {{k} : k \in Subjects}
      [] OTHER -> {}

\* KEYS with the pattern of the listing.
FindKeys(s) ==
    /\ sweepPc[s] = "unsent"
    /\ \E targets \in Targets :
        swept' = [swept EXCEPT ![s] =
          [targets |-> targets, found |-> {k \in targets : cache[k] # Nothing},
           at |-> version, racing |-> {v \in Views : viewPc[v] \in {"read", "filling"}}]]
    /\ sweepPc' = [sweepPc EXCEPT ![s] = "found"]
    /\ UNCHANGED <<listing, version, cache, viewPc, viewed>>

\* Mutant: only the first of the keys is deleted.
DeleteOne(s) ==
    /\ sweepPc[s] = "found"
    /\ \E one \in swept[s].found \cup {"none"} :
        cache' = [k \in Subjects |-> IF k = one THEN Nothing ELSE cache[k]]
    /\ sweepPc' = [sweepPc EXCEPT ![s] = "swept"]
    /\ UNCHANGED <<listing, version, viewPc, viewed, swept>>

DeleteKeys(s) ==
    /\ sweepPc[s] = "found"
    /\ cache' = [k \in Subjects |-> IF k \in swept[s].found THEN Nothing ELSE cache[k]]
    /\ sweepPc' = [sweepPc EXCEPT ![s] = "swept"]
    /\ UNCHANGED <<listing, version, viewPc, viewed, swept>>

\* Redis fails: the route answers 200 and that no key was deleted.
FailSweep(s) ==
    /\ sweepPc[s] \in {"unsent", "found"} /\ Targets # {}
    /\ sweepPc' = [sweepPc EXCEPT ![s] = "unswept"]
    /\ UNCHANGED <<listing, version, cache, viewPc, viewed, swept>>

\* The loader of the tables is not part of this system.
UpdateTables ==
    /\ version < LastVersion
    /\ version' = version + 1
    /\ UNCHANGED <<listing, cache, viewPc, viewed, sweepPc, swept>>

Expire ==
    /\ \E k \in Subjects :
        cache[k] # Nothing /\ cache' = [cache EXCEPT ![k] = Nothing]
    /\ UNCHANGED <<listing, version, viewPc, viewed, sweepPc, swept>>

CatalogNext ==
    \/ \E v \in Views :
        \/ Hit(v) \/ Miss(v) \/ ReadTables(v) \/ FailView(v) \/ EmptyBest(v) \/ FallBack(v)
        \/ Store(v) \/ AnswerUnstored(v) \/ AnswerSchedule(v) \/ FillSchedule(v)
    \/ \E s \in Sweeps : FindKeys(s) \/ DeleteKeys(s) \/ FailSweep(s)
    \/ UpdateTables \/ Expire

CatalogSpec == CatalogInit /\ [][CatalogNext]_catalogVars
-----------------------------------------------------------------------------
(***************************************************************************)
(* redis_cache.py:75, KEYS and then DELETE: once an invalidation has       *)
(* succeeded, the cache holds nothing of the kind that is older than the   *)
(* invalidation, except what a view stores that had read the tables and    *)
(* not yet stored it when the keys were looked for.                        *)
(***************************************************************************)
InvalidatedStaysOut ==
    \A s \in Sweeps : sweepPc[s] = "swept" =>
        \A k \in swept[s].targets :
            \/ cache[k] = Nothing
            \/ cache[k].version >= swept[s].at
            \/ cache[k].by \in swept[s].racing

(***************************************************************************)
(* listing_crud.py:205, :394, :626, schedule_crud.py:11: what a view gets  *)
(* from the cache is its own subject's listing, not empty, and is what the *)
(* view that stored it was answered: from the tables, or for a broadcast's *)
(* product the simple recommendation that stood in for a failed one.  Only *)
(* the best sellers come whole where a page was asked for.                 *)
(***************************************************************************)
ServedAsFilled ==
    \A v \in Views : viewed[v] # Nothing =>
        LET filler == viewed[v].by
        IN  /\ viewed[v].of = SubjectOf[v]
            /\ viewed[filler] # Nothing /\ viewed[filler].by = filler
            /\ viewed[filler].of = viewed[v].of
            /\ viewed[filler].version = viewed[v].version
            /\ viewed[filler].simple = viewed[v].simple
            /\ filler # v => ~ Empty(viewed[v])
            /\ viewed[v].whole = (filler # v /\ listing = "top_selling")
            /\ viewed[v].simple => listing = "recommendation"
=============================================================================
