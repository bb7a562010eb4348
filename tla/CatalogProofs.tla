----------------------------- MODULE CatalogProofs -----------------------------
(***************************************************************************)
(* What the listings kept in Redis may hold and what a view may get from   *)
(* them, for any numbers of views, subjects, invalidations and changes of  *)
(* the tables; and that an order is charged what it was ordered for, for   *)
(* any number of lines and any prices.                                     *)
(***************************************************************************)
EXTENDS Catalog, OrderPrices, FoldProofs

\* Where a view stands tells what it has seen; no row is newer than the tables.
ViewsInOrder ==
    \A v \in Views :
        /\ viewPc[v] \in {"unsent", "missed", "error"} => viewed[v] = Nothing
        /\ viewPc[v] \in {"read", "filling"} => viewed[v] # Nothing /\ viewed[v].by = v
        /\ viewed[v] # Nothing =>
            /\ viewed[v].version <= version
            /\ viewPc[viewed[v].by] \in {"read", "filling", "done"}

\* An entry is its subject's, and what the view that stored it was answered.
EntriesAreAnswers ==
    \A k \in Subjects : cache[k] # Nothing =>
        /\ cache[k].of = k
        /\ cache[k].whole = Whole
        /\ viewPc[cache[k].by] = "done"
        /\ viewed[cache[k].by] # Nothing /\ viewed[cache[k].by].by = cache[k].by
        /\ viewed[cache[k].by].of = cache[k].of
        /\ viewed[cache[k].by].version = cache[k].version
        /\ viewed[cache[k].by].simple = cache[k].simple
        /\ cache[k].simple => listing = "recommendation"

\* A sweep's exceptions: an entry, or a view about to store one, is not older
\* than the sweep, or was racing it, or will be deleted by it.
Excused(s, row) == row.version >= swept[s].at \/ row.by \in swept[s].racing

SweepsInOrder ==
    \A s \in Sweeps : sweepPc[s] \in {"found", "swept"} =>
        /\ swept[s].found \subseteq swept[s].targets
        /\ swept[s].at <= version
        /\ \A v \in Views : viewPc[v] \in {"read", "filling"} => Excused(s, viewed[v])
        /\ \A k \in swept[s].targets :
            \/ cache[k] = Nothing
            \/ Excused(s, cache[k])
            \/ sweepPc[s] = "found" /\ k \in swept[s].found

CatalogInv ==
    CatalogTypeOK /\ ServedAsFilled /\ ViewsInOrder /\ EntriesAreAnswers /\ SweepsInOrder

LEMMA NothingIsNoRow == Nothing \notin Rows
  BY DEF Nothing, Rows

LEMMA InitCatalogInv == CatalogInit => CatalogInv
<1> SUFFICES ASSUME CatalogInit PROVE CatalogInv
  OBVIOUS
<1>1. CatalogTypeOK
  BY CatalogParameters DEF CatalogInit, CatalogTypeOK, Sightings, Listings
<1>2. ServedAsFilled /\ ViewsInOrder /\ EntriesAreAnswers /\ SweepsInOrder
  BY DEF CatalogInit, ServedAsFilled, ViewsInOrder, EntriesAreAnswers, SweepsInOrder
<1> QED BY <1>1, <1>2 DEF CatalogInv

\* A view that goes on without touching the cache, what it has seen unchanged.
LEMMA ViewMoves ==
    ASSUME CatalogInv, NEW v \in Views,
           UNCHANGED <<listing, version, cache, viewed, sweepPc, swept>>,
           NEW to \in {"missed", "filling", "done", "error"},
           viewPc' = [viewPc EXCEPT ![v] = to],
           \/ viewPc[v] \in {"unsent", "missed"} /\ to # "filling"
           \/ viewPc[v] \in {"read", "filling"} /\ to \in {"filling", "done"}
    PROVE  CatalogInv'
<1>1. CatalogTypeOK'
  BY DEF CatalogInv, CatalogTypeOK, Sightings, Rows, Listings
<1>2. viewPc'[v] = to /\ \A w \in Views \ {v} : viewPc'[w] = viewPc[w]
  BY DEF CatalogInv, CatalogTypeOK
<1>3. ServedAsFilled'
  BY DEF CatalogInv, ServedAsFilled
<1>4. ViewsInOrder'
  BY <1>2 DEF CatalogInv, ViewsInOrder, CatalogTypeOK, Rows
<1>5. EntriesAreAnswers'
  BY <1>2 DEF CatalogInv, EntriesAreAnswers, CatalogTypeOK, Rows, Whole
<1>6. SweepsInOrder'
  BY <1>2 DEF CatalogInv, SweepsInOrder, Excused
<1> QED BY <1>1, <1>3, <1>4, <1>5, <1>6 DEF CatalogInv

\* An entry is another view's, and that view is done.
LEMMA HitKeeps == ASSUME CatalogInv, NEW v \in Views, Hit(v) PROVE CatalogInv'
<1> DEFINE k == SubjectOf[v]
<1>1. k \in Subjects /\ cache[k] \in Rows /\ cache[k] # Nothing
  BY CatalogParameters DEF CatalogInv, CatalogTypeOK, Hit, KeyOf
<1>2. /\ viewPc'[v] = "done" /\ viewed'[v] = cache[k]
      /\ \A w \in Views \ {v} : viewPc'[w] = viewPc[w] /\ viewed'[w] = viewed[w]
  BY DEF CatalogInv, CatalogTypeOK, Hit, KeyOf
<1>3. CatalogTypeOK'
  BY <1>1 DEF CatalogInv, CatalogTypeOK, Hit, KeyOf, Listings
<1>4. /\ cache[k].by \in Views \ {v} /\ viewPc[cache[k].by] = "done"
      /\ viewed[cache[k].by] # Nothing /\ viewed[cache[k].by].by = cache[k].by
      /\ viewed[cache[k].by].of = k /\ cache[k].of = k
      /\ viewed[cache[k].by].version = cache[k].version
      /\ viewed[cache[k].by].simple = cache[k].simple
      /\ cache[k].simple => listing = "recommendation"
      /\ cache[k].version <= version /\ cache[k].whole = Whole
  BY <1>1 DEF CatalogInv, EntriesAreAnswers, ViewsInOrder, Rows, Hit
<1>5. viewPc[v] = "unsent"
  BY DEF Hit
<1>6. \A w \in Views \ {v} : viewed[w] # Nothing => viewed[w] \in Rows /\ viewed[w].by # v
  BY <1>5 DEF CatalogInv, CatalogTypeOK, ViewsInOrder
<1>7. ServedAsFilled'
  <2> SUFFICES ASSUME NEW w \in Views, viewed'[w] # Nothing
               PROVE  ServedAsFilled!(w)'
    BY NothingIsNoRow DEF ServedAsFilled, Nothing
  <2>1. CASE w = v
    BY <1>1, <1>2, <1>4, <2>1 DEF Hit, KeyOf, Whole, Rows
  <2>2. CASE w # v
    BY <1>2, <1>6, <2>2 DEF CatalogInv, ServedAsFilled, Hit, Rows
  <2> QED BY <2>1, <2>2
<1>8. ViewsInOrder'
  BY <1>1, <1>2, <1>4, <1>6 DEF CatalogInv, ViewsInOrder, Hit, Rows
<1>9. EntriesAreAnswers'
  BY <1>2, <1>5 DEF CatalogInv, CatalogTypeOK, EntriesAreAnswers, Hit, Whole, Rows
<1>10. SweepsInOrder'
  BY <1>2 DEF CatalogInv, SweepsInOrder, Excused, Hit
<1> QED BY <1>3, <1>7, <1>8, <1>9, <1>10 DEF CatalogInv

\* What is read now is not older than any sweep.
LEMMA ReadKeeps ==
    ASSUME CatalogInv, NEW v \in Views, viewPc[v] = "missed", NEW simple \in BOOLEAN,
           simple => listing = "recommendation", Read(v, simple),
           UNCHANGED <<listing, version, cache, sweepPc, swept>>
    PROVE  CatalogInv'
<1> DEFINE row == [of |-> SubjectOf[v], version |-> version, whole |-> FALSE,
                   simple |-> simple, by |-> v]
<1>1. row \in Rows /\ row # Nothing
  <2>1. SubjectOf[v] \in Subjects /\ version \in 0..LastVersion
    BY CatalogParameters DEF CatalogInv, CatalogTypeOK
  <2>2. row \in Rows
    BY <2>1 DEF Rows
  <2> QED BY <2>2, NothingIsNoRow
<1>2. /\ viewPc'[v] \in {"read", "done"} /\ viewed'[v] = row
      /\ \A w \in Views \ {v} : viewPc'[w] = viewPc[w] /\ viewed'[w] = viewed[w]
  BY DEF CatalogInv, CatalogTypeOK, Read
<1>3. /\ row.of = SubjectOf[v] /\ row.version = version /\ row.whole = FALSE
      /\ row.simple = simple /\ row.by = v
  OBVIOUS
<1>4. CatalogTypeOK'
  BY <1>1 DEF CatalogInv, CatalogTypeOK, Read, Listings
<1>5. viewPc[v] = "missed" /\ viewed[v] = Nothing
  BY DEF CatalogInv, ViewsInOrder
<1>6. \A w \in Views \ {v} : viewed[w] # Nothing => viewed[w] \in Rows /\ viewed[w].by # v
  BY <1>5 DEF CatalogInv, CatalogTypeOK, ViewsInOrder
<1> HIDE DEF row
<1>7. ServedAsFilled'
  <2>1. listing' = listing
    BY DEF Read
  <2>2. ServedAsFilled!(v)'
    BY <1>1, <1>2, <1>3
  <2>3. ASSUME NEW w \in Views \ {v} PROVE ServedAsFilled!(w)'
    BY <1>2, <1>6, <2>1, <2>3 DEF CatalogInv, ServedAsFilled, Rows
  <2> QED BY <2>2, <2>3 DEF ServedAsFilled
<1>8. ViewsInOrder'
  <2>1. version \in Int /\ version' = version
    BY CatalogParameters DEF CatalogInv, CatalogTypeOK, Read
  <2>2. ViewsInOrder!(v)'
    BY <1>1, <1>2, <1>3, <2>1
  <2>3. ASSUME NEW w \in Views \ {v} PROVE ViewsInOrder!(w)'
    BY <1>2, <1>6, <2>1, <2>3 DEF CatalogInv, ViewsInOrder, Rows
  <2> QED BY <2>2, <2>3 DEF ViewsInOrder
<1>9. EntriesAreAnswers'
  BY <1>2, <1>5 DEF CatalogInv, CatalogTypeOK, EntriesAreAnswers, Read, Whole, Rows
<1>10. SweepsInOrder'
  BY <1>1, <1>2, <1>3 DEF CatalogInv, CatalogTypeOK, SweepsInOrder, Excused, Read, Rows
<1> QED BY <1>4, <1>7, <1>8, <1>9, <1>10 DEF CatalogInv

\* What is stored is as old as what its view has seen.
LEMMA StoreKeeps ==
    ASSUME CatalogInv, NEW v \in Views, viewPc[v] \in {"read", "filling"},
           cache' = [cache EXCEPT ![KeyOf(v)] = Stored(v)],
           viewPc' = [viewPc EXCEPT ![v] = "done"],
           UNCHANGED <<listing, version, viewed, sweepPc, swept>>
    PROVE  CatalogInv'
<1> DEFINE k == SubjectOf[v]
           row == Stored(v)
<1>1. /\ k \in Subjects /\ viewed[v] \in Rows /\ viewed[v] # Nothing /\ viewed[v].by = v
      /\ viewed[v].of = k /\ viewed[v].version <= version
      /\ viewed[v].simple => listing = "recommendation"
  <2>1. k \in Subjects
    BY CatalogParameters
  <2>2. viewed[v] # Nothing /\ viewed[v].by = v /\ viewed[v].version <= version
    BY DEF CatalogInv, ViewsInOrder
  <2>3. viewed[v] \in Rows
    BY <2>2 DEF CatalogInv, CatalogTypeOK
  <2>4. viewed[v].of = k /\ (viewed[v].simple => listing = "recommendation")
    BY <2>2 DEF CatalogInv, ServedAsFilled
  <2> QED BY <2>1, <2>2, <2>3, <2>4
<1>2. /\ row.of = k /\ row.version = viewed[v].version /\ row.whole = Whole /\ row.by = v
      /\ row.simple = viewed[v].simple /\ (row.simple => listing = "recommendation")
      /\ row \in Rows /\ row # Nothing
  BY <1>1, NothingIsNoRow DEF Stored, Rows, Whole
<1> HIDE DEF row
<1>3. cache'[k] = row /\ \A other \in Subjects \ {k} : cache'[other] = cache[other]
  BY <1>1 DEF CatalogInv, CatalogTypeOK, KeyOf, row
<1>4. viewPc'[v] = "done" /\ \A w \in Views \ {v} : viewPc'[w] = viewPc[w]
  BY DEF CatalogInv, CatalogTypeOK
<1>5. CatalogTypeOK'
  <2>1. cache' \in [Subjects -> Rows \cup {Nothing}]
    BY <1>1, <1>2 DEF CatalogInv, CatalogTypeOK, KeyOf, row
  <2> QED BY <2>1 DEF CatalogInv, CatalogTypeOK, Sightings, Listings
<1>6. ServedAsFilled'
  BY DEF CatalogInv, ServedAsFilled
<1>7. ViewsInOrder'
  BY <1>1, <1>4 DEF CatalogInv, CatalogTypeOK, ViewsInOrder, Rows
<1>8. EntriesAreAnswers'
  <2>1. EntriesAreAnswers!(k)'
    BY <1>1, <1>2, <1>3, <1>4 DEF Whole
  <2>2. ASSUME NEW other \in Subjects \ {k} PROVE EntriesAreAnswers!(other)'
    BY <1>3, <1>4, <2>2 DEF CatalogInv, CatalogTypeOK, EntriesAreAnswers, Whole, Rows
  <2> QED BY <2>1, <2>2 DEF EntriesAreAnswers
<1>9. SweepsInOrder'
  <2> SUFFICES ASSUME NEW s \in Sweeps, sweepPc[s] \in {"found", "swept"}
               PROVE  SweepsInOrder!(s)'
    BY DEF SweepsInOrder
  <2>1. Excused(s, viewed[v]) => Excused(s, row)
    BY <1>1, <1>2 DEF Excused
  <2>2. Excused(s, viewed[v])
    BY DEF CatalogInv, SweepsInOrder
  <2>3. SweepsInOrder!(s)
    BY DEF CatalogInv, SweepsInOrder
  <2>4. \A w \in Views : viewPc'[w] \in {"read", "filling"} => Excused(s, viewed[w])
    BY <1>4, <2>3
  <2>5. \A other \in swept[s].targets :
            \/ cache'[other] = Nothing
            \/ Excused(s, cache'[other])
            \/ sweepPc[s] = "found" /\ other \in swept[s].found
    <3>1. swept[s].targets \subseteq Subjects
      BY DEF CatalogInv, CatalogTypeOK, Sightings
    <3> QED BY <1>3, <2>1, <2>2, <2>3, <3>1
  <2> QED BY <2>3, <2>4, <2>5 DEF Excused
<1> QED BY <1>5, <1>6, <1>7, <1>8, <1>9 DEF CatalogInv

\* A deletion, by a sweep or as time runs out.
LEMMA DeletionKeeps ==
    ASSUME CatalogInv, NEW gone \in SUBSET Subjects,
           cache' = [k \in Subjects |-> IF k \in gone THEN Nothing ELSE cache[k]],
           UNCHANGED <<listing, version, viewPc, viewed, swept>>,
           \/ UNCHANGED sweepPc
           \/ \E s \in Sweeps :
                /\ sweepPc' = [sweepPc EXCEPT ![s] = "unswept"]
                /\ sweepPc[s] \in {"unsent", "found"}
           \/ \E s \in Sweeps :
                /\ sweepPc' = [sweepPc EXCEPT ![s] = "swept"]
                /\ sweepPc[s] = "found"
                /\ gone = swept[s].found
    PROVE  CatalogInv'
<1>1. CatalogTypeOK'
  BY DEF CatalogInv, CatalogTypeOK, Listings, Sightings, Rows
<1>2. \A k \in Subjects :
        /\ k \in gone => cache'[k] = Nothing
        /\ k \notin gone => cache'[k] = cache[k]
  OBVIOUS
<1>3. ServedAsFilled' /\ ViewsInOrder'
  BY DEF CatalogInv, ServedAsFilled, ViewsInOrder
<1>4. EntriesAreAnswers'
  BY <1>2 DEF CatalogInv, EntriesAreAnswers, Whole
<1>5. SweepsInOrder'
  <2> SUFFICES ASSUME NEW s \in Sweeps, sweepPc'[s] \in {"found", "swept"}
               PROVE  SweepsInOrder!(s)'
    BY DEF SweepsInOrder
  <2>1. \/ sweepPc'[s] = sweepPc[s]
        \/ sweepPc'[s] = "swept" /\ sweepPc[s] = "found" /\ gone = swept[s].found
    BY DEF CatalogInv, CatalogTypeOK
  <2>2. swept[s].targets \subseteq Subjects
    BY DEF CatalogInv, CatalogTypeOK, Sightings
  <2> QED BY <1>2, <2>1, <2>2 DEF CatalogInv, SweepsInOrder, Excused
<1> QED BY <1>1, <1>3, <1>4, <1>5 DEF CatalogInv

\* When the keys are looked for, everything in the cache is found.
LEMMA FindKeysKeeps == ASSUME CatalogInv, NEW s \in Sweeps, FindKeys(s) PROVE CatalogInv'
<1> PICK targets \in Targets :
        swept' = [swept EXCEPT ![s] =
          [targets |-> targets, found |-> {k \in targets : cache[k] # Nothing},
           at |-> version, racing |-> {v \in Views : viewPc[v] \in {"read", "filling"}}]]
  BY DEF FindKeys
<1> DEFINE sight ==
             [targets |-> targets, found |-> {k \in targets : cache[k] # Nothing},
              at |-> version, racing |-> {v \in Views : viewPc[v] \in {"read", "filling"}}]
<1>1. targets \subseteq Subjects
  BY DEF Targets
<1>2. sight \in Sightings
  BY <1>1 DEF CatalogInv, CatalogTypeOK, Sightings
<1>3. /\ sight.targets = targets /\ sight.found = {k \in targets : cache[k] # Nothing}
      /\ sight.at = version
      /\ sight.racing = {v \in Views : viewPc[v] \in {"read", "filling"}}
  OBVIOUS
<1>4. /\ swept'[s] = sight /\ sweepPc'[s] = "found"
      /\ \A t \in Sweeps \ {s} : swept'[t] = swept[t] /\ sweepPc'[t] = sweepPc[t]
  BY DEF CatalogInv, CatalogTypeOK, FindKeys
<1>5. CatalogTypeOK'
  BY <1>2 DEF CatalogInv, CatalogTypeOK, FindKeys, Listings
<1> HIDE DEF sight
<1>6. ServedAsFilled' /\ ViewsInOrder' /\ EntriesAreAnswers'
  BY DEF CatalogInv, ServedAsFilled, ViewsInOrder, EntriesAreAnswers, Whole, FindKeys
<1>7. SweepsInOrder'
  <2>1. /\ UNCHANGED <<version, cache, viewPc, viewed>>
        /\ version \in Int
    BY CatalogParameters DEF FindKeys, CatalogInv, CatalogTypeOK
  <2>2. \A v \in Views : viewPc[v] \in {"read", "filling"} => viewed[v].by = v
    BY DEF CatalogInv, ViewsInOrder
  <2>3. SweepsInOrder!(s)'
    BY <1>3, <1>4, <2>1, <2>2 DEF Excused
  <2>4. ASSUME NEW t \in Sweeps \ {s} PROVE SweepsInOrder!(t)'
    BY <1>4, <2>1, <2>4 DEF CatalogInv, SweepsInOrder, Excused
  <2> QED BY <2>3, <2>4 DEF SweepsInOrder
<1> QED BY <1>5, <1>6, <1>7 DEF CatalogInv

LEMMA UpdateTablesKeeps == ASSUME CatalogInv, UpdateTables PROVE CatalogInv'
<1>1. version \in Nat /\ version' = version + 1 /\ version' \in 0..LastVersion
  BY CatalogParameters DEF CatalogInv, CatalogTypeOK, UpdateTables
<1>2. UNCHANGED <<listing, cache, viewPc, viewed, sweepPc, swept>>
  BY DEF UpdateTables
<1>3. CatalogTypeOK'
  BY <1>1, <1>2 DEF CatalogInv, CatalogTypeOK
<1>4. ServedAsFilled' /\ EntriesAreAnswers'
  BY <1>2 DEF CatalogInv, ServedAsFilled, EntriesAreAnswers, Whole
<1>5. ViewsInOrder'
  BY <1>1, <1>2 DEF CatalogInv, CatalogTypeOK, ViewsInOrder, Rows
<1>6. SweepsInOrder'
  BY <1>1, <1>2 DEF CatalogInv, CatalogTypeOK, SweepsInOrder, Excused, Sightings
<1> QED BY <1>3, <1>4, <1>5, <1>6 DEF CatalogInv

LEMMA NextKeepsCatalogInv == CatalogInv /\ [CatalogNext]_catalogVars => CatalogInv'
<1> SUFFICES ASSUME CatalogInv, [CatalogNext]_catalogVars PROVE CatalogInv'
  OBVIOUS
<1>1. ASSUME NEW v \in Views, Hit(v) PROVE CatalogInv'
  BY <1>1, HitKeeps
<1>2. ASSUME NEW v \in Views, Miss(v) PROVE CatalogInv'
  BY <1>2, ViewMoves DEF Miss
<1>3. ASSUME NEW v \in Views, ReadTables(v) PROVE CatalogInv'
  BY <1>3, ReadKeeps DEF ReadTables
<1>4. ASSUME NEW v \in Views, FailView(v) PROVE CatalogInv'
  BY <1>4, ViewMoves DEF FailView
<1>5. ASSUME NEW v \in Views, EmptyBest(v) \/ FallBack(v) PROVE CatalogInv'
  <2>1. CASE FallBack(v) /\ Read(v, TRUE)
    BY <2>1, ReadKeeps DEF FallBack
  <2> QED BY <1>5, <2>1, ViewMoves DEF EmptyBest, FallBack
<1>6. ASSUME NEW v \in Views, AnswerUnstored(v) PROVE CatalogInv'
  BY <1>6, ViewMoves DEF AnswerUnstored
<1>7. ASSUME NEW v \in Views, AnswerSchedule(v) PROVE CatalogInv'
  BY <1>7, ViewMoves DEF AnswerSchedule
<1>8. ASSUME NEW v \in Views, Store(v) PROVE CatalogInv'
  BY <1>8, StoreKeeps DEF Store
<1>9. ASSUME NEW v \in Views, FillSchedule(v) PROVE CatalogInv'
  <2>1. CASE cache' = [cache EXCEPT ![KeyOf(v)] = Stored(v)]
    BY <1>9, <2>1, StoreKeeps DEF FillSchedule
  <2>2. CASE cache' = cache
    <3>1. /\ viewPc[v] = "filling" /\ viewPc' = [viewPc EXCEPT ![v] = "done"]
          /\ UNCHANGED <<listing, version, cache, viewed, sweepPc, swept>>
      BY <1>9, <2>2 DEF FillSchedule
    <3> QED BY <3>1, ViewMoves
  <2> QED BY <1>9, <2>1, <2>2 DEF FillSchedule
<1>10. ASSUME NEW s \in Sweeps, FindKeys(s) PROVE CatalogInv'
  BY <1>10, FindKeysKeeps
<1>11. ASSUME NEW s \in Sweeps, DeleteKeys(s) PROVE CatalogInv'
  <2>1. swept[s].found \in SUBSET Subjects
    BY DEF CatalogInv, CatalogTypeOK, Sightings
  <2> QED BY <1>11, <2>1, DeletionKeeps DEF DeleteKeys
<1>12. ASSUME NEW s \in Sweeps, FailSweep(s) PROVE CatalogInv'
  <2>1. cache' = [k \in Subjects |-> IF k \in {} THEN Nothing ELSE cache[k]]
    BY <1>12 DEF FailSweep, CatalogInv, CatalogTypeOK
  <2>2. /\ {} \in SUBSET Subjects
        /\ sweepPc' = [sweepPc EXCEPT ![s] = "unswept"] /\ sweepPc[s] \in {"unsent", "found"}
        /\ UNCHANGED <<listing, version, viewPc, viewed, swept>>
    BY <1>12 DEF FailSweep
  <2> HIDE DEF CatalogInv
  <2> QED BY <2>1, <2>2, DeletionKeeps
<1>13. CASE UpdateTables
  BY <1>13, UpdateTablesKeeps
<1>14. CASE Expire
  <2> PICK k \in Subjects : cache' = [cache EXCEPT ![k] = Nothing]
    BY <1>14 DEF Expire
  <2>1. cache' = [l \in Subjects |-> IF l \in {k} THEN Nothing ELSE cache[l]]
    BY DEF CatalogInv, CatalogTypeOK
  <2> QED BY <1>14, <2>1, DeletionKeeps DEF Expire
<1>15. CASE UNCHANGED catalogVars
  BY <1>15 DEF catalogVars, CatalogInv, CatalogTypeOK, ServedAsFilled, ViewsInOrder,
               EntriesAreAnswers, SweepsInOrder, Excused, Whole
<1> QED BY <1>1, <1>2, <1>3, <1>4, <1>5, <1>6, <1>7, <1>8, <1>9, <1>10, <1>11, <1>12,
           <1>13, <1>14, <1>15 DEF CatalogNext

THEOREM CatalogInvariance == CatalogSpec => []CatalogInv
BY InitCatalogInv, NextKeepsCatalogInv, PTL DEF CatalogSpec

(***************************************************************************)
(* InvalidatedStaysOut, for any numbers of views and invalidations: only a *)
(* view that raced an invalidation can bring back what it deleted.         *)
(***************************************************************************)
THEOREM InvalidationHolds == CatalogSpec => []InvalidatedStaysOut
<1>1. CatalogInv => InvalidatedStaysOut
  BY DEF CatalogInv, SweepsInOrder, Excused, InvalidatedStaysOut
<1> QED BY <1>1, CatalogInvariance, PTL

(***************************************************************************)
(* ServedAsFilled, for any numbers of views and subjects: what the cache   *)
(* answers is what the tables answered before, for the same subject.       *)
(***************************************************************************)
THEOREM ServedTruly == CatalogSpec => []ServedAsFilled
<1>1. CatalogInv => ServedAsFilled
  BY DEF CatalogInv
<1> QED BY <1>1, CatalogInvariance, PTL
-----------------------------------------------------------------------------
\* What orders cost.

\* No payment before the order; what is stored adds up to what was told.
PricesInv ==
    /\ OrderPricesTypeOK
    /\ ChargedAsOrdered
    /\ ordered = StoredTotal
    /\ purchase = [l \in {} |-> 0] => charged = {}

LEMMA LinesAreFinite == ASSUME NEW lines \in SUBSET OrderLines PROVE IsFiniteSet(lines)
  BY OrderPricesParameters, FS_Subset

LEMMA LinePriceType ==
    ASSUME OrderPricesTypeOK, NEW l \in OrderLines, NEW quantity \in Quantities
    PROVE  LinePrice(l, quantity) \in Nat
<1>1. KokUnitPrice(offers[l]) \in Nat /\ HsUnitPrice(offers[l]) \in Nat
  BY OrderPricesParameters DEF OrderPricesTypeOK, Offer, KokUnitPrice, HsUnitPrice
<1> QED BY <1>1, OrderPricesParameters DEF LinePrice

LEMMA SumOverType ==
    ASSUME NEW lines \in SUBSET OrderLines, NEW f, DOMAIN f = lines, AreNumbers(f, lines)
    PROVE  SumOver(f) \in Nat
  BY LinesAreFinite, SumType DEF SumOver, SumFunction

LEMMA StoredTotalType == OrderPricesTypeOK => StoredTotal \in Nat
<1> SUFFICES ASSUME OrderPricesTypeOK PROVE StoredTotal \in Nat
  OBVIOUS
<1> DEFINE f == [l \in DOMAIN purchase |-> purchase[l].price]
<1>1. DOMAIN f = DOMAIN purchase /\ DOMAIN purchase \in SUBSET OrderLines
      /\ AreNumbers(f, DOMAIN purchase)
  BY DEF OrderPricesTypeOK, AreNumbers
<1> HIDE DEF f
<1>2. SumOver(f) \in Nat
  BY <1>1, SumOverType
<1> QED BY <1>2 DEF StoredTotal, f

LEMMA InitPricesInv == OrderPricesInit => PricesInv
<1> SUFFICES ASSUME OrderPricesInit PROVE PricesInv
  OBVIOUS
<1>1. OrderPricesTypeOK /\ ChargedAsOrdered
  BY OrderPricesParameters
     DEF OrderPricesInit, OrderPricesTypeOK, ChargedAsOrdered, Offer
<1>2. StoredTotal = 0
  <2> DEFINE f == [l \in DOMAIN purchase |-> purchase[l].price]
  <2>1. DOMAIN f = {}
    BY DEF OrderPricesInit
  <2> HIDE DEF f
  <2>2. SumOver(f) = 0
    BY <2>1, SumEmpty DEF SumOver, SumFunction
  <2> QED BY <2>2 DEF StoredTotal, f
<1> QED BY <1>1, <1>2 DEF PricesInv, OrderPricesInit

\* The lines cost what the client is told, and their sum is stored in parts.
LEMMA PlaceOrderKeeps == PricesInv /\ PlaceOrder => PricesInv'
<1> SUFFICES ASSUME PricesInv, PlaceOrder PROVE PricesInv'
  OBVIOUS
<1> USE DEF PricesInv
<1> PICK lines \in Orderable : \E quantity \in [lines -> Quantities] :
      /\ purchase' = [l \in lines |->
                        [quantity |-> quantity[l], price |-> LinePrice(l, quantity[l])]]
      /\ ordered' = SumOver([l \in lines |->
                       [k \in lines |->
                          [quantity |-> quantity[k], price |-> LinePrice(k, quantity[k])]][l].price])
  BY DEF PlaceOrder
<1> PICK quantity \in [lines -> Quantities] :
      /\ purchase' = [l \in lines |->
                        [quantity |-> quantity[l], price |-> LinePrice(l, quantity[l])]]
      /\ ordered' = SumOver([l \in lines |->
                       [k \in lines |->
                          [quantity |-> quantity[k], price |-> LinePrice(k, quantity[k])]][l].price])
  OBVIOUS
<1>0. lines \in SUBSET OrderLines /\ lines # {} /\ DOMAIN purchase' = lines
  BY DEF Orderable
<1>1. \A l \in lines : purchase'[l] \in [quantity : Quantities, price : Nat]
  BY <1>0, LinePriceType
<1> DEFINE f == [l \in DOMAIN purchase' |-> purchase'[l].price]
<1>2. ordered' = SumOver(f)
  BY <1>0
<1>3. ordered' = StoredTotal'
  BY <1>2 DEF StoredTotal
<1>4. charged' = {} /\ offers' = offers
  BY DEF PlaceOrder
<1>5. SumOver(f) \in Nat
  <2>1. DOMAIN f = lines /\ AreNumbers(f, lines)
    BY <1>0, <1>1 DEF AreNumbers
  <2> HIDE DEF f
  <2> QED BY <1>0, <2>1, SumOverType
<1> HIDE DEF f
<1>6. OrderPricesTypeOK'
  BY <1>0, <1>1, <1>2, <1>4, <1>5 DEF OrderPricesTypeOK
<1> QED BY <1>3, <1>4, <1>6 DEF ChargedAsOrdered

\* A stored total counts; prices of today only for an order that cost nothing.
LEMMA TotalsAreOrdered ==
    ASSUME PricesInv, NEW total \in OrderTotals
    PROVE  total \in Nat /\ (total \in {ordered, 0} \/ ordered = 0)
<1>0. ordered \in Nat /\ ordered = StoredTotal
  BY DEF PricesInv, OrderPricesTypeOK
<1>1. CASE StoredTotal > 0
  BY <1>0, <1>1 DEF OrderTotals
<1>2. CASE ~ (StoredTotal > 0)
  <2>1. ordered = 0
    BY <1>0, <1>2
  <2>2. CASE total = 0
    BY <2>1, <2>2
  <2>3. CASE total # 0
    <3>1. PICK priced \in SUBSET DOMAIN purchase :
            total = SumOver([l \in DOMAIN purchase |->
                               IF l \in priced THEN LinePrice(l, purchase[l].quantity) ELSE 0])
      BY <1>2, <2>3 DEF OrderTotals
    <3> DEFINE f == [l \in DOMAIN purchase |->
                       IF l \in priced THEN LinePrice(l, purchase[l].quantity) ELSE 0]
    <3>2. DOMAIN purchase \in SUBSET OrderLines /\ OrderPricesTypeOK
          /\ \A l \in DOMAIN purchase : purchase[l].quantity \in Quantities
      BY DEF PricesInv, OrderPricesTypeOK
    <3>3. DOMAIN f = DOMAIN purchase /\ AreNumbers(f, DOMAIN purchase)
      BY <3>2, LinePriceType DEF AreNumbers
    <3>4. total = SumOver(f)
      BY <3>1
    <3> HIDE DEF f
    <3>5. total \in Nat
      BY <3>2, <3>3, <3>4, SumOverType
    <3> QED BY <2>1, <3>5
  <2> QED BY <2>2, <2>3
<1> QED BY <1>1, <1>2

LEMMA NextKeepsPricesInv == PricesInv /\ [OrderPricesNext]_orderPricesVars => PricesInv'
<1> SUFFICES ASSUME PricesInv, [OrderPricesNext]_orderPricesVars PROVE PricesInv'
  OBVIOUS
<1>1. ASSUME NEW l \in OrderLines, ChangeOffer(l) PROVE PricesInv'
  BY <1>1 DEF ChangeOffer, PricesInv, OrderPricesTypeOK, ChargedAsOrdered, StoredTotal
<1>2. CASE PlaceOrder
  BY <1>2, PlaceOrderKeeps
<1>3. CASE RequestPayment
  <2> PICK total \in OrderTotals : charged' = {total}
    BY <1>3 DEF RequestPayment
  <2>1. total \in Nat /\ (total \in {ordered, 0} \/ ordered = 0)
    BY TotalsAreOrdered
  <2> QED BY <1>3, <2>1 DEF RequestPayment, PricesInv, OrderPricesTypeOK,
                            ChargedAsOrdered, StoredTotal
<1>4. CASE UNCHANGED orderPricesVars
  BY <1>4 DEF orderPricesVars, PricesInv, OrderPricesTypeOK, ChargedAsOrdered, StoredTotal
<1> QED BY <1>1, <1>2, <1>3, <1>4 DEF OrderPricesNext

THEOREM PricesInvariance == OrderPricesSpec => []PricesInv
BY InitPricesInv, NextKeepsPricesInv, PTL DEF OrderPricesSpec

(***************************************************************************)
(* ChargedAsOrdered, for any number of lines and any prices: whatever      *)
(* becomes of the offers, a payment is asked for the total that the client *)
(* was told, or for nothing, or the order had cost nothing.                *)
(***************************************************************************)
THEOREM ChargesHold == OrderPricesSpec => []ChargedAsOrdered
<1>1. PricesInv => ChargedAsOrdered
  BY DEF PricesInv
<1> QED BY <1>1, PricesInvariance, PTL
=============================================================================
