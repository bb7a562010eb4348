---------------------------- MODULE SearchHistory ----------------------------
(***************************************************************************)
(* The search histories of kok and of home shopping: rows that a route     *)
(* adds and a route deletes, each in its request's session.  A kok search  *)
(* adds one too, in a background task that is given the session of its     *)
(* request and does not commit.                                            *)
(***************************************************************************)
EXTENDS Integers

CONSTANTS
    Searchers,      \* the users
    Postings,       \* POST /search/history
    Removals,       \* DELETE /search/history/{history_id}
    Searches,       \* GET /search of a user who is logged in
    SearcherOf      \* whose request each of them is

HistoryRequests == Postings \cup Removals \cup Searches

ASSUME SearchHistoryParameters ==
    /\ SearcherOf \in [HistoryRequests -> Searchers]
    /\ Postings \cap Removals = {}
    /\ Searches \cap (Postings \cup Removals) = {}

VARIABLES
    histories,      \* the committed rows
    historyPc,
    removed,        \* the row that a removal has found
    historyTold     \* the answer to each request

searchHistoryVars == <<histories, historyPc, removed, historyTold>>

\* A row by the request that wrote it and the user that it belongs to.
History == [id : Postings \cup Searches, of : Searchers]

HistoryOf(r) == [id |-> r, of |-> SearcherOf[r]]

NoHistory == [id |-> "none"]

SearchHistoryTypeOK ==
    /\ histories \in SUBSET History
    /\ historyPc \in [HistoryRequests -> {"unsent", "flushed", "found", "done"}]
    /\ removed \in [Removals -> History \cup {NoHistory}]
    /\ historyTold \in [HistoryRequests -> {"none", "ok", "missing", "error"}]

SearchHistoryInit ==
    /\ histories = {}
    /\ historyPc = [r \in HistoryRequests |-> "unsent"]
    /\ removed = [r \in Removals |-> NoHistory]
    /\ historyTold = [r \in HistoryRequests |-> "none"]

Tell(r, reply) ==
    /\ historyPc' = [historyPc EXCEPT ![r] = "done"]
    /\ historyTold' = [historyTold EXCEPT ![r] = reply]

\* A search has been answered when its task flushes the row.
FlushHistory(r) ==
    /\ historyPc[r] = "unsent" /\ r \in Postings \cup Searches
    /\ historyPc' = [historyPc EXCEPT ![r] = "flushed"]
    /\ historyTold' = [historyTold EXCEPT ![r] = IF r \in Searches THEN "ok" ELSE "none"]
    /\ UNCHANGED <<histories, removed>>

\* The commit went through, and the client may miss the reply.
TellCommitted(r) == Tell(r, "ok") \/ Tell(r, "error")

CommitHistory(r) ==
    /\ historyPc[r] = "flushed" /\ r \in Postings
    /\ histories' = histories \cup {HistoryOf(r)}
    /\ TellCommitted(r)
    /\ UNCHANGED removed

\* The session is given up with the flushed row.
DropSearch(r) ==
    /\ historyPc[r] = "flushed" /\ r \in Searches
    /\ historyPc' = [historyPc EXCEPT ![r] = "done"]
    /\ UNCHANGED <<histories, removed, historyTold>>

\* Mutant: the row is looked for by its id alone.
Anyones(r) == histories

Own(r) == {h \in histories : h.of = SearcherOf[r]}

FindHistory(r) ==
    /\ historyPc[r] = "unsent" /\ r \in Removals
    /\ \E h \in Own(r) : removed' = [removed EXCEPT ![r] = h]
    /\ historyPc' = [historyPc EXCEPT ![r] = "found"]
    /\ UNCHANGED <<histories, historyTold>>

MissHistory(r) ==
    /\ historyPc[r] = "unsent" /\ r \in Removals
    /\ Tell(r, "missing")
    /\ UNCHANGED <<histories, removed>>

\* Another removal may have deleted the row: then this one deletes nothing.
RemoveHistory(r) ==
    /\ historyPc[r] = "found"
    /\ histories' = histories \ {removed[r]}
    /\ TellCommitted(r)
    /\ UNCHANGED removed

\* Rolled back.
FailHistory(r) ==
    /\ historyPc[r] \in {"unsent", "flushed", "found"} /\ r \notin Searches
    /\ Tell(r, "error")
    /\ UNCHANGED <<histories, removed>>

SearchHistoryNext ==
    \E r \in HistoryRequests :
        \/ FlushHistory(r) \/ CommitHistory(r) \/ DropSearch(r)
        \/ FindHistory(r) \/ MissHistory(r) \/ RemoveHistory(r) \/ FailHistory(r)

SearchHistorySpec == SearchHistoryInit /\ [][SearchHistoryNext]_searchHistoryVars
-----------------------------------------------------------------------------
(***************************************************************************)
(* kok/crud/search_crud.py:165 and :196, homeshopping/crud/search_crud.py: *)
(* a row that a user was told is saved is there until a removal by that    *)
(* user has found it and come to its commit, whose reply may be lost; and  *)
(* one that was removed stays away, though it was removed twice.           *)
(***************************************************************************)
HistoryIsTheUsers ==
    /\ \A p \in Postings : historyTold[p] = "ok" =>
        \/ HistoryOf(p) \in histories
        \/ \E r \in Removals :
            /\ removed[r] = HistoryOf(p) /\ SearcherOf[r] = SearcherOf[p]
            /\ historyTold[r] \in {"ok", "error"}
    /\ \A r \in Removals : historyTold[r] = "ok" => removed[r] \notin histories
=============================================================================
