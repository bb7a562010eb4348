------------------------------- MODULE UserLog -------------------------------
(***************************************************************************)
(* The writers of the user log in PostgreSQL: the routes that post an      *)
(* event or an activity, and send_user_log, which nearly every route of    *)
(* the system starts as a background task.  Each uses a session of its own,*)
(* and create_user_log only flushes.                                       *)
(***************************************************************************)
EXTENDS Integers

CONSTANTS
    Posts,          \* POST /log and POST /log/activity
    LogTasks,       \* calls of send_user_log
    MaxTries        \* max_retries

ASSUME UserLogParameters ==
    /\ MaxTries \in Nat
    /\ Posts \cap LogTasks = {}

Writers == Posts \cup LogTasks

VARIABLES
    logs,           \* the committed rows of USER_LOG, by their writers
    writerPc,
    tries,          \* how many attempts of a task have failed
    saved           \* what the caller of a writer was told

userLogVars == <<logs, writerPc, tries, saved>>

UserLogTypeOK ==
    /\ logs \in SUBSET Writers
    /\ writerPc \in [Writers -> {"unsent", "flushed", "done"}]
    /\ tries \in [LogTasks -> 0..MaxTries]
    /\ saved \in [Writers -> {"none", "saved", "failed"}]

UserLogInit ==
    /\ logs = {}
    /\ writerPc = [w \in Writers |-> "unsent"]
    /\ tries = [t \in LogTasks |-> 0]
    /\ saved = [w \in Writers |-> "none"]

Report(w, outcome) ==
    /\ writerPc' = [writerPc EXCEPT ![w] = "done"]
    /\ saved' = [saved EXCEPT ![w] = outcome]

FlushLog(w) ==
    /\ writerPc[w] = "unsent"
    /\ writerPc' = [writerPc EXCEPT ![w] = "flushed"]
    /\ UNCHANGED <<logs, tries, saved>>

\* Refused, or failed at any point: rolled back.
FailPost(p) ==
    /\ writerPc[p] \in {"unsent", "flushed"}
    /\ Report(p, "failed")
    /\ UNCHANGED <<logs, tries>>

\* Mutant: the route answers before it commits, and the commit fails.
AnswerPost(p) ==
    /\ writerPc[p] = "flushed"
    /\ Report(p, "saved")
    /\ UNCHANGED <<logs, tries>>

\* The answer may be lost after the commit.
CommitPost(p) ==
    /\ writerPc[p] = "flushed"
    /\ logs' = logs \cup {p}
    /\ \E outcome \in {"saved", "failed"} : Report(p, outcome)
    /\ UNCHANGED tries

\* Mutant: the attempts are not limited.
RetryAlways(t) ==
    /\ writerPc[t] = "unsent"
    /\ tries' = [tries EXCEPT ![t] = @ + 1]
    /\ UNCHANGED <<writerPc, saved, logs>>

\* An attempt fails; the last one is given up.
RetryTask(t) ==
    /\ writerPc[t] = "unsent"
    /\ tries[t] < MaxTries
    /\ tries' = [tries EXCEPT ![t] = @ + 1]
    /\ IF tries[t] + 1 < MaxTries
       THEN UNCHANGED <<writerPc, saved>>
       ELSE Report(t, "failed")
    /\ UNCHANGED logs

\* The session is closed, and "saved_to_db" is returned.
CloseTask(t) ==
    /\ writerPc[t] = "flushed"
    /\ Report(t, "saved")
    /\ UNCHANGED <<logs, tries>>

UserLogNext ==
    \/ \E w \in Writers : FlushLog(w)
    \/ \E p \in Posts : FailPost(p) \/ CommitPost(p)
    \/ \E t \in LogTasks : RetryTask(t) \/ CloseTask(t)

UserLogSpec == UserLogInit /\ [][UserLogNext]_userLogVars
-----------------------------------------------------------------------------
(***************************************************************************)
(* event_router.py:55, activity_router.py:22: an event that a route says   *)
(* is recorded has a row; and the log holds nothing but what was posted to *)
(* these routes, none of the events that the other routes report.          *)
(***************************************************************************)
OnlyPostsAreKept ==
    /\ \A p \in Posts : saved[p] = "saved" => p \in logs
    /\ logs \subseteq Posts

(***************************************************************************)
(* log_utils.py:140, "stores the user log in the database directly": what  *)
(* send_user_log returns as saved has a row.                               *)
(***************************************************************************)
SavedLogsAreKept == \A w \in Writers : saved[w] = "saved" => w \in logs
=============================================================================
