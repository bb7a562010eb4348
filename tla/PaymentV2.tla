----------------------------- MODULE PaymentV2 -----------------------------
(***************************************************************************)
(* Payment by webhook: POST /orders/payment/{id}/confirm/v2, the webhook   *)
(* POST /orders/payment/webhook/v2/{tx_id}, the registry that joins them,  *)
(* the order tables both write to, and the payment server between them.    *)
(*                                                                         *)
(* A request handler is a coroutine: between two of its awaits nothing     *)
(* else runs.  Its database session is one transaction under REPEATABLE    *)
(* READ: it reads the committed rows as of its first query, and its own    *)
(* rows are visible to nobody before commit.  Steps that only read that    *)
(* snapshot or write the session's own rows are therefore joined with the  *)
(* next step that others can see.                                          *)
(***************************************************************************)
EXTENDS Integers, FiniteSets, WaiterRegistry

CONSTANTS
    Confirms,       \* confirm/v2 requests; each one's tx_id is the request itself
    Orders,
    OrderOf,        \* the order each request pays for
    Children,       \* the kok and home shopping orders below an order
    Stuck,          \* orders with an old PAYMENT_REQUESTED row written from outside
    Deliveries,     \* webhook calls: <<c, n>> is the n-th for the payment of request c
    Headless,       \* those that come without the header X-Payment-Event
    Unlisted,       \* the children that each session's look-up of them misses
    MaxCrashes,     \* restarts of the backend process
    Age,            \* the seconds an order is old when it is first confirmed
    MaxClock,       \* the last second in which rows are written
    AuthPool,       \* connections to the auth database (mariadb_auth.py)
    ServicePool,    \* connections to the service database (mariadb_service.py)
    UtcLag,         \* how far datetime.utcnow() is behind datetime.now()
    SetTransactionRefused,  \* the database refuses SET TRANSACTION once one is open
    Outside         \* not a request: the writer of the rows Init finds

Outcomes == {"completed", "failed"}

\* The code's `event in ("payment.failed", "payment.cancelled")' is one outcome.
ASSUME RegistryParameters == Keys = Confirms /\ Payloads = Outcomes

ASSUME PaymentParameters ==
    /\ OrderOf \in [Confirms -> Orders]
    /\ Stuck \subseteq Orders
    /\ Deliveries \subseteq Confirms \X (Nat \ {0})
    /\ Headless \subseteq Deliveries
    /\ Unlisted \in [Deliveries \cup (Confirms \X {0}) -> SUBSET Children]
    /\ MaxCrashes \in Nat
    /\ Age \in Nat
    /\ MaxClock \in Nat
    /\ AuthPool \in Nat
    /\ ServicePool \in Nat
    /\ UtcLag \in Nat
    /\ SetTransactionRefused \in BOOLEAN
    /\ Outside \notin Confirms

\* A database session per handler; <<c, 0>> is the session of request c.
Sessions == Deliveries \cup (Confirms \X {0})

Codes == {"ORDER_RECEIVED", "PAYMENT_REQUESTED", "PAYMENT_COMPLETED", "CANCELLED"}

(***************************************************************************)
(* A row of KOK_ORDER_STATUS_HISTORY or HOMESHOPPING_ORDER_STATUS_HISTORY. *)
(* `by' is the session that wrote it and tells apart rows that agree in    *)
(* the rest, as the autoincremented history id does.                       *)
(***************************************************************************)
Row == [order : Orders, child : Children, code : Codes, at : Int,
        by : Sessions \cup {<<Outside, 0>>}]

\* New status rows of session s, for some children of an order.
StatusRows(s, order, children, code, at) ==
    {[order |-> order, child |-> child, code |-> code, at |-> at, by |-> s] :
        child \in children}

VARIABLES
    rows,           \* the committed rows of both history tables
    cancelTimes,    \* the orders whose committed CANCEL_TIME is set
    pending,        \* the rows each open session has written
    pendingCancel,  \* the sessions that have set CANCEL_TIME
    clock,          \* the second datetime.now() is in
    pc,             \* where each confirm request is
    answer,         \* what its client was answered
    pay,            \* the payment server's state of each payment
    hook,           \* where each webhook call is
    crashes         \* restarts so far

dbVars == <<rows, cancelTimes, pending, pendingCancel, clock>>

vars == <<dbVars, registryVars, pc, answer, pay, hook, crashes>>

(***************************************************************************)
(* "idle": not sent; "auth": authenticated; "checked": may be paid;        *)
(* "posted": waits for the payment server's answer; "acked": the payment   *)
(* is started; "waiting": waits for the webhook; "expired": has cancelled  *)
(* a stuck order in its session; "done": answered.                         *)
(***************************************************************************)
ConfirmStates ==
    {"idle", "auth", "checked", "posted", "acked", "waiting", "expired", "done"}

\* "error": every refusal and failure before the payment is known to be open;
\* "expired": a stuck order was cancelled; "pending": no webhook in time;
\* "lost": the connection broke.
Answers == {"none", "error", "expired", "pending", "lost"} \cup Outcomes

\* "requested": the POST is on its way; "refused": answered with an error.
PayStates == {"none", "requested", "refused", "open"} \cup Outcomes

(***************************************************************************)
(* "unsent"; "verified": past its checks, "applied": status rows written,  *)
(* "resolved": registry told; "acked": answered with 200; "rejected":      *)
(* refused by the checks, 400; "error": answered with an error later on.   *)
(***************************************************************************)
HookStates ==
    {"unsent", "verified", "applied", "resolved", "acked", "rejected", "error"}

TypeOK ==
    /\ RegistryTypeOK
    /\ rows \in SUBSET Row
    /\ cancelTimes \in SUBSET Orders
    /\ pending \in [Sessions -> SUBSET Row]
    /\ pendingCancel \in SUBSET Sessions
    /\ clock \in Nat
    /\ pc \in [Confirms -> ConfirmStates]
    /\ answer \in [Confirms -> Answers]
    /\ pay \in [Confirms -> PayStates]
    /\ hook \in [Deliveries -> HookStates]
    /\ crashes \in Nat

(***************************************************************************)
(* Orders begin as create_orders_from_selected_carts leaves them; on the   *)
(* stuck ones a PAYMENT_REQUESTED row has been committed later, which no   *)
(* path of payment v2 does itself.                                         *)
(***************************************************************************)
Init ==
    /\ RegistryInit
    /\ rows = UNION ({StatusRows(<<Outside, 0>>, o, Children, "ORDER_RECEIVED", 0) : o \in Orders}
               \cup {StatusRows(<<Outside, 0>>, o, Children, "PAYMENT_REQUESTED", Age) : o \in Stuck})
    /\ cancelTimes = {}
    /\ pending = [s \in Sessions |-> {}]
    /\ pendingCancel = {}
    /\ clock = Age
    /\ pc = [c \in Confirms |-> "idle"]
    /\ answer = [c \in Confirms |-> "none"]
    /\ pay = [c \in Confirms |-> "none"]
    /\ hook = [d \in Deliveries |-> "unsent"]
    /\ crashes = 0

-----------------------------------------------------------------------------
(* Sessions and connections *)

\* A request keeps both its connections until it is answered; a webhook call
\* that wrote nothing is not counted, a pool never refuses for its sake.
AuthHolders == {c \in Confirms : pc[c] \notin {"idle", "done"}}
ServiceConfirms == {c \in Confirms : pc[c] \notin {"idle", "auth", "done"}}
ServiceHooks == {d \in Deliveries : hook[d] \in {"applied", "resolved"}
                                     /\ (pending[d] # {} \/ d \in pendingCancel)}

ServiceFree == Cardinality(ServiceConfirms) + Cardinality(ServiceHooks) < ServicePool
\* Mutant: authentication releases its connection.
AuthReleased == TRUE

AuthFree == Cardinality(AuthHolders) < AuthPool

Write(s, newRows, setsCancelTime) ==
    /\ pending' = [pending EXCEPT ![s] = @ \cup newRows]
    /\ pendingCancel' = IF setsCancelTime THEN pendingCancel \cup {s} ELSE pendingCancel

\* Closing a session that has not committed.
Rollback(s) ==
    /\ pending' = [pending EXCEPT ![s] = {}]
    /\ pendingCancel' = pendingCancel \ {s}

Commit(s, order) ==
    /\ rows' = rows \cup pending[s]
    /\ cancelTimes' = IF s \in pendingCancel THEN cancelTimes \cup {order} ELSE cancelTimes
    /\ Rollback(s)

\* Mutant: a status code that StatusMaster does not have.
CancelMisspelled(s, order, done, t) ==
    Write(s, StatusRows(s, order, done, "CANCELED", t), TRUE)

\* Mutant: utcnow() on a server whose clock is ahead of UTC.
CancelInUtc(s, order, done, t) ==
    Write(s, StatusRows(s, order, done, "CANCELLED", t - 2), TRUE)

(***************************************************************************)
(* cancel_order, in session s, at second t.  It writes CANCEL_TIME and     *)
(* then a row per child; an error on the way leaves the children in `done' *)
(* written.  It stamps with utcnow() what every other row stamps with      *)
(* now().                                                                  *)
(***************************************************************************)
CancelOrder(s, order, done, t) ==
    Write(s, StatusRows(s, order, done, "CANCELLED", t - UtcLag), TRUE)

\* The rows `ORDER BY changed_at DESC LIMIT 1' may return for a child.
Latest(order, child) ==
    LET mine == {r \in rows : r.order = order /\ r.child = child}
    IN  {r \in mine : \A q \in mine : q.at <= r.at}

\* The second in which a row is written: this one or the next.
Tick == clock' \in {t \in {clock, clock + 1} : t <= MaxClock}

(***************************************************************************)
(* get_order_by_id looks up an order's children of either kind; a failing  *)
(* query is only logged, and counts as an order without such children.     *)
(***************************************************************************)
Listed(s) == Children \ Unlisted[s]

-----------------------------------------------------------------------------
(* confirm_payment_and_update_status_v2 *)

(***************************************************************************)
(* Every end of the request closes its session; nothing on the way has     *)
(* committed it.                                                           *)
(***************************************************************************)
Answer(c, result) ==
    /\ pc' = [pc EXCEPT ![c] = "done"]
    /\ answer' = [answer EXCEPT ![c] = result]
    /\ Rollback(<<c, 0>>)
    /\ UNCHANGED <<rows, cancelTimes, clock, pay, hook, crashes>>

Goto(c, state) ==
    /\ pc' = [pc EXCEPT ![c] = state]
    /\ UNCHANGED <<answer, hook, crashes>>

\* get_current_user reads the auth database and keeps the connection.  Any
\* database error, waiting 30 s for a connection included, ends in a 500.
Authenticate(c) ==
    /\ pc[c] = "idle"
    /\ \/ /\ AuthFree
          /\ Goto(c, "auth")
          /\ UNCHANGED <<dbVars, registryVars, pay>>
       \/ /\ Answer(c, "error")
          /\ UNCHANGED registryVars

(***************************************************************************)
(* The checks, on one snapshot: access, expiry of a stuck order, status.   *)
(* `latest' is what the two queries for the latest row return; a latest    *)
(* PAYMENT_REQUESTED row is five minutes old or not.  The user may not own *)
(* the order, a status may differ, a query may fail: an error.             *)
(***************************************************************************)
CheckOrder(c) ==
    /\ pc[c] = "auth"
    /\ UNCHANGED registryVars
    /\ \/ Answer(c, "error")
       \/ /\ ServiceFree
          /\ \E latest \in [Listed(<<c, 0>>) -> Codes], old \in BOOLEAN :
               /\ \A child \in Listed(<<c, 0>>) :
                    \E r \in Latest(OrderOf[c], child) : r.code = latest[child]
               /\ LET requested == "PAYMENT_REQUESTED" \in {latest[child] : child \in Listed(<<c, 0>>)}
                      received == \A child \in Listed(<<c, 0>>) : latest[child] = "ORDER_RECEIVED"
                  IN  \/ /\ old /\ requested
                         /\ CancelOrder(<<c, 0>>, OrderOf[c], Children, clock)
                         /\ Goto(c, "expired")
                         /\ UNCHANGED <<rows, cancelTimes, clock, pay>>
                      \/ /\ received
                         /\ Goto(c, "checked")
                         /\ UNCHANGED <<dbVars, pay>>

\* HTTPException 400 after the cancellation: the session closes without commit.
ReportExpired(c) ==
    /\ pc[c] = "expired"
    /\ Answer(c, "expired")
    /\ UNCHANGED registryVars

(***************************************************************************)
(* SET TRANSACTION, the PAYMENT_REQUESTED rows, the token, the POST.  The  *)
(* first two may fail, and the request ends with a 500.                    *)
(***************************************************************************)
RequestPayment(c) ==
    /\ pc[c] = "checked"
    /\ \/ /\ ~SetTransactionRefused
          /\ Write(<<c, 0>>,
                   StatusRows(<<c, 0>>, OrderOf[c], Listed(<<c, 0>>), "PAYMENT_REQUESTED", clock),
                   FALSE)
          /\ RegisterCallbackToken(c)
          /\ pay' = [pay EXCEPT ![c] = "requested"]
          /\ Goto(c, "posted")
          /\ UNCHANGED <<rows, cancelTimes, clock>>
       \/ /\ Answer(c, "error")
          /\ UNCHANGED registryVars

\* httpx.RequestError, the 10 s timeout included: whatever the server did with it.
PostFails(c) ==
    /\ pc[c] = "posted"
    /\ DiscardCallbackToken(c)
    /\ Answer(c, "error")

\* An error status, or a body that is not JSON.
PostRejected(c) ==
    /\ pc[c] = "posted"
    /\ pay[c] # "requested"
    /\ DiscardCallbackToken(c)
    /\ Answer(c, "error")

PostAcked(c) ==
    /\ pc[c] = "posted"
    /\ pay[c] \notin {"requested", "refused"}
    /\ Goto(c, "acked")
    /\ UNCHANGED <<dbVars, registryVars, pay>>

SubscribeToWebhook(c) ==
    /\ pc[c] = "acked"
    /\ Subscribe(c)
    /\ Goto(c, "waiting")
    /\ UNCHANGED <<dbVars, pay>>

\* The future is done: a result is answered with 200, a failure with 400.
Wake(c) ==
    /\ pc[c] = "waiting"
    /\ future[c] \in Outcomes
    /\ Answer(c, future[c])
    /\ UNCHANGED registryVars

\* Mutant: cleanup with no limit of age.
AnyAge == Confirms

(***************************************************************************)
(* Entries older than cleanup's limit, 300 s, belong to requests that have *)
(* been answered: the POST and the wait of one that has not take less.     *)
(***************************************************************************)
OldEnough == {c \in Confirms : pc[c] = "done"}

\* Mutant: no timeout.
WaitForever(c) == pc[c] = "waiting" /\ FALSE /\ UNCHANGED vars

\* Mutant: a timeout is reported as a failed payment.
TimeoutIsFailure(c) ==
    /\ pc[c] = "waiting"
    /\ GiveUpAndCleanup(c, {}, {})
    /\ Answer(c, "failed")

\* The 60 s wait is over.  The token stays, so that a late webhook still counts.
WaitTimesOut(c) ==
    /\ pc[c] = "waiting"
    /\ \E oldTokens \in SUBSET (tokens \cap OldEnough) :
         \E oldWaiters \in SUBSET (waiters \cap OldEnough) :
            GiveUpAndCleanup(c, oldWaiters, oldTokens)
    /\ Answer(c, "pending")

ConfirmStep(c) ==
    \/ CheckOrder(c)
    \/ ReportExpired(c)
    \/ RequestPayment(c)
    \/ PostFails(c)
    \/ PostRejected(c)
    \/ PostAcked(c)
    \/ SubscribeToWebhook(c)
    \/ Wake(c)
    \/ WaitTimesOut(c)

-----------------------------------------------------------------------------
(* The payment server: a program outside this repository *)

ServerStep(c, from, to) ==
    /\ pay[c] = from
    /\ pay' = [pay EXCEPT ![c] = to]
    /\ UNCHANGED <<dbVars, registryVars, pc, answer, hook, crashes>>

PaymentServer(c) ==
    \/ ServerStep(c, "requested", "open")
    \/ ServerStep(c, "requested", "refused")
    \/ \E outcome \in Outcomes : ServerStep(c, "open", outcome)

HookGoto(d, state) ==
    /\ hook' = [hook EXCEPT ![d] = state]
    /\ UNCHANGED <<pc, answer, pay, crashes>>

-----------------------------------------------------------------------------
(* apply_payment_webhook_v2 and its route *)

\* Mutant: the header is not parsed, every call counts as payment.completed.
EventUnread(d) == "completed"

(***************************************************************************)
(* What a call announces: the route takes it from a header, and a call     *)
(* without that header is a payment.completed, whatever its payment is.    *)
(***************************************************************************)
Event(d) == IF d \in Headless THEN "completed" ELSE pay[d[1]]

(***************************************************************************)
(* The server calls the webhook once the payment is decided, and again     *)
(* when it has no 200 yet: a call that was lost, is slow, failed, or whose *)
(* answer got lost; they arrive in any order.  Here one arrives.  Its      *)
(* token is checked, then its service token, its signature, its body and   *)
(* its event, any of which may be wrong as well.                           *)
(***************************************************************************)
VerifyWebhook(d) ==
    /\ hook[d] = "unsent"
    /\ pay[d[1]] \in Outcomes
    /\ \/ VerifyCallbackToken(d[1]) /\ HookGoto(d, "verified")
       \/ HookGoto(d, "rejected")
    /\ UNCHANGED <<dbVars, registryVars>>

\* Mutant: the loop over the children swallows their errors.
ApplyToSome(d) ==
    /\ hook[d] = "verified"
    /\ Event(d) = "completed"
    /\ ServiceFree
    /\ Tick
    /\ \E some \in SUBSET Children :
          Write(d, StatusRows(d, OrderOf[d[1]], some, "PAYMENT_COMPLETED", clock'), FALSE)
    /\ HookGoto(d, "applied")
    /\ UNCHANGED <<rows, cancelTimes, registryVars>>

(***************************************************************************)
(* payment.completed: a PAYMENT_COMPLETED row for every child that was     *)
(* found, whatever their status is.                                        *)
(***************************************************************************)
ApplyCompleted(d) ==
    /\ hook[d] = "verified"
    /\ Event(d) = "completed"
    /\ ServiceFree
    /\ ~SetTransactionRefused
    /\ Tick
    /\ Write(d, StatusRows(d, OrderOf[d[1]], Listed(d), "PAYMENT_COMPLETED", clock'), FALSE)
    /\ HookGoto(d, "applied")
    /\ UNCHANGED <<rows, cancelTimes, registryVars>>

\* No access to the order, a refused statement, a database error, no connection
\* within 30 s: a 400 or a 500.
ApplyCompletedFails(d) ==
    /\ hook[d] = "verified"
    /\ Event(d) = "completed"
    /\ HookGoto(d, "error")
    /\ UNCHANGED <<dbVars, registryVars>>

(***************************************************************************)
(* payment.failed: cancel_order, and `except Exception' around it.  The    *)
(* handler goes on with what the session then holds: everything, nothing,  *)
(* or CANCEL_TIME and the rows of some children.  SET TRANSACTION is the   *)
(* first statement of this session and never refused.                      *)
(***************************************************************************)
ApplyFailed(d) ==
    /\ hook[d] = "verified"
    /\ Event(d) = "failed"
    /\ \/ /\ ServiceFree
          /\ Tick
          /\ \E done \in SUBSET Children : CancelOrder(d, OrderOf[d[1]], done, clock')
       \/ UNCHANGED <<pending, pendingCancel, clock>>
    /\ HookGoto(d, "applied")
    /\ UNCHANGED <<rows, cancelTimes, registryVars>>

\* Mutant: a result without a waiter is an error that nobody handles.
ResolveIfAwaited(d) ==
    /\ hook[d] = "applied"
    /\ d[1] \in waiters
    /\ Resolve(d[1], Event(d))
    /\ HookGoto(d, "resolved")
    /\ UNCHANGED dbVars

ResolveWaiters(d) ==
    /\ hook[d] = "applied"
    /\ Resolve(d[1], Event(d))
    /\ HookGoto(d, "resolved")
    /\ UNCHANGED dbVars

\* The route commits after the handler has returned.
CommitWebhook(d) ==
    /\ hook[d] = "resolved"
    /\ Commit(d, OrderOf[d[1]])
    /\ HookGoto(d, "acked")
    /\ UNCHANGED <<clock, registryVars>>

(***************************************************************************)
(* The commit raises, and whether the database has made it is not known;   *)
(* or what follows a commit that was made raises.  Either way a 500.       *)
(***************************************************************************)
CommitWebhookFails(d) ==
    /\ hook[d] = "resolved"
    /\ \/ Rollback(d) /\ UNCHANGED <<rows, cancelTimes>>
       \/ Commit(d, OrderOf[d[1]])
    /\ HookGoto(d, "error")
    /\ UNCHANGED <<clock, registryVars>>

HookStep(d) ==
    \/ ApplyCompleted(d)
    \/ ApplyCompletedFails(d)
    \/ ApplyFailed(d)
    \/ ResolveWaiters(d)
    \/ CommitWebhook(d)
    \/ CommitWebhookFails(d)

-----------------------------------------------------------------------------

(***************************************************************************)
(* The process stops and starts again: the registry is empty, open         *)
(* sessions roll back, requests and webhook calls in it lose their         *)
(* connection.                                                             *)
(***************************************************************************)
Crash ==
    /\ crashes < MaxCrashes
    /\ crashes' = crashes + 1
    /\ waiters' = {}
    /\ future' = [k \in Keys |-> "none"]
    /\ resolved' = [k \in Keys |-> "none"]
    /\ tokens' = {}
    /\ pending' = [s \in Sessions |-> {}]
    /\ pendingCancel' = {}
    /\ pc' = [c \in Confirms |-> IF c \in AuthHolders THEN "done" ELSE pc[c]]
    /\ answer' = [c \in Confirms |-> IF c \in AuthHolders THEN "lost" ELSE answer[c]]
    /\ hook' = [d \in Deliveries |->
                  IF hook[d] \in {"verified", "applied", "resolved"} THEN "error" ELSE hook[d]]
    /\ UNCHANGED <<rows, cancelTimes, clock, pay>>

Next ==
    \/ \E c \in Confirms : Authenticate(c) \/ ConfirmStep(c) \/ PaymentServer(c)
    \/ \E d \in Deliveries : VerifyWebhook(d) \/ HookStep(d)
    \/ Crash

Spec == Init /\ [][Next]_vars

(***************************************************************************)
(* The event loop runs every coroutine that can go on, httpx and wait_for  *)
(* end the waits of a request, and a database call returns or raises.      *)
(* Nothing is assumed of clients, of the payment server or of its calls.   *)
(***************************************************************************)
Fairness ==
    /\ \A c \in Confirms : WF_vars(ConfirmStep(c))
    /\ \A d \in Deliveries : WF_vars(HookStep(d))

FairSpec == Spec /\ Fairness

=============================================================================
