------------------------ MODULE PaymentV2Properties ------------------------
(***************************************************************************)
(* What payment by webhook promises, and what its comments and documents   *)
(* say of it.                                                              *)
(***************************************************************************)
EXTENDS PaymentV2

-----------------------------------------------------------------------------
(* The rendezvous of the request and its webhook *)

(***************************************************************************)
(* A request that waits will hear of its result: either its future is      *)
(* listed and no result has come, or one has come and the future holds     *)
(* one, whichever of subscribe and resolve ran first.                      *)
(***************************************************************************)
NoLostWakeup ==
    \A c \in Confirms : pc[c] = "waiting" =>
        \/ future[c] = "pending" /\ c \in waiters /\ resolved[c] = "none"
        \/ future[c] \in Outcomes /\ resolved[c] # "none"

(***************************************************************************)
(* The webhook of a request that is under way and has no result yet would  *)
(* pass the token check, whatever the timeouts of other requests clean up. *)
(***************************************************************************)
LiveTokenKept ==
    \A c \in Confirms :
        pc[c] \in {"posted", "acked", "waiting"} /\ resolved[c] = "none" => c \in tokens

\* Once a result is stored no later webhook call for it passes the token check.
TokenRetired ==
    \A c \in Confirms : resolved[c] # "none" => c \notin tokens

-----------------------------------------------------------------------------
(* The order tables *)

\* Session d has committed a PAYMENT_COMPLETED row for this child.
PaidBy(d, child) ==
    \E r \in rows : r.by = d /\ r.child = child /\ r.code = "PAYMENT_COMPLETED"

(***************************************************************************)
(* Whatever a webhook commits is about its payment's order and agrees with *)
(* what it may announce: paid rows for a completed payment or for a call   *)
(* without its event header (v2_router.py:101-103), cancelled rows and     *)
(* CANCEL_TIME only for a failed one whose call says so.                   *)
(***************************************************************************)
RowsAreBacked ==
    /\ \A r \in rows : r.by[1] = Outside \/
          /\ r.by \in Deliveries
          /\ r.order = OrderOf[r.by[1]]
          /\ \/ /\ r.code = "PAYMENT_COMPLETED"
                /\ pay[r.by[1]] = "completed" \/ r.by \in Headless
             \/ /\ r.code = "CANCELLED"
                /\ pay[r.by[1]] = "failed" /\ r.by \notin Headless
                /\ r.order \in cancelTimes
    /\ \A o \in cancelTimes : \E c \in Confirms : OrderOf[c] = o /\ pay[c] = "failed"

(***************************************************************************)
(* A 200 to the payment server ends its retries: by then every child of    *)
(* the order that the call found has its committed paid row.  No part of   *)
(* them is paid alone, and a call that the checks refused has paid         *)
(* nothing; one answered with a later error may have, when only the reply  *)
(* of its commit was lost.  A look-up that fails finds fewer children, and *)
(* nobody learns of it (order_detail_read_crud.py:100-112).                *)
(***************************************************************************)
AckedIsRecorded ==
    \A d \in Deliveries :
        /\ hook[d] = "acked" /\ (pay[d[1]] = "completed" \/ d \in Headless) =>
              \A child \in Listed(d) : PaidBy(d, child)
        /\ (\E child \in Children : PaidBy(d, child)) =>
              /\ hook[d] \in {"acked", "error"}
              /\ \A child \in Listed(d) : PaidBy(d, child)

\* A webhook has committed a status row of one of these children of order o.
Closed(o, children) == \E r \in rows : r.order = o /\ r.child \in children /\ r.by[1] # Outside

(***************************************************************************)
(* No request passes the checks for an order of which it has found a child *)
(* that a committed webhook has paid or cancelled, however the rows'       *)
(* timestamps fall: the latest row that the check reads is never the old   *)
(* ORDER_RECEIVED one.  This takes an order that is older than the lag of  *)
(* utcnow() behind now().                                                  *)
(***************************************************************************)
ClosedOrdersStayClosed ==
    [][\A c \in Confirms : pc[c] = "auth" /\ pc'[c] = "checked" =>
            ~Closed(OrderOf[c], Listed(<<c, 0>>))]_vars

-----------------------------------------------------------------------------
(* The contract *)

Outcome == [c \in Confirms |-> IF pay[c] \in Outcomes THEN pay[c] ELSE "none"]

\* The results that the calls past their checks have announced.
Heard(c) == {Event(d) : d \in {e \in Deliveries : e[1] = c /\ hook[e] \notin {"unsent", "rejected"}}}

Announced == [c \in Confirms |-> Heard(c)]

Told == [c \in Confirms |->
           IF answer[c] \in Outcomes \cup {"none"} THEN answer[c] ELSE "undecided"]

Recorded == {c \in Confirms : \E r \in rows : r.by[1] = c /\ r.code = "PAYMENT_COMPLETED"}

Contract == INSTANCE PaymentContract WITH
    Unlabelled <- {d[1] : d \in Headless},
    outcome <- Outcome, announced <- Announced, told <- Told, recorded <- Recorded

(***************************************************************************)
(* Confirmations, webhooks, timeouts and restarts together keep the        *)
(* promise of PaymentContract: a definite answer is a result that was      *)
(* announced, given once; only payments announced as completed reach the   *)
(* order tables; and what is announced is the decided outcome, unless the  *)
(* call came without its event header.                                     *)
(***************************************************************************)
ImplementsContract == Contract!Spec

-----------------------------------------------------------------------------
(* Why it is safe: an inductive invariant *)

\* A webhook call runs only after the payment is decided, which is final.
HooksAreDecided == \A d \in Deliveries : hook[d] # "unsent" => pay[d[1]] \in Outcomes

\* What the registry holds of a payment is what a call has announced.
ResultsAreHeard ==
    \A c \in Confirms :
        /\ resolved[c] # "none" => resolved[c] \in Heard(c)
        /\ future[c] \in Outcomes => future[c] \in Heard(c) /\ resolved[c] # "none"

\* A client has an answer once its request is done; a definite one was announced.
AnswersAreHeard ==
    \A c \in Confirms :
        /\ answer[c] # "none" <=> pc[c] = "done"
        /\ answer[c] \in Outcomes => answer[c] \in Heard(c)

(***************************************************************************)
(* Before its POST a request has left no trace outside its session, and    *)
(* before it subscribes none among the waiters.                            *)
(***************************************************************************)
NoTraceYet ==
    \A c \in Confirms :
        /\ pc[c] \in {"idle", "auth", "checked", "expired"} =>
              pay[c] = "none" /\ c \notin tokens /\ resolved[c] = "none"
        /\ pc[c] \in {"idle", "auth", "checked", "expired", "posted", "acked"} =>
              future[c] = "none" /\ c \notin waiters

\* A row that session d may commit.
BackedRow(d, r) ==
    /\ r.by = d
    /\ r.order = OrderOf[d[1]]
    /\ \/ r.code = "PAYMENT_COMPLETED" /\ Event(d) = "completed"
       \/ r.code = "CANCELLED" /\ Event(d) = "failed" /\ d \in pendingCancel

\* What a webhook's open session holds: rows that its event backs, all of them.
SessionsAreBacked ==
    \A d \in Deliveries :
        /\ \A r \in pending[d] : BackedRow(d, r)
        /\ pending[d] # {} \/ d \in pendingCancel => hook[d] \in {"applied", "resolved"}
        /\ d \in pendingCancel => Event(d) = "failed"
        /\ hook[d] \in {"applied", "resolved"} /\ Event(d) = "completed" =>
              \A child \in Listed(d) :
                  \E r \in pending[d] : r.child = child /\ r.code = "PAYMENT_COMPLETED"

Inv ==
    /\ TypeOK
    /\ HooksAreDecided
    /\ ResultsAreHeard
    /\ AnswersAreHeard
    /\ NoTraceYet
    /\ SessionsAreBacked
    /\ NoLostWakeup
    /\ LiveTokenKept
    /\ TokenRetired
    /\ RowsAreBacked
    /\ AckedIsRecorded

\* What keeps settled orders closed: ORDER_RECEIVED rows are the oldest ones.
TimesAreOrdered ==
    /\ clock >= Age
    /\ \A r \in rows :
          /\ r.code = "ORDER_RECEIVED" => r.at = 0
          /\ r.by[1] # Outside => r.at >= Age - UtcLag
    /\ \A s \in Sessions : \A r \in pending[s] :
          r.code # "ORDER_RECEIVED" /\ r.at >= Age - UtcLag

-----------------------------------------------------------------------------
(* Progress *)

(***************************************************************************)
(* Requests that wait for webhooks can never hold every service            *)
(* connection, which the webhooks they wait for need: each of them also    *)
(* holds an auth connection, and there are fewer of those.                 *)
(***************************************************************************)
ConfirmsLeaveServiceConnections == Cardinality(ServiceConfirms) < ServicePool

\* A request that passed authentication is answered, whatever the server does.
EveryConfirmAnswered == \A c \in Confirms : pc[c] = "auth" ~> pc[c] = "done"

\* A webhook call that passed the token check is answered, or its process died.
EveryWebhookAnswered ==
    \A d \in Deliveries : hook[d] = "verified" ~> hook[d] \in {"acked", "error"}

(***************************************************************************)
(* Once the result has come to a request that waits, its client is told    *)
(* that result, never a timeout, unless the process dies.                  *)
(***************************************************************************)
ResolvedIsTold ==
    \A c \in Confirms :
        pc[c] = "waiting" /\ resolved[c] # "none" ~> answer[c] \in Outcomes \cup {"lost"}

-----------------------------------------------------------------------------
(* What the repository says of it, and the code does not do *)

(***************************************************************************)
(* docs/db_concurrency_control.md:75-78: of two calls of a completed       *)
(* payment's webhook the second ends without writing, so that a child has  *)
(* one PAYMENT_COMPLETED row.                                              *)
(***************************************************************************)
PaidOnce ==
    \A c \in Confirms, child \in Children :
        \A d, e \in {d \in Deliveries : d[1] = c /\ PaidBy(d, child)} : d = e

(***************************************************************************)
(* services/order/research.md:46-49: the result reaches the database       *)
(* before the waiting request is woken and the client is answered.         *)
(***************************************************************************)
ToldPaidIsDurable ==
    \A c \in Confirms : answer[c] = "completed" => c \in Recorded

(***************************************************************************)
(* payment_v2_crud.py:358-359: after a timeout the token is kept, so that  *)
(* a webhook that comes later still decides the final state.               *)
(***************************************************************************)
LateWebhookIsAccepted ==
    \A c \in Confirms : answer[c] = "pending" /\ resolved[c] = "none" => c \in tokens

=============================================================================
