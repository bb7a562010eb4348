----------------------------- MODULE OrderStatus -----------------------------
(***************************************************************************)
(* The status of kok and home shopping order lines and every request that  *)
(* writes or reads it: direct confirmations, payment v1 with its polling,  *)
(* the settlement by payment v2 (module PaymentV2, here in two steps), the *)
(* automatic progress in a background task, the creation of home shopping  *)
(* orders, and the status and list reads.                                  *)
(*                                                                         *)
(* A request has one database session.  What it writes is its own until it *)
(* commits, and is gone when the session closes without a commit.  Its     *)
(* reads see the rows that were committed when it began (REPEATABLE READ). *)
(***************************************************************************)
EXTENDS Integers, FiniteSets

CONSTANTS
    Lines,          \* rows of KOK_ORDERS and HOMESHOPPING_ORDERS
    HsLines,        \* those of HOMESHOPPING_ORDERS
    Orders,
    OrderOf,        \* the ORDERS row each line belongs to
    Requests,
    Kind,           \* what each request asks for
    Target,         \* the line it is about
    Sent,           \* how many of the requests are sent in one behaviour
    MaxAttempts,    \* _poll_payment_status's max_attempts
    Age,            \* the seconds the kok lines are old at the start
    MaxClock,       \* the last second in which rows are written
    UtcLag,         \* how far datetime.utcnow() is behind datetime.now()
    Outside         \* not a request: the cart order that made the kok lines

Kinds == {"confirm_line", "confirm_order", "confirm_hs", "create_hs", "patch",
          "auto_kok", "auto_hs", "v1", "v2", "status", "list"}

ASSUME StatusParameters ==
    /\ HsLines \subseteq Lines
    /\ Outside \notin Requests
    /\ OrderOf \in [Lines -> Orders]
    /\ Kind \in [Requests -> Kinds]
    /\ Target \in [Requests -> Lines]
    /\ Sent \in Nat
    /\ MaxAttempts \in Nat
    /\ Age \in Nat
    /\ MaxClock \in Nat
    /\ UtcLag \in Nat

\* create_homeshopping_order makes an ORDERS row for its line alone.
ASSUME HsLinesAreAlone ==
    \A l \in HsLines, other \in Lines : OrderOf[other] = OrderOf[l] => other = l

\* An order line is made by one request only.
ASSUME CreatedOnce ==
    \A q, r \in Requests :
        Kind[q] = "create_hs" /\ Kind[r] = "create_hs" /\ Target[q] = Target[r] => q = r

Codes == {"ORDER_RECEIVED", "PAYMENT_REQUESTED", "PAYMENT_COMPLETED",
          "PREPARING", "SHIPPING", "DELIVERED", "CANCELLED"}

\* The automatic progress writes its codes in this order.
Rank(code) == CASE code = "PREPARING" -> 1 [] code = "SHIPPING" -> 2
                [] code = "DELIVERED" -> 3 [] OTHER -> 0

(***************************************************************************)
(* A row of one of the two history tables.  `id' orders the rows of one    *)
(* line as their history ids do.                                           *)
(***************************************************************************)
Row == [line : Lines, code : Codes, at : Int, id : Nat, by : Requests \cup {Outside}]

VARIABLES
    rows,       \* the committed rows
    pending,    \* the rows each open session has written
    snapshot,   \* the rows each session reads
    todo,       \* the status changes a request has still to write
    lastId,     \* the last history id given to a row of each line
    pc,         \* where each request is
    answer,     \* what its client was told
    seen,       \* the statuses a read has collected
    pay,        \* the payment server's state of each v1 payment
    attempts,   \* how often each v1 request has polled
    clock       \* the second datetime.now() is in

vars == <<rows, pending, snapshot, todo, lastId, pc, answer, seen, pay, attempts, clock>>

(***************************************************************************)
(* "absent": never sent; "unsent"; "requesting": v1 marks its lines as     *)
(* requested; "waiting": for the payment's outcome; "writing": has changes *)
(* to write before it can end; "reading": between two queries; "done".     *)
(***************************************************************************)
Open == {"requesting", "waiting", "writing", "reading"}

States == Open \cup {"absent", "unsent", "done"}

\* "paid": v1's answer PAYMENT_COMPLETED; "finished": the automatic progress
\* has taken all its steps and logs so.
Answers == {"none", "ok", "error", "paid", "finished"}

PayStates == {"none", "open", "completed", "failed"}

TypeOK ==
    /\ rows \in SUBSET Row
    /\ pending \in [Requests -> SUBSET Row]
    /\ snapshot \in [Requests -> SUBSET Row]
    /\ todo \in [Requests -> SUBSET (Lines \X Codes)]
    /\ lastId \in [Lines -> Nat]
    /\ pc \in [Requests -> States]
    /\ answer \in [Requests -> Answers]
    /\ seen \in [Requests -> SUBSET (Lines \X (Codes \cup {"unread"}))]
    /\ pay \in [Requests -> PayStates]
    /\ attempts \in [Requests -> Nat]
    /\ clock \in Nat

LinesOf(o) == {l \in Lines : OrderOf[l] = o}

Siblings(r) == LinesOf(OrderOf[Target[r]])

RowsOf(S, l) == {x \in S : x.line = l}

\* ORDER BY changed_at DESC LIMIT 1: any row of the last second.
LatestRows(S, l) == {x \in RowsOf(S, l) : \A y \in RowsOf(S, l) : y.at <= x.at}

\* Mutant: the history id does not break the tie.
UnorderedRows(S, l) == LatestRows(S, l)

\* ORDER BY changed_at DESC, history_id DESC LIMIT 1: the last of those.
CurrentRows(S, l) == {x \in LatestRows(S, l) : \A y \in LatestRows(S, l) : y.id <= x.id}

\* COALESCE(status_code, 'ORDER_RECEIVED') over the rows a query may pick.
CodesOf(S) == IF S = {} THEN {"ORDER_RECEIVED"} ELSE {x.code : x \in S}

Exists(l) == RowsOf(rows, l) # {}

\* cancel_order stamps its rows with utcnow(), every other writer with now().
Stamp(code) == IF code = "CANCELLED" THEN clock - UtcLag ELSE clock

NewRow(l, code, r) ==
    [line |-> l, code |-> code, at |-> Stamp(code), id |-> lastId[l] + 1, by |-> r]

Init ==
    /\ rows = {[line |-> l, code |-> "ORDER_RECEIVED", at |-> 0, id |-> 1, by |-> Outside] :
                 l \in Lines \ HsLines}
    /\ pending = [r \in Requests |-> {}]
    /\ snapshot = [r \in Requests |-> {}]
    /\ todo = [r \in Requests |-> {}]
    /\ lastId = [l \in Lines |-> IF l \in HsLines THEN 0 ELSE 1]
    /\ pc \in [Requests -> {"absent", "unsent"}]
    /\ Cardinality({r \in Requests : pc[r] = "unsent"}) = Sent
    /\ answer = [r \in Requests |-> "none"]
    /\ seen = [r \in Requests |-> {}]
    /\ pay = [r \in Requests |-> "none"]
    /\ attempts = [r \in Requests |-> 0]
    /\ clock = Age
-----------------------------------------------------------------------------
\* A request of this kind arrives.
Arrives(r, kind) == pc[r] = "unsent" /\ Kind[r] = kind

(***************************************************************************)
(* The first query opens the session and fixes what it reads.              *)
(***************************************************************************)
Begin(r, state, changes) ==
    /\ snapshot' = [snapshot EXCEPT ![r] = rows]
    /\ todo' = [todo EXCEPT ![r] = changes]
    /\ pc' = [pc EXCEPT ![r] = state]

(***************************************************************************)
(* The end of a request: the session is closed, and with it goes what was  *)
(* not committed.                                                          *)
(***************************************************************************)
End(r, reply) ==
    /\ pc' = [pc EXCEPT ![r] = "done"]
    /\ answer' = [answer EXCEPT ![r] = reply]
    /\ pending' = [pending EXCEPT ![r] = {}]
    /\ snapshot' = [snapshot EXCEPT ![r] = {}]
    /\ todo' = [todo EXCEPT ![r] = {}]

(***************************************************************************)
(* Any request may be refused, and any query of it may fail.  Only the     *)
(* marking of v1 swallows its exceptions (SkipMarking).                    *)
(***************************************************************************)
Fail(r) ==
    /\ pc[r] = "unsent" \/ pc[r] \in Open \ {"requesting"}
    /\ End(r, "error")
    /\ UNCHANGED <<rows, lastId, seen, pay, attempts, clock>>

(***************************************************************************)
(* update_kok_order_status and update_hs_order_status: one more row is     *)
(* inserted, whatever the status of the line is.                           *)
(***************************************************************************)
UpdateStatus(r) ==
    /\ pc[r] \in {"requesting", "writing"}
    /\ \E change \in todo[r] :
        LET l == change[1]  code == change[2]
        IN  /\ \A other \in todo[r] : Rank(code) <= Rank(other[2])
            /\ pending' = [pending EXCEPT ![r] = @ \cup {NewRow(l, code, r)}]
            /\ lastId' = [lastId EXCEPT ![l] = @ + 1]
            /\ todo' = [todo EXCEPT ![r] = @ \ {change}]
    /\ UNCHANGED <<rows, snapshot, pc, answer, seen, pay, attempts, clock>>

Written(r) == pc[r] = "writing" /\ todo[r] = {}

\* Mutant: the route answers without having committed.
AnswerOnly(r) ==
    /\ Written(r)
    /\ Kind[r] \in {"confirm_line", "confirm_order", "confirm_hs", "create_hs"}
    /\ End(r, "ok")
    /\ UNCHANGED <<rows, lastId, seen, pay, attempts, clock>>

(***************************************************************************)
(* The commit of a route; its client may miss the answer.                  *)
(***************************************************************************)
Commit(r) ==
    /\ Written(r)
    /\ Kind[r] \in {"confirm_line", "confirm_order", "confirm_hs", "create_hs"}
    /\ rows' = rows \cup pending[r]
    /\ \E reply \in {"ok", "error"} : End(r, reply)
    /\ UNCHANGED <<lastId, seen, pay, attempts, clock>>
-----------------------------------------------------------------------------
\* POST /orders/kok/{id}/payment/confirm
ConfirmLine(r) ==
    /\ Arrives(r, "confirm_line")
    /\ Target[r] \notin HsLines
    /\ Begin(r, "writing", {<<Target[r], "PAYMENT_COMPLETED">>})
    /\ UNCHANGED <<rows, pending, lastId, answer, seen, pay, attempts, clock>>

\* POST /orders/kok/order-unit/{id}/payment/confirm
ConfirmOrder(r) ==
    /\ Arrives(r, "confirm_order")
    /\ Siblings(r) \ HsLines # {}
    /\ Begin(r, "writing", (Siblings(r) \ HsLines) \X {"PAYMENT_COMPLETED"})
    /\ UNCHANGED <<rows, pending, lastId, answer, seen, pay, attempts, clock>>

(***************************************************************************)
(* POST /orders/homeshopping/{id}/payment/confirm: the only confirmation   *)
(* that looks at the status.                                               *)
(***************************************************************************)
ConfirmHs(r) ==
    /\ Arrives(r, "confirm_hs")
    /\ Target[r] \in HsLines
    /\ IF Exists(Target[r]) /\ CodesOf(CurrentRows(rows, Target[r])) = {"PAYMENT_REQUESTED"}
       THEN /\ Begin(r, "writing", {<<Target[r], "PAYMENT_COMPLETED">>})
            /\ UNCHANGED <<pending, answer>>
       ELSE End(r, "error")
    /\ UNCHANGED <<rows, lastId, seen, pay, attempts, clock>>

\* POST /orders/homeshopping/order, past the price calculation
CreateHs(r) ==
    /\ Arrives(r, "create_hs")
    /\ Target[r] \in HsLines
    /\ Begin(r, "writing", {<<Target[r], "ORDER_RECEIVED">>})
    /\ UNCHANGED <<rows, pending, lastId, answer, seen, pay, attempts, clock>>

(***************************************************************************)
(* PATCH /orders/kok/{id}/status: its first log line reads status_code, an *)
(* attribute that the request model does not have.                         *)
(***************************************************************************)
PatchStatus(r) ==
    /\ Arrives(r, "patch")
    /\ End(r, "error")
    /\ UNCHANGED <<rows, lastId, seen, pay, attempts, clock>>
-----------------------------------------------------------------------------
\* Mutant: a status that STATUS_CODES does not have.
MisspeltProgress == {"PREPARING", "SHIPPED", "DELIVERED"}

(***************************************************************************)
(* POST .../auto-update of either kind of line; the background task opens  *)
(* a session of its own.                                                   *)
(***************************************************************************)
Progress == {"PREPARING", "SHIPPING", "DELIVERED"}

StartAutoKok(r) ==
    /\ Arrives(r, "auto_kok")
    /\ Target[r] \notin HsLines
    /\ "PAYMENT_COMPLETED" \in CodesOf(CurrentRows(rows, Target[r]))
    /\ Begin(r, "writing", {Target[r]} \X Progress)
    /\ UNCHANGED <<rows, pending, lastId, answer, seen, pay, attempts, clock>>

StartAutoHs(r) ==
    /\ Arrives(r, "auto_hs")
    /\ Target[r] \in HsLines
    /\ "PAYMENT_COMPLETED" \in CodesOf(LatestRows(rows, Target[r]))
    /\ Begin(r, "writing", {Target[r]} \X Progress)
    /\ UNCHANGED <<rows, pending, lastId, answer, seen, pay, attempts, clock>>

\* Mutant: the task commits what it has written.
FinishAndCommitAuto(r) ==
    /\ Written(r)
    /\ Kind[r] \in {"auto_kok", "auto_hs"}
    /\ rows' = rows \cup pending[r]
    /\ End(r, "finished")
    /\ UNCHANGED <<lastId, seen, pay, attempts, clock>>

\* The task has written its last status and closes its session.
FinishAuto(r) ==
    /\ Written(r)
    /\ Kind[r] \in {"auto_kok", "auto_hs"}
    /\ End(r, "finished")
    /\ UNCHANGED <<rows, lastId, seen, pay, attempts, clock>>
-----------------------------------------------------------------------------
(***************************************************************************)
(* Payment v1: access to the order, the payment at the payment server, and *)
(* the marks of a requested payment in the open session.                   *)
(***************************************************************************)
StartV1(r) ==
    /\ Arrives(r, "v1")
    /\ Exists(Target[r])
    /\ Begin(r, "requesting", Siblings(r) \X {"PAYMENT_REQUESTED"})
    /\ pay' = [pay EXCEPT ![r] = "open"]
    /\ UNCHANGED <<rows, pending, lastId, answer, seen, attempts, clock>>

\* The marks are written, or one of them fails, which is only logged.
SkipMarking(r) ==
    /\ pc[r] = "requesting"
    /\ pc' = [pc EXCEPT ![r] = "waiting"]
    /\ todo' = [todo EXCEPT ![r] = {}]
    /\ UNCHANGED <<rows, pending, snapshot, lastId, answer, seen, pay, attempts, clock>>

Polls(r) == Kind[r] = "v1" /\ pc[r] = "waiting" /\ attempts[r] < MaxAttempts

\* No answer, an error, or PENDING.
PollPending(r) ==
    /\ Polls(r)
    /\ attempts' = [attempts EXCEPT ![r] = @ + 1]
    /\ UNCHANGED <<rows, pending, snapshot, todo, lastId, pc, answer, seen, pay, clock>>

PollCompleted(r) ==
    /\ Polls(r)
    /\ pay[r] = "completed"
    /\ pc' = [pc EXCEPT ![r] = "writing"]
    /\ todo' = [todo EXCEPT ![r] = Siblings(r) \X {"PAYMENT_COMPLETED"}]
    /\ UNCHANGED <<rows, pending, snapshot, lastId, answer, seen, pay, attempts, clock>>

(***************************************************************************)
(* The payment failed, or the last attempt is spent: cancel_order writes   *)
(* into the session, and the exception that follows rolls it back.         *)
(***************************************************************************)
CancelV1(r) ==
    /\ Kind[r] = "v1"
    /\ pc[r] = "waiting"
    /\ attempts[r] = MaxAttempts \/ pay[r] = "failed"
    /\ End(r, "error")
    /\ UNCHANGED <<rows, lastId, seen, pay, attempts, clock>>

\* Mutant: v1 commits its session.
FinishAndCommitV1(r) ==
    /\ Written(r)
    /\ Kind[r] = "v1"
    /\ rows' = rows \cup pending[r]
    /\ End(r, "paid")
    /\ UNCHANGED <<lastId, seen, pay, attempts, clock>>

\* The answer PAYMENT_COMPLETED; the session is closed as it is.
FinishV1(r) ==
    /\ Written(r)
    /\ Kind[r] = "v1"
    /\ End(r, "paid")
    /\ UNCHANGED <<rows, lastId, seen, pay, attempts, clock>>

\* The payment server decides a payment once.
PaymentServer(r) ==
    /\ pay[r] = "open"
    /\ \E outcome \in {"completed", "failed"} : pay' = [pay EXCEPT ![r] = outcome]
    /\ UNCHANGED <<rows, pending, snapshot, todo, lastId, pc, answer, seen, attempts, clock>>
-----------------------------------------------------------------------------
(***************************************************************************)
(* Payment v2: the check of the order opens a payment; its webhook settles *)
(* the order in one transaction.  A failed look-up of the lines counts as  *)
(* an order that has none, at either end (Found).                          *)
(***************************************************************************)
Found(r) == {{}, Siblings(r)}

OpenV2(r) ==
    /\ Arrives(r, "v2")
    /\ \A l \in Siblings(r) : Exists(l)
    /\ \E found \in Found(r) :
         \A l \in found : "ORDER_RECEIVED" \in CodesOf(LatestRows(rows, l))
    /\ Begin(r, "waiting", {})
    /\ UNCHANGED <<rows, pending, lastId, answer, seen, pay, attempts, clock>>

(***************************************************************************)
(* A completed payment marks each line that was found, or is answered with *)
(* an error (Fail).  The failure of cancel_order is only logged, and what  *)
(* it has marked by then is committed.                                     *)
(***************************************************************************)
Reached(r, code) == IF code = "CANCELLED" THEN SUBSET Siblings(r) ELSE Found(r)

SettleV2(r) ==
    /\ Kind[r] = "v2"
    /\ pc[r] = "waiting"
    /\ \E code \in {"PAYMENT_COMPLETED", "CANCELLED"} : \E reached \in Reached(r, code) :
         /\ rows' = rows \cup {NewRow(l, code, r) : l \in reached}
         /\ lastId' = [l \in Lines |-> IF l \in reached THEN lastId[l] + 1 ELSE lastId[l]]
    /\ End(r, "ok")
    /\ UNCHANGED <<seen, pay, attempts, clock>>
-----------------------------------------------------------------------------
(***************************************************************************)
(* GET .../status and .../with-status: a failed query of the order is a    *)
(* missing order, which is answered with a 404 (Fail).                     *)
(***************************************************************************)
ShowStatus(r) ==
    /\ Exists(Target[r])
    /\ \E code \in CodesOf(CurrentRows(rows, Target[r])) :
        seen' = [seen EXCEPT ![r] = {<<Target[r], code>>}]
    /\ End(r, "ok")
    /\ UNCHANGED <<rows, lastId, pay, attempts, clock>>

ReadKokStatus(r) == Arrives(r, "status") /\ Target[r] \notin HsLines /\ ShowStatus(r)

ReadHsStatus(r) == Arrives(r, "status") /\ Target[r] \in HsLines /\ ShowStatus(r)

\* GET /orders: the order's lines first, then the status of one after the other
OpenList(r) ==
    /\ Arrives(r, "list")
    /\ Begin(r, "reading", {})
    /\ UNCHANGED <<rows, pending, lastId, answer, seen, pay, attempts, clock>>

Unread(r) == {l \in Siblings(r) : RowsOf(snapshot[r], l) # {}} \ {s[1] : s \in seen[r]}

\* Mutant: each query sees what is committed by then.
ReadNewest(r) ==
    /\ pc[r] = "reading"
    /\ \E l \in Unread(r) : \E code \in CodesOf(LatestRows(rows, l)) :
        seen' = [seen EXCEPT ![r] = @ \cup {<<l, code>>}]
    /\ UNCHANGED <<rows, pending, snapshot, todo, lastId, pc, answer, pay, attempts, clock>>

\* get_delivery_info, which answers a failed query with a text of its own
ReadDelivery(r) ==
    /\ pc[r] = "reading"
    /\ \E l \in Unread(r) : \E code \in CodesOf(LatestRows(snapshot[r], l)) \cup {"unread"} :
        seen' = [seen EXCEPT ![r] = @ \cup {<<l, code>>}]
    /\ UNCHANGED <<rows, pending, snapshot, todo, lastId, pc, answer, pay, attempts, clock>>

\* The snapshot is kept, for the statement of what a finished list has shown.
FinishList(r) ==
    /\ pc[r] = "reading"
    /\ Unread(r) = {}
    /\ pc' = [pc EXCEPT ![r] = "done"]
    /\ answer' = [answer EXCEPT ![r] = "ok"]
    /\ UNCHANGED <<rows, pending, snapshot, todo, lastId, seen, pay, attempts, clock>>
-----------------------------------------------------------------------------
Tick ==
    /\ clock < MaxClock
    /\ clock' = clock + 1
    /\ UNCHANGED <<rows, pending, snapshot, todo, lastId, pc, answer, seen, pay, attempts>>

Confirming(r) == ConfirmLine(r) \/ ConfirmOrder(r) \/ ConfirmHs(r) \/ CreateHs(r)

V1Step(r) ==
    \/ StartV1(r) \/ SkipMarking(r) \/ PollPending(r) \/ PollCompleted(r)
    \/ CancelV1(r) \/ FinishV1(r)

V2Step(r) == OpenV2(r) \/ SettleV2(r)

AutoStep(r) == StartAutoKok(r) \/ StartAutoHs(r) \/ FinishAuto(r)

ReadStep(r) ==
    \/ ReadKokStatus(r) \/ ReadHsStatus(r)
    \/ OpenList(r) \/ ReadDelivery(r) \/ FinishList(r)

RequestStep(r) ==
    \/ UpdateStatus(r) \/ Commit(r) \/ Confirming(r) \/ PatchStatus(r)
    \/ AutoStep(r) \/ V1Step(r) \/ V2Step(r) \/ ReadStep(r)

Next ==
    \/ \E r \in Requests : RequestStep(r) \/ Fail(r) \/ PaymentServer(r)
    \/ Tick

Spec == Init /\ [][Next]_vars
=============================================================================
