--------------------------- MODULE OrderStatusProofs ---------------------------
(***************************************************************************)
(* Proofs that the types, the properties of confirmations and of home      *)
(* shopping lines, and the contract of the order status hold for any       *)
(* numbers of lines, orders and requests.                                  *)
(***************************************************************************)
EXTENDS OrderStatusProperties, FiniteSetTheorems, TLAPS

USE DEF Open, States, Answers, PayStates
-----------------------------------------------------------------------------
(* Types *)

LEMMA InitTypes == Init => TypeOK
  BY StatusParameters DEF Init, TypeOK, Row, Codes

LEMMA NewRowTypes ==
    ASSUME TypeOK, NEW r \in Requests, NEW l \in Lines, NEW code \in Codes
    PROVE  NewRow(l, code, r) \in Row
  BY StatusParameters DEF TypeOK, NewRow, Stamp, Row

LEMMA EndTypes ==
    ASSUME TypeOK, NEW r \in Requests, NEW reply \in Answers, End(r, reply),
           rows' \in SUBSET Row, lastId' \in [Lines -> Nat],
           seen' \in [Requests -> SUBSET (Lines \X (Codes \cup {"unread"}))],
           UNCHANGED <<pay, attempts, clock>>
    PROVE  TypeOK'
  BY DEF TypeOK, End

LEMMA BeginTypes ==
    ASSUME TypeOK, NEW r \in Requests, NEW state \in States,
           NEW changes \in SUBSET (Lines \X Codes), Begin(r, state, changes),
           pay' \in [Requests -> PayStates],
           UNCHANGED <<rows, pending, lastId, answer, seen, attempts, clock>>
    PROVE  TypeOK'
  BY DEF TypeOK, Begin

LEMMA NextTypes == TypeOK /\ [Next]_vars => TypeOK'
<1> SUFFICES ASSUME TypeOK, [Next]_vars PROVE TypeOK'
  OBVIOUS
<1> USE StatusParameters
<1>1. ASSUME NEW r \in Requests PROVE Siblings(r) \subseteq Lines /\ Target[r] \in Lines
  BY DEF Siblings, LinesOf
<1>2. ASSUME NEW r \in Requests, UpdateStatus(r) PROVE TypeOK'
  <2> PICK change \in todo[r] :
        /\ pending' = [pending EXCEPT ![r] = @ \cup {NewRow(change[1], change[2], r)}]
        /\ lastId' = [lastId EXCEPT ![change[1]] = @ + 1]
        /\ todo' = [todo EXCEPT ![r] = @ \ {change}]
    BY <1>2 DEF UpdateStatus
  <2>1. change[1] \in Lines /\ change[2] \in Codes
    BY DEF TypeOK
  <2>2. NewRow(change[1], change[2], r) \in Row
    BY <2>1, NewRowTypes
  <2>3. pending' \in [Requests -> SUBSET Row]
    BY <2>2 DEF TypeOK
  <2>4. lastId' \in [Lines -> Nat]
    BY <2>1 DEF TypeOK
  <2>5. todo' \in [Requests -> SUBSET (Lines \X Codes)]
    BY DEF TypeOK
  <2> QED BY <1>2, <2>3, <2>4, <2>5 DEF UpdateStatus, TypeOK
<1>3. ASSUME NEW r \in Requests, Commit(r) PROVE TypeOK'
  <2>1. rows' \in SUBSET Row /\ lastId' = lastId /\ seen' = seen
    BY <1>3 DEF Commit, TypeOK
  <2>2. PICK reply \in {"ok", "error"} : End(r, reply)
    BY <1>3 DEF Commit
  <2> QED BY <1>3, <2>1, <2>2, EndTypes DEF Commit, TypeOK
<1>4. ASSUME NEW r \in Requests, Confirming(r) PROVE TypeOK'
  <2>1. /\ {<<Target[r], "PAYMENT_COMPLETED">>} \in SUBSET (Lines \X Codes)
        /\ {<<Target[r], "ORDER_RECEIVED">>} \in SUBSET (Lines \X Codes)
        /\ (Siblings(r) \ HsLines) \X {"PAYMENT_COMPLETED"} \in SUBSET (Lines \X Codes)
    BY <1>1 DEF Codes
  <2>2. pay \in [Requests -> PayStates] /\ rows \in SUBSET Row /\ lastId \in [Lines -> Nat]
        /\ seen \in [Requests -> SUBSET (Lines \X (Codes \cup {"unread"}))]
    BY DEF TypeOK
  <2>3. CASE ConfirmLine(r)
    BY <2>1, <2>2, <2>3, BeginTypes DEF ConfirmLine
  <2>4. CASE ConfirmOrder(r)
    BY <2>1, <2>2, <2>4, BeginTypes DEF ConfirmOrder
  <2>5. CASE ConfirmHs(r)
    BY <2>1, <2>2, <2>5, BeginTypes, EndTypes DEF ConfirmHs
  <2>6. CASE CreateHs(r)
    BY <2>1, <2>2, <2>6, BeginTypes DEF CreateHs
  <2> QED BY <1>4, <2>3, <2>4, <2>5, <2>6 DEF Confirming
<1>5. ASSUME NEW r \in Requests, PatchStatus(r) \/ Fail(r) \/ FinishAuto(r)
                                 \/ CancelV1(r) \/ FinishV1(r)
      PROVE  TypeOK'
  <2>1. /\ \E reply \in Answers : End(r, reply)
        /\ UNCHANGED <<rows, lastId, seen, pay, attempts, clock>>
    BY <1>5 DEF PatchStatus, Fail, FinishAuto, CancelV1, FinishV1
  <2>2. /\ rows' \in SUBSET Row /\ lastId' \in [Lines -> Nat]
        /\ seen' \in [Requests -> SUBSET (Lines \X (Codes \cup {"unread"}))]
    BY <2>1 DEF TypeOK
  <2> QED BY <2>1, <2>2, EndTypes
<1>6. ASSUME NEW r \in Requests, StartAutoKok(r) \/ StartAutoHs(r) PROVE TypeOK'
  <2>1. {Target[r]} \X Progress \in SUBSET (Lines \X Codes)
    BY DEF Codes, Progress
  <2>2. pay \in [Requests -> PayStates]
    BY DEF TypeOK
  <2> QED BY <1>6, <2>1, <2>2, BeginTypes DEF StartAutoKok, StartAutoHs
<1>7. ASSUME NEW r \in Requests, StartV1(r) PROVE TypeOK'
  <2>1. Siblings(r) \X {"PAYMENT_REQUESTED"} \in SUBSET (Lines \X Codes)
    BY <1>1 DEF Codes
  <2>2. pay' \in [Requests -> PayStates]
    BY <1>7 DEF StartV1, TypeOK
  <2> QED BY <1>7, <2>1, <2>2, BeginTypes DEF StartV1
<1>8. ASSUME NEW r \in Requests, SkipMarking(r) \/ PollPending(r) \/ PaymentServer(r)
      PROVE  TypeOK'
  BY <1>8 DEF SkipMarking, PollPending, PaymentServer, TypeOK
<1>9. ASSUME NEW r \in Requests, PollCompleted(r) PROVE TypeOK'
  <2>1. Siblings(r) \X {"PAYMENT_COMPLETED"} \in SUBSET (Lines \X Codes)
    BY <1>1 DEF Codes
  <2> QED BY <1>9, <2>1 DEF PollCompleted, TypeOK
<1>10. ASSUME NEW r \in Requests, OpenV2(r) PROVE TypeOK'
  BY <1>10, BeginTypes DEF OpenV2, TypeOK
<1>11. ASSUME NEW r \in Requests, SettleV2(r) PROVE TypeOK'
  <2> PICK code \in {"PAYMENT_COMPLETED", "CANCELLED"} : \E reached \in Reached(r, code) :
        /\ rows' = rows \cup {NewRow(l, code, r) : l \in reached}
        /\ lastId' = [l \in Lines |-> IF l \in reached THEN lastId[l] + 1 ELSE lastId[l]]
    BY <1>11 DEF SettleV2
  <2> PICK reached \in Reached(r, code) :
        /\ rows' = rows \cup {NewRow(l, code, r) : l \in reached}
        /\ lastId' = [l \in Lines |-> IF l \in reached THEN lastId[l] + 1 ELSE lastId[l]]
    OBVIOUS
  <2>1. \A l \in reached : NewRow(l, code, r) \in Row
    <3>1. reached \subseteq Siblings(r)
      BY DEF Reached, Found
    <3> QED BY <1>1, <3>1, NewRowTypes DEF Codes
  <2>2. rows' \in SUBSET Row
    BY <2>1 DEF TypeOK
  <2>3. lastId' \in [Lines -> Nat]
    BY DEF TypeOK
  <2> QED BY <1>11, <2>2, <2>3, EndTypes DEF SettleV2, TypeOK
<1>12. ASSUME NEW r \in Requests, ReadKokStatus(r) \/ ReadHsStatus(r) PROVE TypeOK'
  <2>1. ShowStatus(r)
    BY <1>12 DEF ReadKokStatus, ReadHsStatus
  <2> PICK code \in CodesOf(CurrentRows(rows, Target[r])) :
        seen' = [seen EXCEPT ![r] = {<<Target[r], code>>}]
    BY <2>1 DEF ShowStatus
  <2>2. code \in Codes
    BY DEF CodesOf, CurrentRows, LatestRows, RowsOf, TypeOK, Row, Codes
  <2>3. seen' \in [Requests -> SUBSET (Lines \X (Codes \cup {"unread"}))]
    BY <2>2 DEF TypeOK
  <2> QED BY <2>1, <2>3, EndTypes DEF ShowStatus, TypeOK
<1>13. ASSUME NEW r \in Requests, OpenList(r) PROVE TypeOK'
  BY <1>13, BeginTypes DEF OpenList, TypeOK
<1>14. ASSUME NEW r \in Requests, ReadDelivery(r) PROVE TypeOK'
  <2> PICK l \in Unread(r) :
        \E code \in CodesOf(LatestRows(snapshot[r], l)) \cup {"unread"} :
          seen' = [seen EXCEPT ![r] = @ \cup {<<l, code>>}]
    BY <1>14 DEF ReadDelivery
  <2> PICK code \in CodesOf(LatestRows(snapshot[r], l)) \cup {"unread"} :
        seen' = [seen EXCEPT ![r] = @ \cup {<<l, code>>}]
    OBVIOUS
  <2>1. l \in Lines
    BY <1>1 DEF Unread
  <2>2. code \in Codes \cup {"unread"}
    BY DEF CodesOf, LatestRows, RowsOf, TypeOK, Row, Codes
  <2>3. seen' \in [Requests -> SUBSET (Lines \X (Codes \cup {"unread"}))]
    BY <2>1, <2>2 DEF TypeOK
  <2> QED BY <1>14, <2>3 DEF ReadDelivery, TypeOK
<1>15. ASSUME NEW r \in Requests, FinishList(r) PROVE TypeOK'
  BY <1>15 DEF FinishList, TypeOK
<1>16. CASE Tick
  BY <1>16 DEF Tick, TypeOK
<1>17. CASE UNCHANGED vars
  BY <1>17 DEF vars, TypeOK
<1> QED BY <1>2, <1>3, <1>4, <1>5, <1>6, <1>7, <1>8, <1>9, <1>10, <1>11, <1>12, <1>13,
           <1>14, <1>15, <1>16, <1>17
        DEF Next, RequestStep, AutoStep, V1Step, V2Step, ReadStep

(***************************************************************************)
(* TypeOK for every instance.                                              *)
(***************************************************************************)
THEOREM TypeCorrect == Spec => []TypeOK
BY InitTypes, NextTypes, PTL DEF Spec
-----------------------------------------------------------------------------
(* What requests write, and what reaches the tables *)

Committing == {"confirm_line", "confirm_order", "confirm_hs", "create_hs"}

WorkCode(r) == IF Kind[r] = "create_hs" THEN "ORDER_RECEIVED" ELSE "PAYMENT_COMPLETED"

\* A line that has any status has been received, and kok lines always have one.
ReceivedFirst ==
    /\ \A x \in rows : x.code \in {"ORDER_RECEIVED", "PAYMENT_COMPLETED", "CANCELLED"}
    /\ \A l \in Lines : Exists(l) \/ l \notin HsLines => HasCode(l, "ORDER_RECEIVED")

\* The lines that a request writes are its own; a home shopping line's
\* confirmation never comes to write.
WritesItsOwn(r) ==
    /\ Kind[r] # "confirm_hs"
    /\ Kind[r] = "create_hs" => Target[r] \in HsLines
    /\ Kind[r] # "create_hs" => Confirmed(r) \cap HsLines = {}
    /\ Confirmed(r) # {}

\* Each of them is either still to be written or has been.
WorkIsDone(r) ==
    /\ todo[r] \subseteq Confirmed(r) \X {WorkCode(r)}
    /\ \A x \in pending[r] :
        x.by = r /\ x.line \in Confirmed(r) /\ x.code = WorkCode(r)
    /\ \A l \in Confirmed(r) :
        <<l, WorkCode(r)>> \in todo[r] \/ \E x \in pending[r] : x.line = l

RequestInOrder(r) ==
    /\ pc[r] \in {"absent", "unsent"} => pending[r] = {}
    /\ pc[r] = "done" /\ Kind[r] \in Committing => pending[r] = {}
    /\ pc[r] = "reading" => Kind[r] = "list"
    /\ pc[r] = "requesting" => Kind[r] = "v1"
    /\ pc[r] = "waiting" => Kind[r] \in {"v1", "v2"}
    /\ pc[r] = "waiting" /\ Kind[r] = "v2" => \A l \in Siblings(r) : Exists(l)
    /\ pc[r] = "writing" /\ Kind[r] \in Committing => WritesItsOwn(r) /\ WorkIsDone(r)

StatusInv ==
    /\ TypeOK
    /\ ReceivedFirst
    /\ \A r \in Requests : RequestInOrder(r)
    /\ ConfirmationsAreRecorded
    /\ HsIsPaidByV2Only

LEMMA InitStatusInv == Init => StatusInv
<1> SUFFICES ASSUME Init PROVE StatusInv
  OBVIOUS
<1>1. ReceivedFirst
  <2> DEFINE first(l) ==
        [line |-> l, code |-> "ORDER_RECEIVED", at |-> 0, id |-> 1, by |-> Outside]
  <2>1. rows = {first(l) : l \in Lines \ HsLines}
    BY DEF Init
  <2>2. \A l \in Lines : first(l).line = l /\ first(l).code = "ORDER_RECEIVED"
    OBVIOUS
  <2> HIDE DEF first
  <2> QED BY <2>1, <2>2 DEF ReceivedFirst, Exists, HasCode, RowsOf
<1>2. \A r \in Requests : RequestInOrder(r)
  BY DEF Init, RequestInOrder
<1>3. ConfirmationsAreRecorded
  BY StatusParameters DEF Init, ConfirmationsAreRecorded, WrittenFor, RowsOf
<1>4. HsIsPaidByV2Only
  BY DEF Init, HsIsPaidByV2Only
<1> QED BY <1>1, <1>2, <1>3, <1>4, InitTypes DEF StatusInv

\* A step of one request that leaves the tables alone.
LEMMA RequestMoves ==
    ASSUME StatusInv, TypeOK', NEW r \in Requests, rows' = rows,
           \A q \in Requests \ {r} :
               /\ pc'[q] = pc[q] /\ pending'[q] = pending[q]
               /\ todo'[q] = todo[q] /\ answer'[q] = answer[q],
           RequestInOrder(r)',
           answer'[r] = "ok" => answer[r] = "ok" \/ Kind[r] \notin Committing
    PROVE  StatusInv'
<1>1. ReceivedFirst'
  BY DEF StatusInv, ReceivedFirst, Exists, HasCode, RowsOf
<1>2. \A q \in Requests : RequestInOrder(q)'
  BY DEF StatusInv, RequestInOrder, WorkIsDone, WritesItsOwn, Exists, RowsOf
<1>3. ConfirmationsAreRecorded'
  BY DEF StatusInv, ConfirmationsAreRecorded, WrittenFor, RowsOf, Committing
<1>4. HsIsPaidByV2Only'
  BY DEF StatusInv, HsIsPaidByV2Only, Committing
<1> QED BY <1>1, <1>2, <1>3, <1>4 DEF StatusInv

\* A request that ends without a commit.
LEMMA EndKeeps ==
    ASSUME StatusInv, TypeOK', NEW r \in Requests, NEW reply, End(r, reply), rows' = rows,
           reply # "ok" \/ Kind[r] \notin Committing
    PROVE  StatusInv'
<1>1. /\ pc'[r] = "done" /\ answer'[r] = reply /\ pending'[r] = {}
      /\ \A q \in Requests \ {r} :
           /\ pc'[q] = pc[q] /\ pending'[q] = pending[q]
           /\ todo'[q] = todo[q] /\ answer'[q] = answer[q]
  BY DEF End, StatusInv, TypeOK
<1>2. RequestInOrder(r)'
  BY <1>1 DEF RequestInOrder
<1> QED BY <1>1, <1>2, RequestMoves

\* A request that opens its session.
LEMMA BeginKeeps ==
    ASSUME StatusInv, TypeOK', NEW r \in Requests, NEW state, NEW changes,
           pc[r] = "unsent", Begin(r, state, changes),
           UNCHANGED <<rows, pending, answer>>,
           \/ /\ state = "writing" /\ Kind[r] \in Committing
              /\ WritesItsOwn(r) /\ changes = Confirmed(r) \X {WorkCode(r)}
           \/ state = "writing" /\ Kind[r] \in {"auto_kok", "auto_hs"}
           \/ state = "requesting" /\ Kind[r] = "v1"
           \/ state = "waiting" /\ Kind[r] = "v2" /\ \A l \in Siblings(r) : Exists(l)
           \/ state = "reading" /\ Kind[r] = "list"
    PROVE  StatusInv'
<1>1. /\ pc'[r] = state /\ todo'[r] = changes /\ pending'[r] = {}
      /\ \A q \in Requests \ {r} :
           /\ pc'[q] = pc[q] /\ pending'[q] = pending[q]
           /\ todo'[q] = todo[q] /\ answer'[q] = answer[q]
  BY DEF Begin, StatusInv, TypeOK, RequestInOrder
<1>2. state = "writing" /\ Kind[r] \in Committing => WorkIsDone(r)'
  BY <1>1 DEF WorkIsDone, Committing, Confirmed, WorkCode, Siblings
<1>3. RequestInOrder(r)'
  BY <1>1, <1>2
  DEF RequestInOrder, Committing, WritesItsOwn, Confirmed, Siblings, Exists, RowsOf
<1> QED BY <1>1, <1>3, RequestMoves

LEMMA UpdateStatusKeeps ==
    ASSUME StatusInv, TypeOK', NEW r \in Requests, UpdateStatus(r) PROVE StatusInv'
<1> PICK change \in todo[r] :
      /\ pending' = [pending EXCEPT ![r] = @ \cup {NewRow(change[1], change[2], r)}]
      /\ todo' = [todo EXCEPT ![r] = @ \ {change}]
  BY DEF UpdateStatus
<1> DEFINE new == NewRow(change[1], change[2], r)
<1>1. /\ pc' = pc /\ answer' = answer /\ rows' = rows
      /\ pending'[r] = pending[r] \cup {new} /\ todo'[r] = todo[r] \ {change}
      /\ \A q \in Requests \ {r} : pending'[q] = pending[q] /\ todo'[q] = todo[q]
  BY DEF UpdateStatus, StatusInv, TypeOK
<1>2. new.line = change[1] /\ new.code = change[2] /\ new.by = r
  BY DEF NewRow
<1>3. change \in Lines \X Codes
  BY DEF StatusInv, TypeOK
<1> HIDE DEF new
<1>4. pc[r] = "writing" /\ Kind[r] \in Committing => WorkIsDone(r)'
  <2> SUFFICES ASSUME pc[r] = "writing", Kind[r] \in Committing PROVE WorkIsDone(r)'
    OBVIOUS
  <2>1. WorkIsDone(r)
    BY DEF StatusInv, RequestInOrder
  <2>2. change[1] \in Confirmed(r) /\ change[2] = WorkCode(r)
    BY <2>1 DEF WorkIsDone
  <2>3. \A l : <<l, WorkCode(r)>> = change => l = change[1]
    OBVIOUS
  <2> QED BY <1>1, <1>2, <2>1, <2>2, <2>3 DEF WorkIsDone, Confirmed, WorkCode, Siblings
<1>5. pc[r] \in {"requesting", "writing"}
  BY DEF UpdateStatus
<1>6. RequestInOrder(r)'
  BY <1>1, <1>4, <1>5
  DEF StatusInv, RequestInOrder, WritesItsOwn, Confirmed, Siblings, Exists, RowsOf
<1> QED BY <1>1, <1>6, RequestMoves

(***************************************************************************)
(* A step that adds one request's rows to the tables and ends it: a commit,*)
(* or a settlement by payment v2.                                          *)
(***************************************************************************)
LEMMA RowsAreAdded ==
    ASSUME StatusInv, TypeOK', NEW r \in Requests, NEW added, NEW reply,
           rows' = rows \cup added, End(r, reply),
           \A x \in added :
               /\ x.by = r
               /\ x.code \in {"ORDER_RECEIVED", "PAYMENT_COMPLETED", "CANCELLED"}
               /\ x.code = "ORDER_RECEIVED" \/ HasCode(x.line, "ORDER_RECEIVED")
               /\ x.line \in HsLines /\ x.code = "PAYMENT_COMPLETED" => Kind[r] = "v2",
           Kind[r] # "confirm_hs",
           Kind[r] \in {"confirm_line", "confirm_order"} =>
               \A l \in Confirmed(r) : \E x \in added : x.line = l
    PROVE  StatusInv'
<1>1. /\ pc'[r] = "done" /\ answer'[r] = reply /\ pending'[r] = {}
      /\ \A q \in Requests \ {r} :
           /\ pc'[q] = pc[q] /\ pending'[q] = pending[q]
           /\ todo'[q] = todo[q] /\ answer'[q] = answer[q]
  BY DEF End, StatusInv, TypeOK
<1>2. \A l \in Lines : Exists(l) => Exists(l)'
  BY DEF Exists, RowsOf
<1>3. ReceivedFirst'
  <2>1. \A x \in rows' : x.code \in {"ORDER_RECEIVED", "PAYMENT_COMPLETED", "CANCELLED"}
    BY DEF StatusInv, ReceivedFirst
  <2>2. ASSUME NEW l \in Lines, Exists(l)' \/ l \notin HsLines
        PROVE  HasCode(l, "ORDER_RECEIVED")'
    <3>1. CASE HasCode(l, "ORDER_RECEIVED")
      BY <3>1 DEF HasCode, RowsOf
    <3>2. CASE ~ HasCode(l, "ORDER_RECEIVED")
      <4>1. PICK x \in added : x.line = l
        BY <2>2, <3>2 DEF StatusInv, ReceivedFirst, Exists, RowsOf
      <4>2. x.code = "ORDER_RECEIVED"
        BY <3>2, <4>1
      <4> QED BY <4>1, <4>2 DEF HasCode, RowsOf
    <3> QED BY <3>1, <3>2
  <2> QED BY <2>1, <2>2 DEF ReceivedFirst
<1>4. ASSUME NEW q \in Requests PROVE RequestInOrder(q)'
  <2>1. CASE q = r
    BY <1>1, <2>1 DEF RequestInOrder
  <2>2. CASE q # r
    BY <1>1, <1>2, <2>2, StatusParameters
    DEF StatusInv, RequestInOrder, WorkIsDone, WritesItsOwn, Siblings, LinesOf
  <2> QED BY <2>1, <2>2
<1>5. ConfirmationsAreRecorded'
  <2> SUFFICES ASSUME NEW q \in Requests, Kind[q] \in {"confirm_line", "confirm_order"}
               PROVE  /\ answer'[q] = "ok" => \A l \in Confirmed(q) : WrittenFor(q, l)'
                      /\ \A l, other \in Confirmed(q) :
                           WrittenFor(q, l)' => WrittenFor(q, other)'
    BY DEF ConfirmationsAreRecorded, Confirmed, Siblings
  <2>1. CASE q = r
    BY <2>1 DEF WrittenFor, RowsOf
  <2>2. CASE q # r
    <3>1. \A l : WrittenFor(q, l)' <=> WrittenFor(q, l)
      BY <2>2 DEF WrittenFor, RowsOf
    <3> QED BY <1>1, <2>2, <3>1 DEF StatusInv, ConfirmationsAreRecorded
  <2> QED BY <2>1, <2>2
<1>6. HsIsPaidByV2Only'
  BY <1>1 DEF StatusInv, HsIsPaidByV2Only
<1> QED BY <1>3, <1>4, <1>5, <1>6 DEF StatusInv

\* What a commit adds to the tables.
LEMMA CommitAdds ==
    ASSUME StatusInv, NEW r \in Requests, Commit(r)
    PROVE  /\ Kind[r] \in Committing /\ WritesItsOwn(r) /\ WorkIsDone(r)
           /\ \A x \in pending[r] :
                x.by = r /\ x.line \in Confirmed(r) /\ x.code = WorkCode(r)
           /\ \A l \in Confirmed(r) : \E x \in pending[r] : x.line = l
<1>1. pc[r] = "writing" /\ Kind[r] \in Committing /\ todo[r] = {}
  BY DEF Commit, Written, Committing
<1>2. WritesItsOwn(r) /\ WorkIsDone(r)
  BY <1>1 DEF StatusInv, RequestInOrder
<1> QED BY <1>1, <1>2 DEF WorkIsDone

LEMMA CommitKeeps ==
    ASSUME StatusInv, TypeOK', NEW r \in Requests, Commit(r) PROVE StatusInv'
<1>1. PICK reply \in {"ok", "error"} : End(r, reply)
  BY DEF Commit
<1>2. rows' = rows \cup pending[r]
  BY DEF Commit
<1>3. Confirmed(r) \subseteq Lines
  BY StatusParameters DEF Confirmed, Siblings, LinesOf
<1>4. ASSUME NEW x \in pending[r]
      PROVE  /\ x.by = r
             /\ x.code \in {"ORDER_RECEIVED", "PAYMENT_COMPLETED", "CANCELLED"}
             /\ x.code = "ORDER_RECEIVED" \/ HasCode(x.line, "ORDER_RECEIVED")
             /\ x.line \in HsLines /\ x.code = "PAYMENT_COMPLETED" => Kind[r] = "v2"
  BY <1>3, CommitAdds DEF WorkCode, WritesItsOwn, StatusInv, ReceivedFirst
<1>5. Kind[r] # "confirm_hs" /\ \A l \in Confirmed(r) : \E x \in pending[r] : x.line = l
  BY CommitAdds DEF WritesItsOwn
<1> QED BY <1>1, <1>2, <1>4, <1>5, RowsAreAdded

\* The settlement with one code of the lines that were reached.
Settles(r, code, reached) ==
    /\ rows' = rows \cup {NewRow(l, code, r) : l \in reached}
    /\ lastId' = [l \in Lines |-> IF l \in reached THEN lastId[l] + 1 ELSE lastId[l]]

\* A settlement by payment v2: lines that exist, and unless it cancels, all or none.
LEMMA Settlement ==
    ASSUME StatusInv, NEW r \in Requests, SettleV2(r)
    PROVE  /\ Kind[r] = "v2" /\ pc[r] = "waiting" /\ End(r, "ok") /\ UNCHANGED <<seen, clock>>
           /\ \A l \in Siblings(r) : Exists(l) /\ l \in Lines
           /\ \E code \in {"PAYMENT_COMPLETED", "CANCELLED"} :
                \E reached \in SUBSET Siblings(r) :
                  /\ Settles(r, code, reached)
                  /\ code = "CANCELLED" \/ reached \in {{}, Siblings(r)}
<1>1. \A l \in Siblings(r) : Exists(l) /\ l \in Lines
  BY DEF SettleV2, StatusInv, RequestInOrder, Siblings, LinesOf
<1>2. \A code : Reached(r, code) \subseteq SUBSET Siblings(r)
  BY DEF Reached, Found
<1>3. \A code : code # "CANCELLED" => Reached(r, code) = {{}, Siblings(r)}
  BY DEF Reached, Found
<1> QED BY <1>1, <1>2, <1>3 DEF SettleV2, Settles

LEMMA SettleV2Keeps ==
    ASSUME StatusInv, TypeOK', NEW r \in Requests, SettleV2(r) PROVE StatusInv'
<1> PICK code \in {"PAYMENT_COMPLETED", "CANCELLED"}, reached \in SUBSET Siblings(r) :
      Settles(r, code, reached)
  BY Settlement
<1> DEFINE added == {NewRow(l, code, r) : l \in reached}
<1>1. Kind[r] = "v2" /\ End(r, "ok") /\ \A l \in reached : Exists(l) /\ l \in Lines
  BY Settlement
<1>2. ASSUME NEW l \in reached
      PROVE  /\ NewRow(l, code, r).by = r /\ NewRow(l, code, r).line = l
             /\ NewRow(l, code, r).code = code /\ HasCode(l, "ORDER_RECEIVED")
  BY <1>1 DEF NewRow, StatusInv, ReceivedFirst
<1>3. \A x \in added :
        /\ x.by = r /\ x.code \in {"ORDER_RECEIVED", "PAYMENT_COMPLETED", "CANCELLED"}
        /\ HasCode(x.line, "ORDER_RECEIVED")
  BY <1>2
<1> HIDE DEF added
<1>4. rows' = rows \cup added
  BY DEF added, Settles
<1> QED BY <1>1, <1>3, <1>4, RowsAreAdded

\* No request of payment is ever committed, so that no line has that status.
LEMMA NeverRequested ==
    ASSUME StatusInv, NEW l PROVE CodesOf(CurrentRows(rows, l)) # {"PAYMENT_REQUESTED"}
  BY DEF StatusInv, ReceivedFirst, CodesOf, CurrentRows, LatestRows, RowsOf

LEMMA ConfirmingKeeps ==
    ASSUME StatusInv, TypeOK', NEW r \in Requests, Confirming(r) PROVE StatusInv'
<1>1. CASE ConfirmLine(r)
  <2>1. WritesItsOwn(r) /\ Kind[r] \in Committing
    BY <1>1 DEF ConfirmLine, Arrives, WritesItsOwn, Confirmed, Committing
  <2>2. {<<Target[r], "PAYMENT_COMPLETED">>} = Confirmed(r) \X {WorkCode(r)}
    BY <1>1 DEF ConfirmLine, Arrives, Confirmed, WorkCode
  <2> QED BY <1>1, <2>1, <2>2, BeginKeeps DEF ConfirmLine, Arrives
<1>2. CASE ConfirmOrder(r)
  <2>1. WritesItsOwn(r) /\ Kind[r] \in Committing
    BY <1>2 DEF ConfirmOrder, Arrives, WritesItsOwn, Confirmed, Committing
  <2>2. (Siblings(r) \ HsLines) \X {"PAYMENT_COMPLETED"} = Confirmed(r) \X {WorkCode(r)}
    BY <1>2 DEF ConfirmOrder, Arrives, Confirmed, WorkCode
  <2> QED BY <1>2, <2>1, <2>2, BeginKeeps DEF ConfirmOrder, Arrives
<1>3. CASE ConfirmHs(r)
  <2>1. End(r, "error") /\ rows' = rows
    BY <1>3, NeverRequested DEF ConfirmHs
  <2> QED BY <2>1, EndKeeps
<1>4. CASE CreateHs(r)
  <2>1. WritesItsOwn(r) /\ Kind[r] \in Committing
    BY <1>4 DEF CreateHs, Arrives, WritesItsOwn, Confirmed, Committing
  <2>2. {<<Target[r], "ORDER_RECEIVED">>} = Confirmed(r) \X {WorkCode(r)}
    BY <1>4 DEF CreateHs, Arrives, Confirmed, WorkCode
  <2> QED BY <1>4, <2>1, <2>2, BeginKeeps DEF CreateHs, Arrives
<1> QED BY <1>1, <1>2, <1>3, <1>4 DEF Confirming

\* A step of payment v1 or of the server that leaves the session open.
LEMMA V1Keeps ==
    ASSUME StatusInv, TypeOK', NEW r \in Requests,
           SkipMarking(r) \/ PollPending(r) \/ PollCompleted(r) \/ PaymentServer(r)
    PROVE  StatusInv'
<1>1. /\ rows' = rows /\ pending' = pending /\ answer' = answer
      /\ \A q \in Requests \ {r} : pc'[q] = pc[q] /\ todo'[q] = todo[q]
  BY DEF SkipMarking, PollPending, PollCompleted, PaymentServer, StatusInv, TypeOK
<1>2. \/ pc'[r] = pc[r] /\ todo'[r] = todo[r]
      \/ pc[r] = "requesting" /\ pc'[r] = "waiting"
      \/ pc'[r] = "writing" /\ Kind[r] = "v1"
  BY DEF SkipMarking, PollPending, PollCompleted, PaymentServer, Polls, StatusInv, TypeOK
<1>3. pc[r] = "requesting" => Kind[r] = "v1"
  BY DEF StatusInv, RequestInOrder
<1>4. RequestInOrder(r)'
  <2>1. CASE pc'[r] = pc[r] /\ todo'[r] = todo[r]
    BY <1>1, <2>1 DEF StatusInv, RequestInOrder, WorkIsDone, WritesItsOwn, Exists, RowsOf
  <2>2. CASE pc[r] = "requesting" /\ pc'[r] = "waiting"
    BY <1>3, <2>2 DEF RequestInOrder
  <2>3. CASE pc'[r] = "writing" /\ Kind[r] = "v1"
    BY <2>3 DEF RequestInOrder, Committing
  <2> QED BY <1>2, <2>1, <2>2, <2>3
<1> QED BY <1>1, <1>4, RequestMoves

LEMMA ReadKeeps ==
    ASSUME StatusInv, TypeOK', NEW r \in Requests, ReadStep(r) PROVE StatusInv'
<1>1. CASE ReadKokStatus(r) \/ ReadHsStatus(r)
  <2>1. Kind[r] = "status" /\ End(r, "ok") /\ rows' = rows
    BY <1>1 DEF ReadKokStatus, ReadHsStatus, ShowStatus, Arrives
  <2>2. Kind[r] \notin Committing
    BY <2>1 DEF Committing
  <2> QED BY <2>1, <2>2, EndKeeps
<1>2. CASE OpenList(r)
  BY <1>2, BeginKeeps DEF OpenList, Arrives
<1>3. CASE ReadDelivery(r)
  <2>1. UNCHANGED <<rows, pending, todo, pc, answer>>
    BY <1>3 DEF ReadDelivery
  <2>2. RequestInOrder(r)'
    BY <2>1 DEF StatusInv, RequestInOrder, WorkIsDone, WritesItsOwn, Exists, RowsOf
  <2> QED BY <2>1, <2>2, RequestMoves
<1>4. CASE FinishList(r)
  <2>1. /\ pc[r] = "reading" /\ pc'[r] = "done" /\ rows' = rows
        /\ \A q \in Requests \ {r} :
             /\ pc'[q] = pc[q] /\ pending'[q] = pending[q]
             /\ todo'[q] = todo[q] /\ answer'[q] = answer[q]
    BY <1>4 DEF FinishList, StatusInv, TypeOK
  <2>2. Kind[r] \notin Committing
    BY <2>1 DEF StatusInv, RequestInOrder, Committing
  <2>3. RequestInOrder(r)'
    BY <2>1, <2>2 DEF RequestInOrder
  <2> QED BY <2>1, <2>2, <2>3, RequestMoves
<1> QED BY <1>1, <1>2, <1>3, <1>4 DEF ReadStep

LEMMA NextKeepsStatusInv == StatusInv /\ [Next]_vars => StatusInv'
<1> SUFFICES ASSUME StatusInv, [Next]_vars PROVE StatusInv'
  OBVIOUS
<1>1. TypeOK'
  BY NextTypes DEF StatusInv
<1>2. ASSUME NEW r \in Requests, RequestStep(r) PROVE StatusInv'
  <2>1. CASE UpdateStatus(r)
    BY <1>1, <2>1, UpdateStatusKeeps
  <2>2. CASE Commit(r)
    BY <1>1, <2>2, CommitKeeps
  <2>3. CASE Confirming(r)
    BY <1>1, <2>3, ConfirmingKeeps
  <2>4. CASE PatchStatus(r)
    BY <1>1, <2>4, EndKeeps DEF PatchStatus
  <2>5. CASE StartAutoKok(r) \/ StartAutoHs(r)
    BY <1>1, <2>5, BeginKeeps DEF StartAutoKok, StartAutoHs, Arrives
  <2>6. CASE FinishAuto(r) \/ CancelV1(r) \/ FinishV1(r)
    BY <1>1, <2>6, EndKeeps DEF FinishAuto, CancelV1, FinishV1
  <2>7. CASE StartV1(r)
    BY <1>1, <2>7, BeginKeeps DEF StartV1, Arrives
  <2>8. CASE SkipMarking(r) \/ PollPending(r) \/ PollCompleted(r)
    BY <1>1, <2>8, V1Keeps
  <2>9. CASE OpenV2(r)
    BY <1>1, <2>9, BeginKeeps DEF OpenV2, Arrives
  <2>10. CASE SettleV2(r)
    BY <1>1, <2>10, SettleV2Keeps
  <2>11. CASE ReadStep(r)
    BY <1>1, <2>11, ReadKeeps
  <2> QED BY <1>2, <2>1, <2>2, <2>3, <2>4, <2>5, <2>6, <2>7, <2>8, <2>9, <2>10, <2>11
          DEF RequestStep, AutoStep, V1Step, V2Step
<1>3. ASSUME NEW r \in Requests, Fail(r) PROVE StatusInv'
  BY <1>1, <1>3, EndKeeps DEF Fail
<1>4. ASSUME NEW r \in Requests, PaymentServer(r) PROVE StatusInv'
  BY <1>1, <1>4, V1Keeps
<1>5. CASE Tick \/ UNCHANGED vars
  <2>1. UNCHANGED <<rows, pending, todo, pc, answer>>
    BY <1>5 DEF Tick, vars
  <2>2. ReceivedFirst'
    BY <2>1 DEF StatusInv, ReceivedFirst, HasCode, Exists, RowsOf
  <2>3. \A r \in Requests : RequestInOrder(r)'
    BY <2>1 DEF StatusInv, RequestInOrder, WorkIsDone, WritesItsOwn, Exists, RowsOf
  <2>4. ConfirmationsAreRecorded' /\ HsIsPaidByV2Only'
    BY <2>1 DEF StatusInv, ConfirmationsAreRecorded, WrittenFor, RowsOf, HsIsPaidByV2Only
  <2> QED BY <1>1, <2>2, <2>3, <2>4 DEF StatusInv
<1> QED BY <1>2, <1>3, <1>4, <1>5 DEF Next

THEOREM StatusInvariance == Spec => []StatusInv
BY InitStatusInv, NextKeepsStatusInv, PTL DEF Spec

(***************************************************************************)
(* ConfirmationsAreRecorded for every instance: a 200 is durable, and no   *)
(* order is ever confirmed in part.                                        *)
(***************************************************************************)
THEOREM ConfirmationsRecorded == Spec => []ConfirmationsAreRecorded
<1>1. StatusInv => ConfirmationsAreRecorded
  BY DEF StatusInv
<1> QED BY <1>1, StatusInvariance, PTL

(***************************************************************************)
(* HsIsPaidByV2Only for every instance: the direct confirmation of a home  *)
(* shopping line never succeeds.                                           *)
(***************************************************************************)
THEOREM HsPaidByV2 == Spec => []HsIsPaidByV2Only
<1>1. StatusInv => HsIsPaidByV2Only
  BY DEF StatusInv
<1> QED BY <1>1, StatusInvariance, PTL
-----------------------------------------------------------------------------
(* The order of the rows *)

NotAfter(x, y) == x.at < y.at \/ (x.at = y.at /\ x.id <= y.id)

\* Written at a later or the same second, and later.
Earlier(x, y) == x.at <= y.at /\ x.id < y.id

Receipt(x) == x.code = "ORDER_RECEIVED"
Payment(x) == x.code = "PAYMENT_COMPLETED"

HasTop(l) ==
    \E top \in RowsOf(rows, l) : \A y \in RowsOf(rows, l) : NotAfter(y, top)

Stamped(S) == \A x \in S : x.at <= clock /\ x.id <= lastId[x.line]

\* A request that commits has at most one row for each line, for work done.
OneRowEach(r) ==
    /\ \A x, y \in pending[r] : x.line = y.line => x = y
    /\ \A x \in pending[r] : <<x.line, x.code>> \notin todo[r]

PaymentsFollow(S) ==
    \A y \in S : Payment(y) =>
        \A x \in RowsOf(rows, y.line) : Receipt(x) => Earlier(x, y)

\* The request that made a home shopping line has done its work.
Created(l) ==
    \E r \in Requests : Kind[r] = "create_hs" /\ Target[r] = l /\ pc[r] = "done"

RowsInOrder ==
    /\ Stamped(rows) /\ \A r \in Requests : Stamped(pending[r])
    /\ \A l \in Lines : Exists(l) => HasTop(l)
    /\ PaymentsFollow(rows)
    /\ \A r \in Requests : Kind[r] \in Committing =>
         OneRowEach(r) /\ PaymentsFollow(pending[r])
    /\ \A l \in HsLines : Exists(l) => Created(l)

LEMMA InitRowsInOrder == Init => RowsInOrder
<1> SUFFICES ASSUME Init PROVE RowsInOrder
  OBVIOUS
<1> DEFINE first(l) ==
      [line |-> l, code |-> "ORDER_RECEIVED", at |-> 0, id |-> 1, by |-> Outside]
<1>1. rows = {first(l) : l \in Lines \ HsLines} /\ \A r \in Requests : pending[r] = {}
  BY DEF Init
<1>2. \A l \in Lines : /\ first(l).line = l /\ first(l).code = "ORDER_RECEIVED"
                       /\ first(l).at = 0 /\ first(l).id = 1
  OBVIOUS
<1>3. clock \in Nat /\ \A l \in Lines \ HsLines : lastId[l] = 1
  BY StatusParameters DEF Init
<1> HIDE DEF first
<1>4. Stamped(rows) /\ \A r \in Requests : Stamped(pending[r])
  BY <1>1, <1>2, <1>3 DEF Stamped
<1>5. \A l \in Lines : Exists(l) => HasTop(l)
  BY <1>1, <1>2 DEF Exists, HasTop, NotAfter, RowsOf
<1>6. PaymentsFollow(rows) /\ \A r \in Requests : OneRowEach(r) /\ PaymentsFollow(pending[r])
  BY <1>1, <1>2 DEF PaymentsFollow, OneRowEach, Payment
<1>7. \A l \in HsLines : ~ Exists(l)
  BY <1>1, <1>2 DEF Exists, RowsOf
<1> QED BY <1>4, <1>5, <1>6, <1>7 DEF RowsInOrder

\* What a request may do in a step that writes nothing.
Idles(r) ==
    /\ \/ pending'[r] = {}
       \/ pending'[r] = pending[r] /\ todo'[r] \subseteq todo[r]
       \/ pending'[r] = pending[r] /\ Kind[r] \notin Committing
    /\ pc[r] = "done" => pc'[r] = "done"

LEMMA EndIdles ==
    ASSUME TypeOK, NEW r \in Requests, NEW reply, End(r, reply), NEW q \in Requests
    PROVE  Idles(q)
  BY DEF TypeOK, End, Idles

LEMMA BeginIdles ==
    ASSUME TypeOK, NEW r \in Requests, NEW state, NEW changes, Begin(r, state, changes),
           pc[r] = "unsent", pending[r] = {}, pending' = pending, NEW q \in Requests
    PROVE  Idles(q)
  BY DEF TypeOK, Begin, Idles

\* A step that writes nothing, whatever it does to the requests.
LEMMA NothingWritten ==
    ASSUME StatusInv, RowsInOrder, TypeOK', UNCHANGED <<rows, lastId>>, clock <= clock',
           \A r \in Requests : Idles(r)
    PROVE  RowsInOrder'
<1>1. Stamped(rows)' /\ \A r \in Requests : Stamped(pending[r])'
  <2>1. clock \in Int /\ clock' \in Int
    BY DEF StatusInv, TypeOK
  <2>2. /\ \A x \in rows : x.at \in Int
        /\ \A r \in Requests : \A x \in pending[r] : x.at \in Int
    BY DEF StatusInv, TypeOK, Row
  <2> QED BY <2>1, <2>2 DEF RowsInOrder, Stamped, Idles
<1>2. (\A l \in Lines : Exists(l) => HasTop(l))' /\ PaymentsFollow(rows)'
  BY DEF RowsInOrder, Exists, HasTop, PaymentsFollow, RowsOf
<1>3. ASSUME NEW r \in Requests, Kind[r] \in Committing
      PROVE  OneRowEach(r)' /\ PaymentsFollow(pending[r])'
  BY <1>3 DEF RowsInOrder, OneRowEach, PaymentsFollow, RowsOf, Idles
<1>4. (\A l \in HsLines : Exists(l) => Created(l))'
  BY DEF RowsInOrder, Exists, RowsOf, Created, Idles
<1> QED BY <1>1, <1>2, <1>3, <1>4 DEF RowsInOrder

LEMMA UpdateStatusInOrder ==
    ASSUME StatusInv, RowsInOrder, TypeOK', NEW r \in Requests, UpdateStatus(r)
    PROVE  RowsInOrder'
<1> PICK change \in todo[r] :
      /\ pending' = [pending EXCEPT ![r] = @ \cup {NewRow(change[1], change[2], r)}]
      /\ lastId' = [lastId EXCEPT ![change[1]] = @ + 1]
      /\ todo' = [todo EXCEPT ![r] = @ \ {change}]
  BY DEF UpdateStatus
<1> DEFINE l == change[1]
           new == NewRow(l, change[2], r)
<1>1. /\ UNCHANGED <<rows, pc, clock>>
      /\ pending'[r] = pending[r] \cup {new} /\ todo'[r] = todo[r] \ {change}
      /\ \A q \in Requests \ {r} : pending'[q] = pending[q] /\ todo'[q] = todo[q]
  BY DEF UpdateStatus, StatusInv, TypeOK
<1>2. change \in Lines \X Codes /\ l \in Lines /\ change = <<l, change[2]>>
  BY DEF StatusInv, TypeOK
<1>3. /\ lastId[l] \in Nat /\ lastId'[l] = lastId[l] + 1
      /\ \A k \in Lines \ {l} : lastId'[k] = lastId[k]
      /\ clock \in Nat /\ \A k \in Lines : lastId[k] \in Nat
  BY <1>2 DEF StatusInv, TypeOK
<1>4. /\ new.line = l /\ new.code = change[2] /\ new.id = lastId[l] + 1
      /\ new.at \in Int /\ new.at <= clock /\ (Payment(new) => new.at = clock)
  BY <1>3, StatusParameters DEF NewRow, Stamp, Payment
<1>5. /\ \A x \in rows : x.at \in Int /\ x.id \in Nat /\ x.line \in Lines
      /\ \A q \in Requests : \A x \in pending[q] :
           x.at \in Int /\ x.id \in Nat /\ x.line \in Lines
  BY DEF StatusInv, TypeOK, Row
<1> HIDE DEF new, l
<1>6. Stamped(rows)' /\ \A q \in Requests : Stamped(pending[q])'
  <2>1. \A k \in Lines : \A n \in Nat : n <= lastId[k] => n <= lastId'[k]
    BY <1>3
  <2>2. Stamped(rows)'
    BY <1>1, <1>5, <2>1 DEF RowsInOrder, Stamped
  <2>3. ASSUME NEW q \in Requests PROVE Stamped(pending[q])'
    <3>1. \A x \in pending[q] : x.at <= clock' /\ x.id <= lastId'[x.line]
      BY <1>1, <1>5, <2>1 DEF RowsInOrder, Stamped
    <3>2. new.at <= clock' /\ new.id <= lastId'[new.line]
      BY <1>1, <1>3, <1>4
    <3> QED BY <1>1, <3>1, <3>2 DEF Stamped
  <2> QED BY <2>2, <2>3
<1>7. (\A k \in Lines : Exists(k) => HasTop(k))' /\ PaymentsFollow(rows)'
  BY <1>1 DEF RowsInOrder, Exists, HasTop, PaymentsFollow, RowsOf
<1>8. ASSUME NEW q \in Requests, Kind[q] \in Committing
      PROVE  OneRowEach(q)' /\ PaymentsFollow(pending[q])'
  <2>1. CASE q # r
    BY <1>1, <1>8, <2>1 DEF RowsInOrder, OneRowEach, PaymentsFollow, RowsOf
  <2>2. CASE q = r
    <3>1. pc[r] = "writing"
      BY <1>8, <2>2 DEF UpdateStatus, StatusInv, RequestInOrder, Committing
    <3>2. change[2] = WorkCode(r) /\ \A x \in pending[r] : x.code = WorkCode(r)
      BY <1>8, <2>2, <3>1 DEF StatusInv, RequestInOrder, WorkIsDone
    <3>3. \A x \in pending[r] : x.line # l
      BY <1>2, <1>8, <2>2, <3>2 DEF RowsInOrder, OneRowEach
    <3>4. OneRowEach(r)'
      BY <1>1, <1>2, <1>4, <1>8, <2>2, <3>2, <3>3 DEF RowsInOrder, OneRowEach
    <3>5. Payment(new) => \A x \in RowsOf(rows, l) : Earlier(x, new)
      BY <1>3, <1>4, <1>5 DEF RowsInOrder, Stamped, Earlier, RowsOf
    <3>6. PaymentsFollow(pending[r])'
      BY <1>1, <1>4, <1>8, <2>2, <3>5 DEF RowsInOrder, PaymentsFollow, RowsOf
    <3> QED BY <2>2, <3>4, <3>6
  <2> QED BY <2>1, <2>2
<1>9. (\A k \in HsLines : Exists(k) => Created(k))'
  BY <1>1 DEF RowsInOrder, Exists, RowsOf, Created
<1> QED BY <1>6, <1>7, <1>8, <1>9 DEF RowsInOrder

(***************************************************************************)
(* A commit or a settlement: rows of one request reach the tables, at most *)
(* one for each line, and none is older than a receipt or leaves a payment *)
(* before a receipt.                                                       *)
(***************************************************************************)
LEMMA AddedInOrder ==
    ASSUME StatusInv, RowsInOrder, TypeOK', NEW r \in Requests, NEW added \in SUBSET Row,
           rows' = rows \cup added, clock' = clock,
           \A l \in Lines : lastId[l] <= lastId'[l],
           pc'[r] = "done", pending'[r] = {},
           \A q \in Requests \ {r} :
               pc'[q] = pc[q] /\ pending'[q] = pending[q] /\ todo'[q] = todo[q],
           \A x \in added : x.at <= clock' /\ x.id <= lastId'[x.line],
           \A x, y \in added : x.line = y.line => x = y,
           \A x \in added : Receipt(x) =>
               x.line \in HsLines /\ ~ Exists(x.line) /\ Kind[r] = "create_hs",
           \A x \in added : x.line \in HsLines => Exists(x.line) \/ Created(x.line)',
           PaymentsFollow(added)
    PROVE  RowsInOrder'
<1>1. /\ \A x \in rows \cup added : x.at \in Int /\ x.id \in Nat /\ x.line \in Lines
      /\ \A q \in Requests : \A x \in pending[q] : x.at \in Int /\ x.id \in Nat /\ x.line \in Lines
      /\ \A l \in Lines : lastId[l] \in Nat /\ lastId'[l] \in Nat
  BY DEF StatusInv, TypeOK, Row
<1>2. Stamped(rows)' /\ \A q \in Requests : Stamped(pending[q])'
  <2>1. \A l \in Lines : \A n \in Nat : n <= lastId[l] => n <= lastId'[l]
    BY <1>1
  <2>2. \A x \in rows : x.at <= clock' /\ x.id <= lastId'[x.line]
    BY <1>1, <2>1 DEF RowsInOrder, Stamped
  <2>3. Stamped(rows)'
    BY <2>2 DEF Stamped
  <2>4. ASSUME NEW q \in Requests PROVE Stamped(pending[q])'
    <3>1. \A x \in pending[q] : x.at <= clock' /\ x.id <= lastId'[x.line]
      BY <1>1, <2>1 DEF RowsInOrder, Stamped
    <3>2. pending'[q] = {} \/ pending'[q] = pending[q]
      OBVIOUS
    <3> QED BY <3>1, <3>2 DEF Stamped
  <2> QED BY <2>3, <2>4
<1>3. ASSUME NEW l \in Lines, Exists(l)' PROVE HasTop(l)'
  <2>1. CASE \A x \in added : x.line # l
    <3>1. RowsOf(rows, l)' = RowsOf(rows, l)
      BY <2>1 DEF RowsOf
    <3> QED BY <1>3, <3>1 DEF RowsInOrder, Exists, HasTop
  <2>2. CASE \E x \in added : x.line = l
    <3> PICK x \in added : x.line = l
      BY <2>2
    <3>1. RowsOf(rows, l)' = RowsOf(rows, l) \cup {x}
      BY DEF RowsOf
    <3>2. x.at \in Int /\ x.id \in Int
      BY <1>1
    <3>3. CASE ~ Exists(l)
      <4>1. RowsOf(rows, l)' = {x}
        BY <3>1, <3>3 DEF Exists
      <4>2. NotAfter(x, x)
        BY <3>2 DEF NotAfter
      <4> QED BY <4>1, <4>2 DEF HasTop
    <3>4. CASE Exists(l)
      <4> PICK top \in RowsOf(rows, l) : \A y \in RowsOf(rows, l) : NotAfter(y, top)
        BY <3>4 DEF RowsInOrder, HasTop
      <4>1. /\ top.at \in Int /\ top.id \in Int
            /\ \A y \in RowsOf(rows, l) : y.at \in Int /\ y.id \in Int
        BY <1>1 DEF RowsOf
      <4>2. CASE NotAfter(x, top)
        BY <3>1, <4>2 DEF HasTop
      <4>3. CASE ~ NotAfter(x, top)
        <5>1. \A y \in RowsOf(rows, l) \cup {x} : NotAfter(y, x)
          BY <3>2, <4>1, <4>3 DEF NotAfter
        <5> QED BY <3>1, <5>1 DEF HasTop
      <4> QED BY <4>2, <4>3
    <3> QED BY <3>3, <3>4
  <2> QED BY <2>1, <2>2
<1>4. ASSUME NEW S, PaymentsFollow(S),
             \A y \in S : Payment(y) => y.line \notin HsLines \/ Exists(y.line)
      PROVE  PaymentsFollow(S)'
  <2> SUFFICES ASSUME NEW y \in S, Payment(y), NEW x \in RowsOf(rows, y.line)', Receipt(x)
               PROVE  Earlier(x, y)
    BY DEF PaymentsFollow
  <2>1. x \notin added
    BY <1>4 DEF RowsOf
  <2>2. x \in RowsOf(rows, y.line)
    BY <2>1 DEF RowsOf
  <2> QED BY <1>4, <2>2 DEF PaymentsFollow
<1>5. PaymentsFollow(rows)'
  <2>1. \A y \in rows : Payment(y) => Exists(y.line)
    BY DEF Exists, RowsOf
  <2>2. PaymentsFollow(rows)
    BY DEF RowsInOrder
  <2>3. \A y \in rows : Payment(y) =>
            \A x \in RowsOf(rows', y.line) : Receipt(x) => Earlier(x, y)
    BY <1>4, <2>1, <2>2 DEF PaymentsFollow, RowsOf
  <2>4. \A y \in added : Payment(y) =>
            \A x \in RowsOf(rows', y.line) : Receipt(x) => Earlier(x, y)
    <3> SUFFICES ASSUME NEW y \in added, Payment(y), NEW x \in RowsOf(rows', y.line), Receipt(x)
                 PROVE  Earlier(x, y)
      OBVIOUS
    <3>1. x \notin added
      BY DEF RowsOf, Payment, Receipt
    <3> QED BY <3>1 DEF PaymentsFollow, RowsOf
  <2> QED BY <2>3, <2>4 DEF PaymentsFollow
<1>6. ASSUME NEW q \in Requests, Kind[q] \in Committing
      PROVE  OneRowEach(q)' /\ PaymentsFollow(pending[q])'
  <2>1. CASE q = r
    BY <2>1 DEF OneRowEach, PaymentsFollow
  <2>2. CASE q # r
    <3>1. \A y \in pending[q] : Payment(y) => y.line \notin HsLines
      BY <1>6
      DEF StatusInv, TypeOK, States, RequestInOrder, WorkIsDone, WritesItsOwn, Committing,
          WorkCode, Payment
    <3>2. PaymentsFollow(pending[q])'
      BY <1>4, <1>6, <2>2, <3>1 DEF RowsInOrder, PaymentsFollow
    <3>3. OneRowEach(q)'
      BY <1>6, <2>2 DEF RowsInOrder, OneRowEach
    <3> QED BY <3>2, <3>3
  <2> QED BY <2>1, <2>2
<1>7. ASSUME NEW l \in HsLines, Exists(l)' PROVE Created(l)'
  <2>1. CASE Exists(l)
    BY <2>1 DEF RowsInOrder, Created
  <2>2. CASE ~ Exists(l)
    <3> PICK x \in added : x.line = l
      BY <1>7, <2>2 DEF Exists, RowsOf
    <3> QED BY <2>2
  <2> QED BY <2>1, <2>2
<1> QED BY <1>2, <1>3, <1>5, <1>6, <1>7 DEF RowsInOrder

LEMMA CommitInOrder ==
    ASSUME StatusInv, RowsInOrder, TypeOK', NEW r \in Requests, Commit(r)
    PROVE  RowsInOrder'
<1>1. /\ Kind[r] \in Committing /\ WritesItsOwn(r) /\ WorkIsDone(r) /\ pc[r] = "writing"
      /\ \A x \in pending[r] : x.by = r /\ x.line \in Confirmed(r) /\ x.code = WorkCode(r)
  BY CommitAdds DEF Commit, Written
<1>2. /\ rows' = rows \cup pending[r] /\ UNCHANGED <<lastId, clock>>
      /\ pc'[r] = "done" /\ pending'[r] = {}
      /\ \A q \in Requests \ {r} :
           pc'[q] = pc[q] /\ pending'[q] = pending[q] /\ todo'[q] = todo[q]
  BY DEF Commit, End, StatusInv, TypeOK
<1>3. pending[r] \in SUBSET Row /\ \A l \in Lines : lastId[l] <= lastId'[l]
  BY <1>2 DEF StatusInv, TypeOK
<1>4. Stamped(pending[r])
  BY DEF RowsInOrder
<1>5. \A x \in pending[r] : x.at <= clock' /\ x.id <= lastId'[x.line]
  BY <1>2, <1>4 DEF Stamped
<1>6. (\A x, y \in pending[r] : x.line = y.line => x = y) /\ PaymentsFollow(pending[r])
  BY <1>1 DEF RowsInOrder, OneRowEach
<1>7. ASSUME NEW x \in pending[r], Receipt(x)
      PROVE  /\ x.line \in HsLines /\ ~ Exists(x.line) /\ Kind[r] = "create_hs"
             /\ x.line = Target[r]
  <2>1. Kind[r] = "create_hs" /\ x.line = Target[r] /\ Target[r] \in HsLines
    BY <1>1, <1>7 DEF Receipt, WorkCode, WritesItsOwn, Confirmed
  <2>2. ~ Created(Target[r])
    BY <1>1, <2>1, CreatedOnce DEF Created
  <2> QED BY <2>1, <2>2 DEF RowsInOrder
<1>8. \A x \in pending[r] : x.line \in HsLines => Created(x.line)'
  <2>1. ASSUME NEW x \in pending[r], x.line \in HsLines PROVE Created(x.line)'
    <3>1. Kind[r] = "create_hs" /\ x.line = Target[r]
      BY <1>1, <2>1 DEF WritesItsOwn, Confirmed
    <3> QED BY <1>2, <3>1 DEF Created
  <2> QED BY <2>1
<1>9. \A x \in pending[r] : x.line \in HsLines => Exists(x.line) \/ Created(x.line)'
  BY <1>8
<1> DEFINE added == pending[r]
<1>10. /\ added \in SUBSET Row /\ rows' = rows \cup added
       /\ \A x \in added : x.at <= clock' /\ x.id <= lastId'[x.line]
       /\ \A x, y \in added : x.line = y.line => x = y
       /\ \A x \in added : Receipt(x) =>
            x.line \in HsLines /\ ~ Exists(x.line) /\ Kind[r] = "create_hs"
       /\ \A x \in added : x.line \in HsLines => Exists(x.line) \/ Created(x.line)'
       /\ PaymentsFollow(added)
  BY <1>2, <1>3, <1>5, <1>6, <1>7, <1>9
<1> HIDE DEF added
<1> QED BY <1>2, <1>3, <1>10, AddedInOrder

LEMMA SettleV2InOrder ==
    ASSUME StatusInv, RowsInOrder, TypeOK', NEW r \in Requests, SettleV2(r)
    PROVE  RowsInOrder'
<1> PICK code \in {"PAYMENT_COMPLETED", "CANCELLED"}, reached \in SUBSET Siblings(r) :
      Settles(r, code, reached)
  BY Settlement
<1> DEFINE new(l) == NewRow(l, code, r)
           added == {new(l) : l \in reached}
<1>1. /\ clock' = clock /\ pc'[r] = "done" /\ pending'[r] = {}
      /\ \A q \in Requests \ {r} :
           pc'[q] = pc[q] /\ pending'[q] = pending[q] /\ todo'[q] = todo[q]
  BY Settlement DEF End, StatusInv, TypeOK
<1>2. \A l \in reached : l \in Lines /\ Exists(l)
  BY Settlement
<1>3. /\ \A l \in Lines : lastId[l] \in Nat /\ lastId[l] <= lastId'[l]
      /\ \A l \in reached : lastId'[l] = lastId[l] + 1
      /\ clock \in Nat
  BY <1>2 DEF Settles, StatusInv, TypeOK
<1>4. ASSUME NEW l \in reached
      PROVE  /\ new(l).line = l /\ new(l).code = code /\ new(l).id = lastId[l] + 1
             /\ new(l).at \in Int /\ new(l).at <= clock
             /\ code = "PAYMENT_COMPLETED" => new(l).at = clock
             /\ new(l) \in Row
  <2>1. new(l) \in Row
    BY <1>2, NewRowTypes DEF StatusInv, Codes
  <2> QED BY <1>2, <1>3, <2>1, StatusParameters DEF NewRow, Stamp
<1>5. \A x \in rows : x.at \in Int /\ x.id \in Nat /\ x.at <= clock /\ x.id <= lastId[x.line]
  BY DEF StatusInv, TypeOK, Row, RowsInOrder, Stamped
<1> HIDE DEF new
<1>6. added \in SUBSET Row
  BY <1>4
<1>7. \A x \in added : x.at <= clock' /\ x.id <= lastId'[x.line]
  <2> SUFFICES ASSUME NEW l \in reached
               PROVE  new(l).at <= clock' /\ new(l).id <= lastId'[new(l).line]
    OBVIOUS
  <2>1. new(l).line = l /\ new(l).id = lastId'[l] /\ lastId'[l] \in Int
    BY <1>2, <1>3, <1>4
  <2> QED BY <1>1, <1>4, <2>1
<1>8. \A x, y \in added : x.line = y.line => x = y
  BY <1>4
<1>9. \A x \in added : ~ Receipt(x) /\ Exists(x.line)
  BY <1>2, <1>4 DEF Receipt
<1>10. PaymentsFollow(added)
  <2> SUFFICES ASSUME NEW l \in reached, Payment(new(l)), NEW x \in RowsOf(rows, l)
               PROVE  Earlier(x, new(l))
    BY <1>4 DEF PaymentsFollow
  <2>1. x \in rows /\ x.line = l /\ new(l).at = clock
    BY <1>4 DEF RowsOf, Payment
  <2> QED BY <1>2, <1>3, <1>4, <1>5, <2>1 DEF Earlier
<1>11. rows' = rows \cup added
  BY DEF new, Settles
<1> HIDE DEF added
<1> QED BY <1>1, <1>3, <1>6, <1>7, <1>8, <1>9, <1>10, <1>11, AddedInOrder

LEMMA NextKeepsRowsInOrder == StatusInv /\ RowsInOrder /\ [Next]_vars => RowsInOrder'
<1> SUFFICES ASSUME StatusInv, RowsInOrder, [Next]_vars PROVE RowsInOrder'
  OBVIOUS
<1>1. TypeOK'
  BY NextTypes DEF StatusInv
<1> TypeOK
  BY DEF StatusInv
<1>0. clock' = clock => clock <= clock'
  BY DEF TypeOK
<1>2. CASE \E r \in Requests : UpdateStatus(r) \/ Commit(r) \/ SettleV2(r)
  BY <1>1, <1>2, UpdateStatusInOrder, CommitInOrder, SettleV2InOrder
<1>3. ASSUME NEW r \in Requests,
             \/ Confirming(r) \/ StartAutoKok(r) \/ StartAutoHs(r)
             \/ StartV1(r) \/ OpenV2(r) \/ OpenList(r)
      PROVE  RowsInOrder'
  <2>1. CASE ConfirmHs(r)
    <3>1. End(r, "error") /\ UNCHANGED <<rows, lastId, clock>>
      BY <2>1, NeverRequested DEF ConfirmHs
    <3> QED BY <1>1, <1>0, <3>1, EndIdles, NothingWritten
  <2>2. CASE ~ ConfirmHs(r)
    <3>1. PICK state, changes : Begin(r, state, changes)
      BY <1>3, <2>2
      DEF Confirming, ConfirmLine, ConfirmOrder, CreateHs, StartAutoKok, StartAutoHs, StartV1,
          OpenV2, OpenList
    <3>2. UNCHANGED <<rows, pending, lastId, clock>> /\ pc[r] = "unsent"
      BY <1>3, <2>2
      DEF Confirming, ConfirmLine, ConfirmOrder, CreateHs, StartAutoKok, StartAutoHs, StartV1,
          OpenV2, OpenList, Arrives
    <3>3. pending[r] = {}
      BY <3>2 DEF StatusInv, RequestInOrder
    <3> QED BY <1>1, <1>0, <3>1, <3>2, <3>3, BeginIdles, NothingWritten
  <2> QED BY <2>1, <2>2
<1>4. ASSUME NEW r \in Requests,
             \/ PatchStatus(r) \/ FinishAuto(r) \/ CancelV1(r) \/ FinishV1(r) \/ Fail(r)
             \/ ReadKokStatus(r) \/ ReadHsStatus(r)
      PROVE  RowsInOrder'
  <2>1. (\E reply : End(r, reply)) /\ UNCHANGED <<rows, lastId, clock>>
    BY <1>4 DEF PatchStatus, FinishAuto, CancelV1, FinishV1, Fail, ReadKokStatus, ReadHsStatus,
                ShowStatus
  <2> QED BY <1>1, <1>0, <2>1, EndIdles, NothingWritten
<1>5. ASSUME NEW r \in Requests,
             \/ SkipMarking(r) \/ PollPending(r) \/ PollCompleted(r) \/ PaymentServer(r)
             \/ ReadDelivery(r) \/ FinishList(r)
      PROVE  RowsInOrder'
  <2>1. UNCHANGED <<rows, lastId, clock, pending>>
    BY <1>5 DEF SkipMarking, PollPending, PollCompleted, PaymentServer, ReadDelivery, FinishList
  <2>2. pc[r] = "requesting" => Kind[r] = "v1"
    BY DEF StatusInv, RequestInOrder
  <2>3. ASSUME NEW q \in Requests PROVE Idles(q)
    BY <1>5, <2>1, <2>2
    DEF SkipMarking, PollPending, PollCompleted, PaymentServer, ReadDelivery, FinishList,
        Polls, TypeOK, Committing, Idles
  <2> QED BY <1>1, <1>0, <2>1, <2>3, NothingWritten
<1>6. CASE Tick \/ UNCHANGED vars
  <2>1. UNCHANGED <<rows, lastId, pending, todo, pc>> /\ clock <= clock'
    BY <1>6 DEF Tick, vars, TypeOK
  <2>2. \A r \in Requests : Idles(r)
    BY <2>1 DEF Idles
  <2> QED BY <1>1, <2>1, <2>2, NothingWritten
<1> QED BY <1>2, <1>3, <1>4, <1>5, <1>6
        DEF Next, RequestStep, Confirming, AutoStep, V1Step, V2Step, ReadStep

(***************************************************************************)
(* PaidIsCurrent for every instance: of a line that was paid and never     *)
(* cancelled, the rows have a last one, and it is a payment, since nothing *)
(* is received in or after the second and the place of the first payment.  *)
(***************************************************************************)
THEOREM PaidShowsAsPaid == Spec => []PaidIsCurrent
<1>1. StatusInv /\ RowsInOrder => PaidIsCurrent
  <2> SUFFICES ASSUME StatusInv, RowsInOrder, NEW l \in Lines,
                      HasCode(l, "PAYMENT_COMPLETED"), ~ HasCode(l, "CANCELLED")
               PROVE  CodesOf(CurrentRows(rows, l)) = {"PAYMENT_COMPLETED"}
    BY DEF PaidIsCurrent
  <2>1. \A x \in RowsOf(rows, l) :
          x \in rows /\ x.line = l /\ x.at \in Int /\ x.id \in Int /\ (Payment(x) \/ Receipt(x))
    BY DEF StatusInv, TypeOK, Row, ReceivedFirst, RowsOf, HasCode, Payment, Receipt
  <2> PICK top \in RowsOf(rows, l) : \A y \in RowsOf(rows, l) : NotAfter(y, top)
    BY DEF RowsInOrder, HasTop, HasCode, Exists
  <2>2. top \in CurrentRows(rows, l)
    BY <2>1 DEF CurrentRows, LatestRows, NotAfter
  <2> PICK paid \in RowsOf(rows, l) : Payment(paid)
    BY DEF HasCode, Payment
  <2>3. ASSUME NEW x \in CurrentRows(rows, l) PROVE x.code = "PAYMENT_COMPLETED"
    <3>1. x \in RowsOf(rows, l) /\ paid.at <= x.at
      BY DEF CurrentRows, LatestRows
    <3>2. CASE Receipt(x)
      <4>1. Earlier(x, paid)
        BY <2>1, <3>1, <3>2 DEF RowsInOrder, PaymentsFollow
      <4>2. paid \in LatestRows(rows, l)
        BY <2>1, <3>1, <4>1 DEF CurrentRows, LatestRows, Earlier
      <4>3. paid.id <= x.id
        BY <4>2 DEF CurrentRows
      <4> QED BY <2>1, <3>1, <4>1, <4>3 DEF Earlier
    <3> QED BY <2>1, <3>1, <3>2 DEF Payment
  <2> QED BY <2>2, <2>3 DEF CodesOf
<1>2. Spec => []RowsInOrder
  BY InitRowsInOrder, NextKeepsRowsInOrder, StatusInvariance, PTL DEF Spec
<1> QED BY <1>1, <1>2, StatusInvariance, PTL
-----------------------------------------------------------------------------
(* What the reads of one session see *)

HasTopIn(S, l) ==
    \E top \in RowsOf(S, l) : \A y \in RowsOf(S, l) : NotAfter(y, top)

\* Who settles an order as a whole has written each of its lines alike, and
\* cancels those that it reaches in one second.
SettledTogether(S) ==
    \A l, m \in Lines : OrderOf[l] = OrderOf[m] /\ {l, m} \cap HsLines = {} =>
        \A x \in RowsOf(S, l) :
            \/ Receipt(x)
            \/ x.by \in Requests /\ Kind[x.by] = "confirm_line"
            \/ x.code = "CANCELLED" /\ \A y \in RowsOf(S, m) : y.by # x.by
            \/ \E y \in RowsOf(S, m) :
                 y.code = x.code /\ y.by = x.by /\ (x.code = "CANCELLED" => y.at = x.at)

\* The kok lines were received together, before anything else happened.
ReceivedTogether(S) ==
    \A l \in Lines \ HsLines : \A x \in RowsOf(S, l) : Receipt(x) => x.at = 0

\* The rows of one moment.
Moment(S) ==
    /\ \A l \in Lines : RowsOf(S, l) # {} => HasTopIn(S, l)
    /\ \A l \in Lines \ HsLines : \E x \in RowsOf(S, l) : Receipt(x)
    /\ SettledTogether(S)
    /\ ReceivedTogether(S)

Shown(r, s) ==
    /\ s[1] \in Siblings(r)
    /\ RowsOf(snapshot[r], s[1]) # {}
    /\ s[2] \in CodesOf(LatestRows(snapshot[r], s[1])) \cup {"unread"}

ListInOrder(r) ==
    /\ pc[r] # "done" => \A x \in rows : x.by # r
    /\ snapshot[r] \subseteq rows
    /\ snapshot[r] # {} => Moment(snapshot[r])
    /\ pc[r] \in {"absent", "unsent"} => seen[r] = {} /\ answer[r] = "none"
    /\ pc[r] \in Open => answer[r] = "none"
    /\ Kind[r] = "list" /\ (pc[r] = "reading" \/ answer[r] = "ok") =>
         \A s \in seen[r] : Shown(r, s)

ListInv ==
    /\ SettledTogether(rows)
    /\ ReceivedTogether(rows)
    /\ \A r \in Requests : ListInOrder(r)

LEMMA InitListInv == Init => ListInv
<1> SUFFICES ASSUME Init PROVE ListInv
  OBVIOUS
<1> DEFINE first(l) ==
      [line |-> l, code |-> "ORDER_RECEIVED", at |-> 0, id |-> 1, by |-> Outside]
<1>1. rows = {first(l) : l \in Lines \ HsLines}
  BY DEF Init
<1>2. \A l \in Lines : /\ first(l).line = l /\ first(l).code = "ORDER_RECEIVED"
                       /\ first(l).at = 0 /\ first(l).by = Outside
  OBVIOUS
<1> HIDE DEF first
<1>3. \A x \in rows : Receipt(x) /\ x.at = 0 /\ x.by \notin Requests
  BY <1>1, <1>2, StatusParameters DEF Receipt
<1>4. SettledTogether(rows) /\ ReceivedTogether(rows)
  BY <1>3 DEF SettledTogether, ReceivedTogether, RowsOf
<1>5. \A r \in Requests : /\ snapshot[r] = {} /\ pc[r] \in {"absent", "unsent"}
                          /\ seen[r] = {} /\ answer[r] = "none"
  BY DEF Init
<1>6. \A r \in Requests : ListInOrder(r)
  BY <1>3, <1>5 DEF ListInOrder
<1> QED BY <1>4, <1>6 DEF ListInv

LEMMA RowsAreAMoment == StatusInv /\ RowsInOrder /\ ListInv => Moment(rows)
<1> SUFFICES ASSUME StatusInv, RowsInOrder, ListInv PROVE Moment(rows)
  OBVIOUS
<1>1. \A l \in Lines : RowsOf(rows, l) # {} => HasTopIn(rows, l)
  BY DEF RowsInOrder, Exists, HasTop, HasTopIn
<1>2. \A l \in Lines \ HsLines : \E x \in RowsOf(rows, l) : Receipt(x)
  BY DEF StatusInv, ReceivedFirst, HasCode, Receipt
<1> QED BY <1>1, <1>2 DEF ListInv, Moment

LEMMA SettledUnion ==
    ASSUME NEW S, NEW T, SettledTogether(S), SettledTogether(T),
           \A x \in S, y \in T : x.by # y.by
    PROVE  SettledTogether(S \cup T)
BY DEF SettledTogether, RowsOf

\* A step in which only one request moves, and the tables at most grow.
LEMMA ListMoves ==
    ASSUME ListInv, NEW r \in Requests, rows \subseteq rows', \A x \in rows' \ rows : x.by = r,
           SettledTogether(rows'), ReceivedTogether(rows'),
           \A q \in Requests \ {r} :
               /\ pc'[q] = pc[q] /\ snapshot'[q] = snapshot[q]
               /\ seen'[q] = seen[q] /\ answer'[q] = answer[q],
           ListInOrder(r)'
    PROVE  ListInv'
<1>1. \A q \in Requests \ {r} : ListInOrder(q)'
  BY DEF ListInv, ListInOrder, Shown
<1> QED BY <1>1 DEF ListInv, SettledTogether, ReceivedTogether

LEMMA EndLists ==
    ASSUME StatusInv, ListInv, NEW r \in Requests, NEW reply, End(r, reply),
           rows \subseteq rows', \A x \in rows' \ rows : x.by = r,
           SettledTogether(rows'), ReceivedTogether(rows'),
           \A q \in Requests \ {r} : seen'[q] = seen[q],
           Kind[r] = "list" => reply # "ok"
    PROVE  ListInv'
<1>1. /\ pc'[r] = "done" /\ answer'[r] = reply /\ snapshot'[r] = {}
      /\ \A q \in Requests \ {r} :
           pc'[q] = pc[q] /\ snapshot'[q] = snapshot[q] /\ answer'[q] = answer[q]
  BY DEF End, StatusInv, TypeOK
<1>2. ListInOrder(r)'
  BY <1>1 DEF ListInOrder
<1> QED BY <1>1, <1>2, ListMoves

LEMMA BeginLists ==
    ASSUME StatusInv, RowsInOrder, ListInv, NEW r \in Requests, NEW state \in Open,
           NEW changes, pc[r] = "unsent", Begin(r, state, changes), UNCHANGED <<rows, seen, answer>>
    PROVE  ListInv'
<1>1. /\ pc'[r] = state /\ snapshot'[r] = rows /\ seen'[r] = {} /\ answer'[r] = "none"
      /\ \A q \in Requests \ {r} : pc'[q] = pc[q] /\ snapshot'[q] = snapshot[q]
  BY DEF Begin, StatusInv, TypeOK, ListInv, ListInOrder
<1>2. Moment(rows)
  BY RowsAreAMoment
<1>3. Moment(snapshot[r])'
  BY <1>1, <1>2 DEF Moment, SettledTogether, ReceivedTogether
<1>4. ListInOrder(r)'
  <2>1. \A x \in rows : x.by # r
    BY DEF ListInv, ListInOrder
  <2> QED BY <1>1, <1>3, <2>1 DEF ListInOrder
<1>5. SettledTogether(rows') /\ ReceivedTogether(rows')
  BY DEF ListInv
<1> QED BY <1>1, <1>4, <1>5, ListMoves

\* A step that opens and closes no session.
LEMMA StayLists ==
    ASSUME StatusInv, ListInv, NEW r \in Requests, UNCHANGED <<rows, snapshot, seen, answer>>,
           \A q \in Requests \ {r} : pc'[q] = pc[q],
           \/ pc'[r] = pc[r]
           \/ pc[r] \in Open /\ pc'[r] \in Open /\ pc'[r] # "reading"
    PROVE  ListInv'
<1>1. ListInOrder(r)'
  BY DEF ListInv, ListInOrder, Shown, Moment, SettledTogether, ReceivedTogether
<1>2. SettledTogether(rows') /\ ReceivedTogether(rows')
  BY DEF ListInv
<1> QED BY <1>1, <1>2, ListMoves

\* A direct confirmation of an order commits the payment of every kok line of it.
LEMMA CommitLists ==
    ASSUME StatusInv, ListInv, NEW r \in Requests, Commit(r) PROVE ListInv'
<1>1. /\ Kind[r] \in Committing /\ WritesItsOwn(r) /\ WorkIsDone(r) /\ pc[r] = "writing"
      /\ \A x \in pending[r] : x.by = r /\ x.line \in Confirmed(r) /\ x.code = WorkCode(r)
      /\ todo[r] = {}
  BY CommitAdds DEF Commit, Written
<1>2. rows' = rows \cup pending[r] /\ UNCHANGED seen
  BY DEF Commit
<1>3. SettledTogether(pending[r])
  <2> SUFFICES ASSUME NEW l \in Lines, NEW m \in Lines, OrderOf[l] = OrderOf[m],
                      {l, m} \cap HsLines = {}, NEW x \in RowsOf(pending[r], l),
                      ~ Receipt(x), Kind[r] # "confirm_line"
               PROVE  \E y \in RowsOf(pending[r], m) :
                        y.code = x.code /\ y.by = x.by /\ (x.code = "CANCELLED" => y.at = x.at)
    BY <1>1 DEF SettledTogether, RowsOf
  <2>1. x.by = r /\ l \in Confirmed(r) /\ x.code = WorkCode(r)
    BY <1>1 DEF RowsOf
  <2>2. Kind[r] = "confirm_order"
    BY <1>1, <2>1 DEF Committing, WorkCode, Receipt, WritesItsOwn
  <2>3. m \in Confirmed(r)
    BY <2>1, <2>2 DEF Confirmed, Siblings, LinesOf
  <2> PICK y \in pending[r] : y.line = m
    BY <1>1, <2>3 DEF WorkIsDone
  <2> QED BY <1>1, <2>1, <2>2 DEF RowsOf, WorkCode
<1>4. ReceivedTogether(pending[r])
  <2> SUFFICES ASSUME NEW x \in pending[r], Receipt(x) PROVE x.line \in HsLines
    BY DEF ReceivedTogether, RowsOf
  <2> QED BY <1>1 DEF Receipt, WorkCode, WritesItsOwn, Confirmed
<1>5. SettledTogether(rows') /\ ReceivedTogether(rows')
  <2>1. \A x \in rows, y \in pending[r] : x.by # y.by
    BY <1>1 DEF ListInv, ListInOrder
  <2> QED BY <1>2, <1>3, <1>4, <2>1, SettledUnion DEF ListInv, ReceivedTogether, RowsOf
<1>6. Kind[r] # "list"
  BY <1>1 DEF Committing
<1>7. PICK reply \in {"ok", "error"} : End(r, reply)
  BY DEF Commit
<1>8. \A x \in rows' \ rows : x.by = r
  BY <1>1, <1>2
<1> QED BY <1>2, <1>5, <1>6, <1>7, <1>8, EndLists

\* Payment v2 settles in one second: every line of the order, or those it reaches.
LEMMA SettleV2Lists ==
    ASSUME StatusInv, ListInv, NEW r \in Requests, SettleV2(r) PROVE ListInv'
<1> PICK code \in {"PAYMENT_COMPLETED", "CANCELLED"}, reached \in SUBSET Siblings(r) :
      Settles(r, code, reached) /\ (code = "CANCELLED" \/ reached \in {{}, Siblings(r)})
  BY Settlement
<1> DEFINE new(l) == NewRow(l, code, r)
           added == {new(l) : l \in reached}
<1>1. \A l : /\ new(l).line = l /\ new(l).code = code /\ new(l).by = r
             /\ new(l).at = Stamp(code)
  BY DEF NewRow
<1>2. \A l, m \in Lines : OrderOf[l] = OrderOf[m] /\ l \in Siblings(r) => m \in Siblings(r)
  BY DEF Siblings, LinesOf
<1>3. /\ rows' = rows \cup added /\ End(r, "ok") /\ Kind[r] = "v2" /\ UNCHANGED seen
      /\ pc[r] = "waiting"
  BY Settlement DEF Settles
<1> HIDE DEF new
<1>4. SettledTogether(added)
  <2> SUFFICES ASSUME NEW l \in Lines, NEW m \in Lines, OrderOf[l] = OrderOf[m],
                      NEW x \in RowsOf(added, l)
               PROVE  \/ x.code = "CANCELLED" /\ \A y \in RowsOf(added, m) : y.by # x.by
                      \/ \E y \in RowsOf(added, m) :
                           y.code = x.code /\ y.by = x.by /\ (x.code = "CANCELLED" => y.at = x.at)
    BY DEF SettledTogether
  <2>1. l \in reached /\ x = new(l)
    BY <1>1 DEF RowsOf
  <2>2. CASE m \in reached
    <3>1. new(m) \in RowsOf(added, m)
      BY <1>1, <2>2 DEF RowsOf
    <3> QED BY <1>1, <2>1, <3>1
  <2>3. CASE m \notin reached
    <3>1. code = "CANCELLED"
      BY <1>2, <2>1, <2>3
    <3>2. RowsOf(added, m) = {}
      BY <1>1, <2>3 DEF RowsOf
    <3> QED BY <1>1, <2>1, <3>1, <3>2
  <2> QED BY <2>2, <2>3
<1>5. \A x \in added : ~ Receipt(x) /\ x.by = r
  BY <1>1 DEF Receipt
<1>6. \A x \in rows, y \in added : x.by # y.by
  BY <1>3, <1>5 DEF ListInv, ListInOrder
<1> HIDE DEF added
<1>7. SettledTogether(rows') /\ ReceivedTogether(rows')
  BY <1>3, <1>4, <1>5, <1>6, SettledUnion DEF ListInv, ReceivedTogether, RowsOf
<1> QED BY <1>3, <1>5, <1>7, EndLists

LEMMA ReadDeliveryLists ==
    ASSUME StatusInv, ListInv, NEW r \in Requests, ReadDelivery(r) PROVE ListInv'
<1> PICK l \in Unread(r) :
      \E code \in CodesOf(LatestRows(snapshot[r], l)) \cup {"unread"} :
        seen' = [seen EXCEPT ![r] = @ \cup {<<l, code>>}]
  BY DEF ReadDelivery
<1> PICK code \in CodesOf(LatestRows(snapshot[r], l)) \cup {"unread"} :
      seen' = [seen EXCEPT ![r] = @ \cup {<<l, code>>}]
  OBVIOUS
<1>1. /\ UNCHANGED <<rows, snapshot, pc, answer>> /\ pc[r] = "reading"
      /\ seen'[r] = seen[r] \cup {<<l, code>>}
      /\ \A q \in Requests \ {r} : seen'[q] = seen[q]
  BY DEF ReadDelivery, StatusInv, TypeOK
<1>2. Shown(r, <<l, code>>)
  BY DEF Shown, Unread
<1>3. ListInOrder(r)'
  BY <1>1, <1>2 DEF ListInv, ListInOrder, Shown, Moment, SettledTogether, ReceivedTogether
<1>4. SettledTogether(rows') /\ ReceivedTogether(rows')
  BY <1>1 DEF ListInv
<1> QED BY <1>1, <1>3, <1>4, ListMoves

LEMMA FinishListLists ==
    ASSUME StatusInv, ListInv, NEW r \in Requests, FinishList(r) PROVE ListInv'
<1>1. /\ UNCHANGED <<rows, snapshot, seen>> /\ pc[r] = "reading" /\ pc'[r] = "done"
      /\ answer'[r] = "ok"
      /\ \A q \in Requests \ {r} : pc'[q] = pc[q] /\ answer'[q] = answer[q]
  BY DEF FinishList, StatusInv, TypeOK
<1>2. ListInOrder(r)'
  BY <1>1 DEF ListInv, ListInOrder, Shown, Moment, SettledTogether, ReceivedTogether
<1>3. SettledTogether(rows') /\ ReceivedTogether(rows')
  BY <1>1 DEF ListInv
<1> QED BY <1>1, <1>2, <1>3, ListMoves

LEMMA NextKeepsListInv == StatusInv /\ RowsInOrder /\ ListInv /\ [Next]_vars => ListInv'
<1> SUFFICES ASSUME StatusInv, RowsInOrder, ListInv, [Next]_vars PROVE ListInv'
  OBVIOUS
<1>0. SettledTogether(rows) /\ ReceivedTogether(rows)
  BY DEF ListInv
<1>1. CASE \E r \in Requests : Commit(r) \/ SettleV2(r) \/ ReadDelivery(r) \/ FinishList(r)
  BY <1>1, CommitLists, SettleV2Lists, ReadDeliveryLists, FinishListLists
<1>2. ASSUME NEW r \in Requests,
             \/ Confirming(r) \/ StartAutoKok(r) \/ StartAutoHs(r)
             \/ StartV1(r) \/ OpenV2(r) \/ OpenList(r)
      PROVE  ListInv'
  <2>1. CASE ConfirmHs(r)
    <3>1. End(r, "error") /\ UNCHANGED <<rows, seen>>
      BY <2>1, NeverRequested DEF ConfirmHs
    <3> QED BY <1>0, <3>1, EndLists
  <2>2. CASE ~ ConfirmHs(r)
    <3>1. PICK state \in Open : \E changes : Begin(r, state, changes)
      BY <1>2, <2>2
      DEF Confirming, ConfirmLine, ConfirmOrder, CreateHs, StartAutoKok, StartAutoHs, StartV1,
          OpenV2, OpenList
    <3>2. UNCHANGED <<rows, seen, answer>> /\ pc[r] = "unsent"
      BY <1>2, <2>2
      DEF Confirming, ConfirmLine, ConfirmOrder, CreateHs, StartAutoKok, StartAutoHs, StartV1,
          OpenV2, OpenList, Arrives
    <3> QED BY <3>1, <3>2, BeginLists
  <2> QED BY <2>1, <2>2
<1>3. ASSUME NEW r \in Requests,
             \/ PatchStatus(r) \/ FinishAuto(r) \/ CancelV1(r) \/ FinishV1(r) \/ Fail(r)
      PROVE  ListInv'
  <2>1. PICK reply \in {"error", "finished", "paid"} : End(r, reply)
    BY <1>3 DEF PatchStatus, FinishAuto, CancelV1, FinishV1, Fail
  <2>2. UNCHANGED <<rows, seen>>
    BY <1>3 DEF PatchStatus, FinishAuto, CancelV1, FinishV1, Fail
  <2> QED BY <1>0, <2>1, <2>2, EndLists
<1>4. ASSUME NEW r \in Requests, ReadKokStatus(r) \/ ReadHsStatus(r) PROVE ListInv'
  <2>1. Kind[r] = "status" /\ End(r, "ok") /\ UNCHANGED rows
    BY <1>4 DEF ReadKokStatus, ReadHsStatus, ShowStatus, Arrives
  <2>2. \A q \in Requests \ {r} : seen'[q] = seen[q]
    BY <1>4 DEF ReadKokStatus, ReadHsStatus, ShowStatus, StatusInv, TypeOK
  <2> QED BY <1>0, <2>1, <2>2, EndLists
<1>5. ASSUME NEW r \in Requests,
             \/ UpdateStatus(r) \/ SkipMarking(r) \/ PollPending(r) \/ PollCompleted(r)
             \/ PaymentServer(r)
      PROVE  ListInv'
  <2>1. UNCHANGED <<rows, snapshot, seen, answer>>
    BY <1>5 DEF UpdateStatus, SkipMarking, PollPending, PollCompleted, PaymentServer
  <2>2. /\ \A q \in Requests \ {r} : pc'[q] = pc[q]
        /\ pc'[r] = pc[r] \/ (pc[r] \in Open /\ pc'[r] \in Open /\ pc'[r] # "reading")
    BY <1>5 DEF UpdateStatus, SkipMarking, PollPending, PollCompleted, PaymentServer, Polls,
                StatusInv, TypeOK
  <2> QED BY <2>1, <2>2, StayLists
<1>6. CASE Tick \/ UNCHANGED vars
  <2>1. UNCHANGED <<rows, snapshot, seen, answer, pc>>
    BY <1>6 DEF Tick, vars
  <2>2. \A r \in Requests : ListInOrder(r)'
    BY <2>1 DEF ListInv, ListInOrder, Shown, Moment, SettledTogether, ReceivedTogether
  <2> QED BY <1>0, <2>1, <2>2 DEF ListInv, SettledTogether, ReceivedTogether
<1> QED BY <1>1, <1>2, <1>3, <1>4, <1>5, <1>6
        DEF Next, RequestStep, Confirming, AutoStep, V1Step, V2Step, ReadStep

\* One status at the most is found for a line that is not ambiguous.
LEMMA OneCode ==
    ASSUME StatusInv, NEW S \in SUBSET rows, NEW l, ~ Ambiguous(S, l),
           NEW a \in CodesOf(LatestRows(S, l)), NEW b \in CodesOf(LatestRows(S, l))
    PROVE  a = b
<1> DEFINE C == CodesOf(LatestRows(S, l))
           D == {"ORDER_RECEIVED", "PAYMENT_COMPLETED", "CANCELLED"}
<1> SUFFICES ASSUME a # b PROVE FALSE
  OBVIOUS
<1>1. C \subseteq D
  BY DEF CodesOf, LatestRows, RowsOf, StatusInv, ReceivedFirst
<1>2. ASSUME NEW p, NEW q, NEW w PROVE IsFiniteSet({p, q, w})
  <2>1. IsFiniteSet({p} \cup {q})
    BY FS_Singleton, FS_Union
  <2>2. IsFiniteSet(({p} \cup {q}) \cup {w})
    BY <2>1, FS_Singleton, FS_Union
  <2>3. ({p} \cup {q}) \cup {w} = {p, q, w}
    OBVIOUS
  <2> QED BY <2>2, <2>3, Zenon
<1>3. IsFiniteSet(D)
  BY <1>2
<1>4. IsFiniteSet(C) /\ Cardinality(C) \in Nat
  BY <1>1, <1>3, FS_Subset, FS_CardinalityType
<1>5. {a, b} \subseteq C
  OBVIOUS
<1>6. Cardinality({a, b}) <= Cardinality(C)
  BY <1>4, <1>5, FS_Subset
<1>7. Cardinality({a, b}) = 2
  <2>1. IsFiniteSet({a}) /\ Cardinality({a}) = 1 /\ b \notin {a}
    BY FS_Singleton
  <2>2. Cardinality({a} \cup {b}) = 1 + 1
    BY <2>1, FS_AddElement
  <2>3. {a} \cup {b} = {a, b}
    OBVIOUS
  <2> QED BY <2>2, <2>3
<1> QED BY <1>4, <1>6, <1>7 DEF Ambiguous

\* Of a line that was paid and not cancelled, the last second has a payment.
LEMMA PaidAtLast ==
    ASSUME StatusInv, RowsInOrder, NEW S \in SUBSET rows, Moment(S), NEW l \in Lines,
           NEW paid \in RowsOf(S, l), Payment(paid), ~ Contested(S, l)
    PROVE  "PAYMENT_COMPLETED" \in CodesOf(LatestRows(S, l))
<1>1. \A x \in RowsOf(S, l) :
        x \in RowsOf(rows, l) /\ x.at \in Int /\ x.id \in Int /\ (Payment(x) \/ Receipt(x))
  BY DEF StatusInv, TypeOK, Row, ReceivedFirst, RowsOf, Contested, Payment, Receipt
<1> PICK top \in RowsOf(S, l) : \A y \in RowsOf(S, l) : NotAfter(y, top)
  BY DEF Moment, HasTopIn
<1>2. top \in LatestRows(S, l)
  BY <1>1 DEF LatestRows, NotAfter
<1>3. CASE Payment(top)
  BY <1>2, <1>3 DEF CodesOf, Payment
<1>4. CASE Receipt(top)
  <2>1. Earlier(top, paid)
    <3>1. paid \in rows /\ paid.line = l
      BY DEF RowsOf
    <3> QED BY <1>1, <1>4, <3>1 DEF RowsInOrder, PaymentsFollow
  <2>2. paid \in LatestRows(S, l)
    <3>1. \A y \in RowsOf(S, l) : y.at <= top.at
      BY <1>2 DEF LatestRows
    <3> QED BY <1>1, <2>1, <3>1 DEF LatestRows, Earlier
  <2> QED BY <2>2 DEF CodesOf, Payment
<1> QED BY <1>1, <1>3, <1>4

\* Two lines that nobody paid: what the one has, the other has of the same second.
LEMMA Mirrored ==
    ASSUME StatusInv, NEW S \in SUBSET rows, Moment(S),
           NEW l \in Lines \ HsLines, NEW m \in Lines \ HsLines, OrderOf[l] = OrderOf[m],
           ~ ConfirmedAlone(S, l), ~ CancelledAlone(S, l, m), NEW x \in RowsOf(S, l),
           ~ Payment(x)
    PROVE  \E y \in RowsOf(S, m) : y.at = x.at /\ y.code = x.code
<1>1. x.code \in {"ORDER_RECEIVED", "CANCELLED"}
  BY DEF StatusInv, ReceivedFirst, RowsOf, Payment
<1>2. CASE Receipt(x)
  <2> PICK y \in RowsOf(S, m) : Receipt(y)
    BY DEF Moment
  <2>1. x.at = 0 /\ y.at = 0
    BY <1>2 DEF Moment, ReceivedTogether
  <2> QED BY <1>2, <2>1 DEF Receipt
<1>3. CASE ~ Receipt(x)
  <2>1. x.code = "CANCELLED"
    BY <1>1, <1>3 DEF Receipt
  <2>2. ~ (x.by \in Requests /\ Kind[x.by] = "confirm_line")
    BY DEF ConfirmedAlone
  <2>3. \E y \in RowsOf(S, m) : y.by = x.by
    BY <2>1 DEF CancelledAlone
  <2> QED BY <1>3, <2>1, <2>2, <2>3 DEF Moment, SettledTogether
<1> QED BY <1>2, <1>3

\* The lines of one order that settled together share a status of their last seconds.
LEMMA ShareACode ==
    ASSUME StatusInv, RowsInOrder, NEW S \in SUBSET rows, Moment(S),
           NEW l \in Lines \ HsLines, NEW m \in Lines \ HsLines, OrderOf[l] = OrderOf[m],
           ~ ConfirmedAlone(S, l), ~ ConfirmedAlone(S, m),
           ~ Contested(S, l), ~ Contested(S, m),
           ~ CancelledAlone(S, l, m), ~ CancelledAlone(S, m, l)
    PROVE  \E code \in CodesOf(LatestRows(S, l)) : code \in CodesOf(LatestRows(S, m))
<1>1. ASSUME NEW k \in Lines \ HsLines, NEW n \in Lines \ HsLines, OrderOf[k] = OrderOf[n],
             ~ ConfirmedAlone(S, k), NEW x \in RowsOf(S, k), Payment(x)
      PROVE  \E y \in RowsOf(S, n) : Payment(y)
  BY <1>1 DEF Moment, SettledTogether, ConfirmedAlone, Payment, Receipt
<1>2. CASE \E x \in RowsOf(S, l) : Payment(x)
  BY <1>1, <1>2, PaidAtLast
<1>3. CASE ~ \E x \in RowsOf(S, l) : Payment(x)
  <2>1. ~ \E x \in RowsOf(S, m) : Payment(x)
    BY <1>1, <1>3
  <2>2. \A x \in RowsOf(S, l) \cup RowsOf(S, m) : x.at \in Int /\ x.id \in Int
    BY DEF StatusInv, TypeOK, Row, RowsOf
  <2> PICK top \in RowsOf(S, l) : \A y \in RowsOf(S, l) : NotAfter(y, top)
    BY DEF Moment, HasTopIn
  <2>3. top \in LatestRows(S, l)
    BY <2>2 DEF LatestRows, NotAfter
  <2> PICK y \in RowsOf(S, m) : y.at = top.at /\ y.code = top.code
    BY <1>3, Mirrored
  <2>4. ASSUME NEW z \in RowsOf(S, m) PROVE z.at <= y.at
    <3> PICK w \in RowsOf(S, l) : w.at = z.at
      BY <2>1, Mirrored
    <3> QED BY <2>2, <2>3 DEF LatestRows
  <2>5. y \in LatestRows(S, m)
    BY <2>4 DEF LatestRows
  <2> QED BY <2>3, <2>5 DEF CodesOf
<1> QED BY <1>2, <1>3

(***************************************************************************)
(* ListsAreUniform for every instance: a list reads the rows of one        *)
(* moment, at which what settled an order as a whole is there for each of  *)
(* its lines or for none.                                                  *)
(***************************************************************************)
THEOREM ListsShowOneMoment == Spec => []ListsAreUniform
<1>1. StatusInv /\ RowsInOrder /\ ListInv => ListsAreUniform
  <2> SUFFICES ASSUME StatusInv, RowsInOrder, ListInv,
                      NEW r \in Requests, Kind[r] = "list", answer[r] = "ok",
                      NEW s \in seen[r], NEW t \in seen[r],
                      s[2] # "unread", t[2] # "unread",
                      ~ CancelledAlone(snapshot[r], s[1], t[1]),
                      ~ CancelledAlone(snapshot[r], t[1], s[1]),
                      \A l \in {s[1], t[1]} :
                          /\ ~ ConfirmedAlone(snapshot[r], l)
                          /\ ~ Ambiguous(snapshot[r], l)
                          /\ ~ Contested(snapshot[r], l)
               PROVE  s[2] = t[2]
    BY DEF ListsAreUniform
  <2> DEFINE S == snapshot[r]
             l == s[1]
             m == t[1]
  <2>1. S \in SUBSET rows /\ Shown(r, s) /\ Shown(r, t)
    BY DEF ListInv, ListInOrder
  <2>2. Moment(S)
    BY <2>1 DEF ListInv, ListInOrder, Shown, RowsOf
  <2>3. /\ l \in Lines /\ m \in Lines /\ OrderOf[l] = OrderOf[m]
        /\ s[2] \in CodesOf(LatestRows(S, l)) /\ t[2] \in CodesOf(LatestRows(S, m))
    BY <2>1 DEF Shown, Siblings, LinesOf
  <2> HIDE DEF S, l, m
  <2>4. PICK code \in CodesOf(LatestRows(S, l)) : code \in CodesOf(LatestRows(S, m))
    <3>1. CASE l = m
      BY <2>3, <3>1
    <3>2. CASE l # m
      <4>1. l \notin HsLines /\ m \notin HsLines
        BY <2>3, <3>2, HsLinesAreAlone
      <4> QED BY <2>1, <2>2, <2>3, <4>1, ShareACode DEF S, l, m
    <3> QED BY <3>1, <3>2
  <2>5. s[2] = code
    BY <2>1, <2>3, <2>4, OneCode DEF S, l
  <2>6. t[2] = code
    BY <2>1, <2>3, <2>4, OneCode DEF S, m
  <2> QED BY <2>5, <2>6
<1>2. Spec => []RowsInOrder
  BY InitRowsInOrder, NextKeepsRowsInOrder, StatusInvariance, PTL DEF Spec
<1>3. Spec => []ListInv
  BY <1>2, InitListInv, NextKeepsListInv, StatusInvariance, PTL DEF Spec
<1> QED BY <1>1, <1>2, <1>3, StatusInvariance, PTL

-----------------------------------------------------------------------------
(* The contract *)

\* The home shopping line of an order is the order's only line.
LEMMA HomeShoppingAlone ==
    ASSUME NEW r \in Requests, Target[r] \in HsLines PROVE Siblings(r) = {Target[r]}
  BY StatusParameters, HsLinesAreAlone DEF Siblings, LinesOf

\* Without a home shopping line among them, an order's lines are all kok lines.
LEMMA KokOrders ==
    ASSUME NEW r \in Requests, Siblings(r) \ HsLines # {} PROVE Siblings(r) \ HsLines = Siblings(r)
  BY StatusParameters, HsLinesAreAlone DEF Siblings, LinesOf

LEMMA InitContract == Init => Contract!Init
<1> SUFFICES ASSUME Init PROVE Contract!Init
  OBVIOUS
<1> DEFINE codes(l) == {x.code : x \in RowsOf(rows, l)}
<1>1. ASSUME NEW l \in Lines PROVE codes(l) \in {{}, {"ORDER_RECEIVED"}}
  BY DEF Init, RowsOf
<1> HIDE DEF codes
<1>2. Marks = [l \in Lines |-> codes(l)]
  BY DEF Marks, codes
<1> QED BY <1>1, <1>2 DEF Contract!Init

\* What added rows do to the marks of the lines.
LEMMA MarksGrow ==
    ASSUME NEW added, NEW code, NEW touched \in SUBSET Lines, rows' = rows \cup added,
           \A x \in added : x.line \in touched /\ x.code = code,
           \A l \in touched : \E x \in added : x.line = l
    PROVE  Contract!Mark(touched, code)
<1> DEFINE before(l) == {x.code : x \in RowsOf(rows, l)}
           after(l) == {x.code : x \in RowsOf(rows', l)}
<1>1. ASSUME NEW l \in Lines
      PROVE  after(l) = IF l \in touched THEN before(l) \cup {code} ELSE before(l)
  BY DEF RowsOf
<1> HIDE DEF before, after
<1>2. Marks = [l \in Lines |-> before(l)] /\ Marks' = [l \in Lines |-> after(l)]
  BY DEF Marks, before, after, RowsOf
<1> QED BY <1>1, <1>2 DEF Contract!Mark

LEMMA MarksHave ==
    ASSUME NEW l \in Lines, HasCode(l, "ORDER_RECEIVED") PROVE Contract!Received(l)
  BY DEF HasCode, Marks, Contract!Received

LEMMA OrderLines ==
    ASSUME NEW r \in Requests
    PROVE  /\ OrderOf[Target[r]] \in Orders /\ Target[r] \in Lines
           /\ Contract!LinesOf(OrderOf[Target[r]]) = Siblings(r) /\ Siblings(r) \subseteq Lines
  BY StatusParameters DEF Siblings, LinesOf, Contract!LinesOf

\* The rows of a whole order, paid.
LEMMA PayContract ==
    ASSUME StatusInv, NEW r \in Requests, NEW added, rows' = rows \cup added,
           \A x \in added : x.line \in Siblings(r) /\ x.code = "PAYMENT_COMPLETED",
           \A l \in Siblings(r) : \E x \in added : x.line = l,
           \A l \in Siblings(r) : HasCode(l, "ORDER_RECEIVED")
    PROVE  Contract!Next
<1>1. Contract!Mark(Siblings(r), "PAYMENT_COMPLETED")
  BY OrderLines, MarksGrow
<1>2. Contract!Pay(OrderOf[Target[r]])
  BY <1>1, OrderLines, MarksHave DEF Contract!Pay
<1> QED BY <1>2, OrderLines DEF Contract!Next

LEMMA CommitContract == ASSUME StatusInv, NEW r \in Requests, Commit(r) PROVE Contract!Next
<1>1. rows' = rows \cup pending[r] /\ Kind[r] \in Committing \ {"confirm_hs"}
  BY CommitAdds DEF Commit, WritesItsOwn
<1>2. /\ \A x \in pending[r] : x.line \in Confirmed(r) /\ x.code = WorkCode(r)
      /\ \A l \in Confirmed(r) : \E x \in pending[r] : x.line = l
  BY CommitAdds
<1>3. Confirmed(r) \subseteq Lines
  BY OrderLines DEF Confirmed
<1>4. Kind[r] # "create_hs" => \A l \in Confirmed(r) : HasCode(l, "ORDER_RECEIVED")
  <2>1. Kind[r] # "create_hs" => Confirmed(r) \cap HsLines = {}
    BY CommitAdds DEF WritesItsOwn
  <2> QED BY <1>3, <2>1 DEF StatusInv, ReceivedFirst
<1>5. Contract!Mark(Confirmed(r), WorkCode(r))
  BY <1>1, <1>2, <1>3, MarksGrow
<1>6. CASE Kind[r] = "confirm_line"
  <2>1. Confirmed(r) = {Target[r]} /\ WorkCode(r) = "PAYMENT_COMPLETED"
    BY <1>6 DEF Confirmed, WorkCode
  <2>2. Contract!PayLine(Target[r])
    BY <1>4, <1>5, <1>6, <2>1, OrderLines, MarksHave DEF Contract!PayLine
  <2> QED BY <2>2, OrderLines DEF Contract!Next
<1>7. CASE Kind[r] = "confirm_order"
  <2>1. /\ WorkCode(r) = "PAYMENT_COMPLETED" /\ Confirmed(r) = Siblings(r) \ HsLines
        /\ Confirmed(r) # {}
    BY <1>7, CommitAdds DEF Confirmed, WorkCode, WritesItsOwn
  <2>2. Confirmed(r) = Siblings(r)
    BY <2>1, KokOrders
  <2> QED BY <1>1, <1>2, <1>4, <1>7, <2>1, <2>2, PayContract
<1>8. CASE Kind[r] = "create_hs"
  <2>1. /\ Confirmed(r) = Siblings(r) /\ WorkCode(r) = "ORDER_RECEIVED"
    BY <1>8, CommitAdds, HomeShoppingAlone DEF Confirmed, WorkCode, WritesItsOwn
  <2>2. Contract!Receive(OrderOf[Target[r]])
    BY <1>5, <2>1, OrderLines DEF Contract!Receive
  <2> QED BY <2>2, OrderLines DEF Contract!Next
<1> QED BY <1>1, <1>6, <1>7, <1>8 DEF Committing

LEMMA SettleV2Contract ==
    ASSUME StatusInv, NEW r \in Requests, SettleV2(r) PROVE [Contract!Next]_Marks
<1> PICK code \in {"PAYMENT_COMPLETED", "CANCELLED"}, reached \in SUBSET Siblings(r) :
      Settles(r, code, reached) /\ (code = "CANCELLED" \/ reached \in {{}, Siblings(r)})
  BY Settlement
<1> DEFINE added == {NewRow(l, code, r) : l \in reached}
<1>1. \A l \in Siblings(r) : HasCode(l, "ORDER_RECEIVED")
  BY Settlement DEF StatusInv, ReceivedFirst
<1>2. \A l : NewRow(l, code, r).line = l /\ NewRow(l, code, r).code = code
  BY DEF NewRow
<1>3. /\ \A x \in added : x.line \in reached /\ x.code = code
      /\ \A l \in reached : \E x \in added : x.line = l
      /\ rows' = rows \cup added
  BY <1>2 DEF Settles
<1>4. reached = {} => added = {}
  OBVIOUS
<1> HIDE DEF added
<1>5. CASE code = "CANCELLED"
  <2>1. Contract!Mark(reached, code)
    BY <1>3, OrderLines, MarksGrow
  <2>2. Contract!Cancel(OrderOf[Target[r]])
    BY <1>1, <1>5, <2>1, OrderLines, MarksHave DEF Contract!Cancel
  <2> QED BY <2>2, OrderLines DEF Contract!Next
<1>6. CASE code = "PAYMENT_COMPLETED" /\ reached = Siblings(r)
  BY <1>1, <1>3, <1>6, PayContract
<1>7. CASE code = "PAYMENT_COMPLETED" /\ reached = {}
  <2>1. rows' = rows
    BY <1>3, <1>4, <1>7
  <2> QED BY <2>1 DEF Marks, RowsOf
<1> QED BY <1>5, <1>6, <1>7

LEMMA StepContract == StatusInv /\ [Next]_vars => [Contract!Next]_Marks
<1> SUFFICES ASSUME StatusInv, [Next]_vars PROVE [Contract!Next]_Marks
  OBVIOUS
<1>1. CASE \E r \in Requests : Commit(r)
  BY <1>1, CommitContract
<1>2. CASE \E r \in Requests : SettleV2(r)
  BY <1>2, SettleV2Contract
<1>3. CASE rows' = rows
  BY <1>3 DEF Marks, RowsOf
<1>4. \/ \E r \in Requests : Commit(r) \/ SettleV2(r)
      \/ rows' = rows
  BY DEF Next, vars, RequestStep, UpdateStatus, Confirming, ConfirmLine, ConfirmOrder,
         ConfirmHs, CreateHs, PatchStatus, AutoStep, StartAutoKok, StartAutoHs, FinishAuto,
         V1Step, StartV1, SkipMarking, PollPending, PollCompleted, CancelV1, FinishV1,
         V2Step, OpenV2, ReadStep, ReadKokStatus, ReadHsStatus, ShowStatus, OpenList,
         ReadDelivery, FinishList, Fail, PaymentServer, Tick
<1> QED BY <1>1, <1>2, <1>3, <1>4

(***************************************************************************)
(* ImplementsStatus for every instance: whatever the requests do, a line   *)
(* is received, and then paid with its order or alone, or cancelled.       *)
(***************************************************************************)
THEOREM Implementation == Spec => ImplementsStatus
BY InitContract, StepContract, StatusInvariance, PTL
DEF Spec, ImplementsStatus, Contract!Spec
=============================================================================
