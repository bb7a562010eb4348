-------------------------- MODULE PaymentV2Proofs --------------------------
(***************************************************************************)
(* Proofs about payment v2 for any numbers of requests, webhook calls,     *)
(* orders, children, restarts and connections.                             *)
(***************************************************************************)
EXTENDS PaymentV2Properties, FiniteSetTheorems, TLAPS

\* What the constants' assumptions say, in the terms of the registry.
LEMMA Parameters ==
    /\ Keys = Confirms
    /\ Payloads = Outcomes
    /\ Confirms \X {0} \subseteq Sessions
    /\ Deliveries \subseteq Sessions
    /\ \A d \in Deliveries : d[1] \in Confirms /\ OrderOf[d[1]] \in Orders
    /\ \A c \in Confirms : <<c, 0>> \in Sessions /\ <<c, 0>> \notin Deliveries
    /\ \A c \in Confirms : OrderOf[c] \in Orders
    /\ Headless \subseteq Deliveries
  BY RegistryParameters, PaymentParameters DEF Sessions

-----------------------------------------------------------------------------
(* Type correctness *)

LEMMA InitTypeOK == Init => TypeOK
<1> SUFFICES ASSUME Init PROVE TypeOK
  OBVIOUS
<1>1. rows \in SUBSET Row
  <2>1. \A o \in Orders :
           /\ StatusRows(<<Outside, 0>>, o, Children, "ORDER_RECEIVED", 0) \in SUBSET Row
           /\ StatusRows(<<Outside, 0>>, o, Children, "PAYMENT_REQUESTED", Age) \in SUBSET Row
    BY PaymentParameters DEF StatusRows, Row, Codes
  <2> QED
    BY <2>1, PaymentParameters DEF Init
<1>2. RegistryTypeOK
  BY DEF Init, RegistryInit, RegistryTypeOK, FutureStates
<1> QED
  BY <1>1, <1>2, PaymentParameters DEF Init, TypeOK, ConfirmStates, Answers, PayStates, HookStates

\* The registry's operations keep its types.
LEMMA RegistryStepType ==
    ASSUME RegistryTypeOK, NEW k \in Keys, NEW payload \in Payloads,
           NEW oldWaiters \in SUBSET Keys, NEW oldTokens \in SUBSET Keys,
           \/ UNCHANGED registryVars
           \/ Subscribe(k)
           \/ RegisterCallbackToken(k)
           \/ DiscardCallbackToken(k)
           \/ Resolve(k, payload)
           \/ GiveUpAndCleanup(k, oldWaiters, oldTokens)
    PROVE  RegistryTypeOK'
  BY DEF RegistryTypeOK, registryVars, FutureStates, Subscribe, RegisterCallbackToken,
         DiscardCallbackToken, Resolve, GiveUpAndCleanup, Complete

\* Status rows that a session writes for its order are rows.
LEMMA StatusRowsType ==
    ASSUME NEW s \in Sessions, NEW order \in Orders, NEW children \in SUBSET Children,
           NEW code \in Codes, NEW at \in Int
    PROVE  StatusRows(s, order, children, code, at) \subseteq Row
  BY DEF StatusRows, Row

LEMMA WriteType ==
    ASSUME TypeOK, NEW s \in Sessions, NEW newRows \in SUBSET Row, NEW setsCancelTime,
           Write(s, newRows, setsCancelTime)
    PROVE  /\ pending' \in [Sessions -> SUBSET Row]
           /\ pendingCancel' \in SUBSET Sessions
  BY DEF TypeOK, Write

\* A handler's end or progress, with the registry's types given.
LEMMA AnswerType ==
    ASSUME TypeOK, RegistryTypeOK', NEW c \in Confirms, NEW result \in Answers,
           Answer(c, result)
    PROVE  TypeOK'
  BY Parameters DEF TypeOK, Answer, Rollback, ConfirmStates

LEMMA GotoType ==
    ASSUME TypeOK, RegistryTypeOK', NEW c \in Confirms, NEW state \in ConfirmStates,
           Goto(c, state), UNCHANGED <<rows, cancelTimes, clock>>,
           pay' \in [Confirms -> PayStates],
           pending' \in [Sessions -> SUBSET Row], pendingCancel' \in SUBSET Sessions
    PROVE  TypeOK'
  BY DEF TypeOK, Goto

LEMMA HookGotoType ==
    ASSUME TypeOK, RegistryTypeOK', NEW d \in Deliveries, NEW state \in HookStates,
           HookGoto(d, state), rows' \in SUBSET Row, cancelTimes' \in SUBSET Orders,
           clock' \in Nat,
           pending' \in [Sessions -> SUBSET Row], pendingCancel' \in SUBSET Sessions
    PROVE  TypeOK'
  BY DEF TypeOK, HookGoto

LEMMA ConfirmTypeOK ==
    ASSUME TypeOK, NEW c \in Confirms, Authenticate(c) \/ ConfirmStep(c)
    PROVE  TypeOK'
<1> USE Parameters
<1>0. RegistryTypeOK /\ c \in Keys /\ <<c, 0>> \in Sessions /\ OrderOf[c] \in Orders
  BY DEF TypeOK
<1>1. CASE Authenticate(c)
  <2>1. RegistryTypeOK'
    BY <1>0, <1>1 DEF Authenticate, RegistryTypeOK, registryVars
  <2>2. CASE Answer(c, "error")
    BY <2>1, <2>2, AnswerType DEF Answers
  <2>3. CASE Goto(c, "auth") /\ UNCHANGED <<dbVars, pay>>
    <3>1. /\ pending' \in [Sessions -> SUBSET Row] /\ pendingCancel' \in SUBSET Sessions
          /\ pay' \in [Confirms -> PayStates]
      BY <2>3 DEF TypeOK, dbVars
    <3> QED
      BY <2>1, <2>3, <3>1, GotoType DEF dbVars, ConfirmStates
  <2> QED
    BY <1>1, <2>2, <2>3 DEF Authenticate
<1>2. CASE CheckOrder(c)
  <2>1. RegistryTypeOK'
    BY <1>0, <1>2 DEF CheckOrder, RegistryTypeOK, registryVars
  <2>2. CASE Answer(c, "error")
    BY <2>1, <2>2, AnswerType DEF Answers
  <2>3. CASE /\ CancelOrder(<<c, 0>>, OrderOf[c], Children, clock)
             /\ Goto(c, "expired")
             /\ UNCHANGED <<rows, cancelTimes, clock, pay>>
    <3>1. StatusRows(<<c, 0>>, OrderOf[c], Children, "CANCELLED", clock - UtcLag) \in SUBSET Row
      <4>1. clock - UtcLag \in Int
        BY PaymentParameters DEF TypeOK
      <4> QED
        BY <1>0, <4>1, StatusRowsType DEF Codes
    <3>2. pending' \in [Sessions -> SUBSET Row] /\ pendingCancel' \in SUBSET Sessions
      BY <1>0, <2>3, <3>1, WriteType DEF CancelOrder
    <3>3. pay' \in [Confirms -> PayStates]
      BY <2>3 DEF TypeOK
    <3> QED
      BY <2>1, <2>3, <3>2, <3>3, GotoType DEF ConfirmStates
  <2>4. CASE Goto(c, "checked") /\ UNCHANGED <<dbVars, pay>>
    <3>1. /\ pending' \in [Sessions -> SUBSET Row] /\ pendingCancel' \in SUBSET Sessions
          /\ pay' \in [Confirms -> PayStates]
      BY <2>4 DEF TypeOK, dbVars
    <3> QED
      BY <2>1, <2>4, <3>1, GotoType DEF dbVars, ConfirmStates
  <2> QED
    BY <1>2, <2>2, <2>3, <2>4 DEF CheckOrder
<1>3. CASE ReportExpired(c)
  <2>1. RegistryTypeOK'
    BY <1>0, <1>3 DEF ReportExpired, RegistryTypeOK, registryVars
  <2> QED
    BY <2>1, <1>3, AnswerType DEF ReportExpired, Answers
<1>4. CASE RequestPayment(c)
  <2>1. CASE /\ Write(<<c, 0>>, StatusRows(<<c, 0>>, OrderOf[c], Listed(<<c, 0>>), "PAYMENT_REQUESTED", clock), FALSE)
             /\ RegisterCallbackToken(c)
             /\ pay' = [pay EXCEPT ![c] = "requested"]
             /\ Goto(c, "posted")
             /\ UNCHANGED <<rows, cancelTimes, clock>>
    <3>1. RegistryTypeOK'
      BY <1>0, <2>1 DEF RegistryTypeOK, RegisterCallbackToken
    <3>2. StatusRows(<<c, 0>>, OrderOf[c], Listed(<<c, 0>>), "PAYMENT_REQUESTED", clock) \in SUBSET Row
      <4>1. clock \in Int
        BY DEF TypeOK
      <4>2. Listed(<<c, 0>>) \subseteq Children
        BY DEF Listed
      <4> QED
        BY <1>0, <4>1, <4>2, StatusRowsType DEF Codes
    <3>3. pending' \in [Sessions -> SUBSET Row] /\ pendingCancel' \in SUBSET Sessions
      BY <1>0, <2>1, <3>2, WriteType
    <3>4. pay' \in [Confirms -> PayStates]
      BY <2>1 DEF TypeOK, PayStates
    <3> QED
      BY <2>1, <3>1, <3>3, <3>4, GotoType DEF ConfirmStates
  <2>2. CASE Answer(c, "error") /\ UNCHANGED registryVars
    <3>1. RegistryTypeOK'
      BY <1>0, <2>2 DEF RegistryTypeOK, registryVars
    <3> QED
      BY <2>2, <3>1, AnswerType DEF Answers
  <2> QED
    BY <1>4, <2>1, <2>2 DEF RequestPayment
<1>5. CASE PostFails(c) \/ PostRejected(c)
  <2>1. RegistryTypeOK'
    BY <1>0, <1>5 DEF PostFails, PostRejected, RegistryTypeOK, DiscardCallbackToken
  <2> QED
    BY <2>1, <1>5, AnswerType DEF PostFails, PostRejected, Answers
<1>6. CASE PostAcked(c)
  <2>1. RegistryTypeOK'
    BY <1>0, <1>6 DEF PostAcked, RegistryTypeOK, registryVars
  <2>2. /\ pending' \in [Sessions -> SUBSET Row] /\ pendingCancel' \in SUBSET Sessions
        /\ pay' \in [Confirms -> PayStates]
    BY <1>6 DEF PostAcked, TypeOK, dbVars
  <2> QED
    BY <2>1, <2>2, <1>6, GotoType DEF PostAcked, dbVars, ConfirmStates
<1>7. CASE SubscribeToWebhook(c)
  <2>1. RegistryTypeOK'
    BY <1>0, <1>7 DEF SubscribeToWebhook, RegistryTypeOK, Subscribe, FutureStates
  <2>2. /\ pending' \in [Sessions -> SUBSET Row] /\ pendingCancel' \in SUBSET Sessions
        /\ pay' \in [Confirms -> PayStates]
    BY <1>7 DEF SubscribeToWebhook, TypeOK, dbVars
  <2> QED
    BY <2>1, <2>2, <1>7, GotoType DEF SubscribeToWebhook, dbVars, ConfirmStates
<1>8. CASE Wake(c)
  <2>1. RegistryTypeOK' /\ future[c] \in Answers
    BY <1>0, <1>8 DEF Wake, RegistryTypeOK, registryVars, Answers
  <2> QED
    BY <2>1, <1>8, AnswerType DEF Wake
<1>9. CASE WaitTimesOut(c)
  <2>1. PICK oldTokens \in SUBSET tokens, oldWaiters \in SUBSET waiters :
           GiveUpAndCleanup(c, oldWaiters, oldTokens)
    BY <1>9 DEF WaitTimesOut
  <2>2. RegistryTypeOK'
    BY <1>0, <2>1 DEF GiveUpAndCleanup, Complete, RegistryTypeOK, FutureStates
  <2> QED
    BY <2>2, <1>9, AnswerType DEF WaitTimesOut, Answers
<1> QED
  BY <1>1, <1>2, <1>3, <1>4, <1>5, <1>6, <1>7, <1>8, <1>9 DEF ConfirmStep

LEMMA HookTypeOK ==
    ASSUME TypeOK, HooksAreDecided, NEW d \in Deliveries, VerifyWebhook(d) \/ HookStep(d)
    PROVE  TypeOK'
<1> USE Parameters
<1>0. /\ RegistryTypeOK /\ d[1] \in Keys /\ d \in Sessions /\ OrderOf[d[1]] \in Orders
      /\ pending \in [Sessions -> SUBSET Row] /\ pendingCancel \in SUBSET Sessions
      /\ rows \in SUBSET Row /\ cancelTimes \in SUBSET Orders /\ clock \in Nat
  BY DEF TypeOK
<1>1. CASE VerifyWebhook(d)
  <2>1. RegistryTypeOK'
    BY <1>0, <1>1 DEF VerifyWebhook, RegistryTypeOK, registryVars
  <2>2. PICK state \in HookStates : HookGoto(d, state)
    BY <1>1 DEF VerifyWebhook, HookStates
  <2> QED
    BY <1>0, <1>1, <2>1, <2>2, HookGotoType DEF VerifyWebhook, dbVars
<1>2. CASE ApplyCompleted(d)
  <2>1. RegistryTypeOK' /\ clock' \in Nat /\ clock' \in Int
    BY <1>0, <1>2 DEF ApplyCompleted, RegistryTypeOK, registryVars, Tick
  <2>2. StatusRows(d, OrderOf[d[1]], Listed(d), "PAYMENT_COMPLETED", clock') \in SUBSET Row
    <3>1. Listed(d) \subseteq Children
      BY DEF Listed
    <3> QED
      BY <1>0, <2>1, <3>1, StatusRowsType DEF Codes
  <2>3. pending' \in [Sessions -> SUBSET Row] /\ pendingCancel' \in SUBSET Sessions
    BY <1>0, <1>2, <2>2, WriteType DEF ApplyCompleted
  <2> QED
    BY <1>0, <1>2, <2>1, <2>3, HookGotoType DEF ApplyCompleted, HookStates
<1>3. CASE ApplyCompletedFails(d)
  <2>1. RegistryTypeOK'
    BY <1>0, <1>3 DEF ApplyCompletedFails, RegistryTypeOK, registryVars
  <2> QED
    BY <1>0, <1>3, <2>1, HookGotoType DEF ApplyCompletedFails, dbVars, HookStates
<1>4. CASE ApplyFailed(d)
  <2>1. RegistryTypeOK' /\ clock' \in Nat
    BY <1>0, <1>4 DEF ApplyFailed, RegistryTypeOK, registryVars, Tick
  <2>2. pending' \in [Sessions -> SUBSET Row] /\ pendingCancel' \in SUBSET Sessions
    <3>1. CASE UNCHANGED <<pending, pendingCancel, clock>>
      BY <1>0, <3>1
    <3>2. ASSUME NEW done \in SUBSET Children, CancelOrder(d, OrderOf[d[1]], done, clock')
          PROVE  pending' \in [Sessions -> SUBSET Row] /\ pendingCancel' \in SUBSET Sessions
      <4>1. clock' - UtcLag \in Int
        BY <2>1, PaymentParameters
      <4>2. StatusRows(d, OrderOf[d[1]], done, "CANCELLED", clock' - UtcLag) \in SUBSET Row
        BY <1>0, <4>1, StatusRowsType DEF Codes
      <4> QED
        BY <1>0, <3>2, <4>2, WriteType DEF CancelOrder
    <3> QED
      BY <1>4, <3>1, <3>2 DEF ApplyFailed
  <2> QED
    BY <1>0, <1>4, <2>1, <2>2, HookGotoType DEF ApplyFailed, HookStates
<1>5. CASE ResolveWaiters(d)
  <2>1. RegistryTypeOK'
    <3>1. Event(d) \in Payloads
      BY <1>5 DEF ResolveWaiters, HooksAreDecided, Event, Outcomes
    <3> QED
      BY <1>0, <1>5, <3>1, RegistryStepType DEF ResolveWaiters
  <2> QED
    BY <1>0, <1>5, <2>1, HookGotoType DEF ResolveWaiters, dbVars, HookStates
<1>6. CASE CommitWebhook(d)
  <2>1. RegistryTypeOK'
    BY <1>0, <1>6 DEF CommitWebhook, RegistryTypeOK, registryVars
  <2>2. /\ pending' \in [Sessions -> SUBSET Row] /\ pendingCancel' \in SUBSET Sessions
        /\ rows' \in SUBSET Row /\ cancelTimes' \in SUBSET Orders
    BY <1>0, <1>6 DEF CommitWebhook, Commit, Rollback
  <2> QED
    BY <1>0, <1>6, <2>1, <2>2, HookGotoType DEF CommitWebhook, HookStates
<1>7. CASE CommitWebhookFails(d)
  <2>1. RegistryTypeOK'
    BY <1>0, <1>7 DEF CommitWebhookFails, RegistryTypeOK, registryVars
  <2>2. /\ pending' \in [Sessions -> SUBSET Row] /\ pendingCancel' \in SUBSET Sessions
        /\ rows' \in SUBSET Row /\ cancelTimes' \in SUBSET Orders /\ clock' \in Nat
    BY <1>0, <1>7 DEF CommitWebhookFails, Commit, Rollback
  <2> QED
    BY <1>0, <1>7, <2>1, <2>2, HookGotoType DEF CommitWebhookFails, HookStates
<1> QED
  BY <1>1, <1>2, <1>3, <1>4, <1>5, <1>6, <1>7 DEF HookStep

LEMMA PaymentServerTypeOK ==
    ASSUME TypeOK, NEW c \in Confirms, PaymentServer(c)
    PROVE  TypeOK'
<1>1. PICK from \in PayStates, to \in PayStates : ServerStep(c, from, to)
  BY DEF PaymentServer, PayStates
<1> QED
  BY <1>1 DEF ServerStep, TypeOK, RegistryTypeOK, dbVars, registryVars

LEMMA CrashTypeOK ==
    ASSUME TypeOK, Crash
    PROVE  TypeOK'
<1>1. RegistryTypeOK'
  BY DEF Crash, RegistryTypeOK, FutureStates
<1>2. /\ pc' \in [Confirms -> ConfirmStates]
      /\ answer' \in [Confirms -> Answers]
      /\ hook' \in [Deliveries -> HookStates]
  BY DEF Crash, TypeOK, ConfirmStates, Answers, HookStates
<1> QED
  BY <1>1, <1>2 DEF Crash, TypeOK

LEMMA StutterTypeOK ==
    ASSUME TypeOK, UNCHANGED vars
    PROVE  TypeOK'
  BY DEF TypeOK, RegistryTypeOK, vars, dbVars, registryVars

-----------------------------------------------------------------------------
(* The inductive invariant *)

LEMMA InitInv == Init => Inv
<1> SUFFICES ASSUME Init PROVE Inv
  OBVIOUS
<1> USE Parameters
<1>1. TypeOK
  BY InitTypeOK
<1>2. \A r \in rows : r.by = <<Outside, 0>> /\ r.code # "PAYMENT_COMPLETED"
  BY DEF Init, StatusRows
<1>3. RowsAreBacked /\ AckedIsRecorded
  <2>1. RowsAreBacked
    BY <1>2 DEF Init, RowsAreBacked
  <2>2. \A d \in Deliveries, child \in Children : ~ PaidBy(d, child)
    BY <1>2 DEF PaidBy
  <2>3. \A d \in Deliveries : hook[d] = "unsent"
    BY DEF Init
  <2> QED BY <2>1, <2>2, <2>3 DEF AckedIsRecorded
<1>4. HooksAreDecided /\ SessionsAreBacked
  BY DEF Init, HooksAreDecided, SessionsAreBacked
<1>5. ResultsAreHeard /\ AnswersAreHeard /\ NoTraceYet
  BY DEF Init, RegistryInit, Outcomes, ResultsAreHeard, AnswersAreHeard, NoTraceYet
<1>6. NoLostWakeup /\ LiveTokenKept /\ TokenRetired
  BY DEF Init, RegistryInit, NoLostWakeup, LiveTokenKept, TokenRetired
<1> QED
  BY <1>1, <1>3, <1>4, <1>5, <1>6 DEF Inv

(***************************************************************************)
(* A step of a request leaves the order tables and the webhooks' sessions  *)
(* alone; on the payment server it may only put its own payment.           *)
(***************************************************************************)
LEMMA ConfirmFrame ==
    ASSUME Inv, NEW c \in Confirms, Authenticate(c) \/ ConfirmStep(c)
    PROVE  /\ UNCHANGED <<rows, cancelTimes, hook>>
           /\ \A d \in Deliveries : pending'[d] = pending[d]
           /\ \A d \in Deliveries : d \in pendingCancel' <=> d \in pendingCancel
           /\ \A k \in Confirms : pay'[k] = pay[k] \/ (pay[k] = "none" /\ pay'[k] = "requested")
<1> USE Parameters DEF Inv, TypeOK
<1>1. CASE Authenticate(c)
  BY <1>1 DEF Authenticate, Answer, Goto, Rollback, dbVars
<1>2. CASE CheckOrder(c)
  BY <1>2 DEF CheckOrder, Answer, Goto, Rollback, CancelOrder, Write, dbVars
<1>3. CASE ReportExpired(c) \/ PostFails(c) \/ PostRejected(c) \/ Wake(c) \/ WaitTimesOut(c)
  BY <1>3 DEF ReportExpired, PostFails, PostRejected, Wake, WaitTimesOut, Answer, Rollback
<1>4. CASE RequestPayment(c)
  BY <1>4 DEF RequestPayment, Answer, Goto, Rollback, Write, NoTraceYet
<1>5. CASE PostAcked(c) \/ SubscribeToWebhook(c)
  BY <1>5 DEF PostAcked, SubscribeToWebhook, Goto, dbVars
<1> QED
  BY <1>1, <1>2, <1>3, <1>4, <1>5 DEF ConfirmStep

(***************************************************************************)
(* What has been announced: it is an outcome, it is kept by every step     *)
(* that decides no payment twice, and it grows with a call that passes its *)
(* checks.                                                                 *)
(***************************************************************************)
LEMMA HeardIsOutcome ==
    ASSUME Inv, NEW c \in Confirms
    PROVE  Heard(c) \subseteq Outcomes
  BY Parameters DEF Inv, Heard, Event, HooksAreDecided, Outcomes

LEMMA EventIsHeard ==
    ASSUME NEW d \in Deliveries, hook[d] \notin {"unsent", "rejected"}
    PROVE  Event(d) \in Heard(d[1])
  BY DEF Heard

LEMMA HeardKept ==
    ASSUME Inv, UNCHANGED hook,
           \A k \in Confirms : pay'[k] = pay[k] \/ pay[k] \notin Outcomes
    PROVE  \A c \in Confirms : Heard(c)' = Heard(c)
<1> SUFFICES ASSUME NEW c \in Confirms PROVE Heard(c)' = Heard(c)
  OBVIOUS
<1>1. \A d \in Deliveries : hook[d] # "unsent" => Event(d)' = Event(d)
  BY Parameters DEF Inv, HooksAreDecided, Event
<1> QED
  BY <1>1 DEF Heard

\* Every step of a webhook call moves it on; only the checks reject it.
LEMMA HookMoves ==
    ASSUME NEW d \in Deliveries, VerifyWebhook(d) \/ HookStep(d)
    PROVE  \E state \in HookStates \ {"unsent"} :
              HookGoto(d, state) /\ (hook[d] = "unsent" \/ state # "rejected")
<1>1. CASE VerifyWebhook(d)
  BY <1>1 DEF VerifyWebhook, HookStates
<1>2. CASE ApplyCompleted(d) \/ ApplyFailed(d)
  <2>1. HookGoto(d, "applied")
    BY <1>2 DEF ApplyCompleted, ApplyFailed
  <2> QED
    BY <2>1 DEF HookStates
<1>3. CASE ApplyCompletedFails(d) \/ CommitWebhookFails(d)
  <2>1. HookGoto(d, "error")
    BY <1>3 DEF ApplyCompletedFails, CommitWebhookFails
  <2> QED
    BY <2>1 DEF HookStates
<1>4. CASE ResolveWaiters(d) \/ CommitWebhook(d)
  BY <1>4 DEF ResolveWaiters, CommitWebhook, HookStates
<1> QED
  BY <1>1, <1>2, <1>3, <1>4 DEF HookStep

LEMMA HeardByStep ==
    ASSUME Inv, NEW d \in Deliveries, NEW state \in HookStates \ {"unsent"}, HookGoto(d, state),
           hook[d] = "unsent" \/ state # "rejected"
    PROVE  /\ \A c \in Confirms : Heard(c) \subseteq Heard(c)'
           /\ \A c \in Confirms : c # d[1] => Heard(c)' = Heard(c)
           /\ Heard(d[1])' \subseteq Heard(d[1]) \cup {Event(d)}
           /\ hook[d] \notin {"unsent", "rejected"} => Heard(d[1])' = Heard(d[1])
           /\ state = "rejected" => Heard(d[1])' = Heard(d[1])
           /\ state # "rejected" => Event(d) \in Heard(d[1])'
<1>1. hook' = [hook EXCEPT ![d] = state] /\ \A e \in Deliveries : Event(e)' = Event(e)
  BY DEF HookGoto, Event
<1>2. hook \in [Deliveries -> HookStates]
  BY DEF Inv, TypeOK
<1>3. \A e \in Deliveries : e # d => (hook'[e] = hook[e])
  BY <1>1, <1>2
<1>4. hook'[d] = state
  BY <1>1, <1>2
<1> QED
  BY <1>1, <1>3, <1>4 DEF Heard

\* What such a step leaves true of the tables and of the webhooks.
LEMMA FrameTables ==
    ASSUME Inv,
           UNCHANGED <<rows, cancelTimes, hook>>,
           \A d \in Deliveries : pending'[d] = pending[d],
           \A d \in Deliveries : d \in pendingCancel' <=> d \in pendingCancel,
           \A k \in Confirms : pay'[k] = pay[k] \/ pay[k] \notin Outcomes
    PROVE  HooksAreDecided' /\ SessionsAreBacked' /\ RowsAreBacked' /\ AckedIsRecorded'
<1> USE Parameters DEF Inv, Outcomes
<1>1. HooksAreDecided'
  BY DEF HooksAreDecided
<1>2. SessionsAreBacked'
  <2> SUFFICES ASSUME NEW d \in Deliveries
               PROVE  /\ \A r \in pending'[d] : BackedRow(d, r)'
                      /\ pending'[d] # {} \/ d \in pendingCancel' =>
                            hook'[d] \in {"applied", "resolved"}
                      /\ d \in pendingCancel' => Event(d)' = "failed"
                      /\ hook'[d] \in {"applied", "resolved"} /\ Event(d)' = "completed" =>
                            \A child \in Listed(d) :
                                \E r \in pending'[d] : r.child = child /\ r.code = "PAYMENT_COMPLETED"
    BY DEF SessionsAreBacked
  <2>1. d[1] \in Confirms
    OBVIOUS
  <2>2. CASE hook[d] = "unsent"
    <3>1. pending[d] = {} /\ d \notin pendingCancel
      BY <2>2 DEF SessionsAreBacked
    <3> QED
      BY <2>2, <3>1
  <2>3. CASE hook[d] # "unsent"
    <3>1. Event(d)' = Event(d)
      BY <2>1, <2>3 DEF HooksAreDecided, Event
    <3> QED
      BY <2>1, <3>1 DEF SessionsAreBacked, BackedRow
  <2> QED
    BY <2>2, <2>3
<1>3. RowsAreBacked'
  BY DEF RowsAreBacked
<1>4. AckedIsRecorded'
  BY DEF AckedIsRecorded, PaidBy, HooksAreDecided
<1> QED
  BY <1>1, <1>2, <1>3, <1>4

\* The invariant's conjuncts about requests and the registry.
RendezvousInv ==
    /\ ResultsAreHeard
    /\ AnswersAreHeard
    /\ NoTraceYet
    /\ NoLostWakeup
    /\ LiveTokenKept
    /\ TokenRetired

LEMMA ConfirmRendezvous ==
    ASSUME Inv, NEW c \in Confirms, Authenticate(c) \/ ConfirmStep(c)
    PROVE  RendezvousInv'
<1>0. /\ \A k \in Confirms : Heard(k)' = Heard(k)
      /\ \A k \in Confirms : Heard(k) \subseteq Outcomes
  BY ConfirmFrame, HeardKept, HeardIsOutcome DEF Outcomes
<1> USE <1>0, Parameters DEF Inv, TypeOK, RegistryTypeOK, registryVars, Outcomes, RendezvousInv,
      ResultsAreHeard, AnswersAreHeard, NoTraceYet, NoLostWakeup, LiveTokenKept, TokenRetired
<1>1. CASE Authenticate(c)
  BY <1>1 DEF Authenticate, Answer, Goto
<1>2. CASE CheckOrder(c)
  BY <1>2 DEF CheckOrder, Answer, Goto
<1>3. CASE ReportExpired(c)
  BY <1>3 DEF ReportExpired, Answer
<1>4. CASE RequestPayment(c)
  <2>1. CASE Answer(c, "error") /\ UNCHANGED registryVars
    BY <1>4, <2>1 DEF RequestPayment, Answer
  <2>2. CASE /\ RegisterCallbackToken(c)
             /\ pay' = [pay EXCEPT ![c] = "requested"]
             /\ Goto(c, "posted")
    <3>1. /\ pc[c] = "checked"
          /\ pay[c] = "none" /\ resolved[c] = "none" /\ future[c] = "none" /\ c \notin waiters
      BY <1>4 DEF RequestPayment
    <3>2. /\ pc' = [pc EXCEPT ![c] = "posted"]
          /\ tokens' = tokens \cup {c}
          /\ UNCHANGED <<answer, waiters, future, resolved>>
      BY <2>2 DEF RegisterCallbackToken, Goto
    <3> HIDE Parameters
    <3>3. ResultsAreHeard'
      BY <2>2, <3>1, <3>2
    <3>4. AnswersAreHeard'
      BY <2>2, <3>1, <3>2
    <3>5. NoTraceYet'
      BY <2>2, <3>1, <3>2
    <3>6. NoLostWakeup' /\ LiveTokenKept' /\ TokenRetired'
      BY <3>1, <3>2
    <3> QED
      BY <3>3, <3>4, <3>5, <3>6
  <2> QED
    BY <1>4, <2>1, <2>2 DEF RequestPayment
<1>5. CASE PostFails(c) \/ PostRejected(c)
  BY <1>5 DEF PostFails, PostRejected, Answer, DiscardCallbackToken
<1>6. CASE PostAcked(c)
  BY <1>6 DEF PostAcked, Goto
<1>7. CASE SubscribeToWebhook(c)
  BY <1>7 DEF SubscribeToWebhook, Goto, Subscribe
<1>8. CASE Wake(c)
  BY <1>8 DEF Wake, Answer
<1>9. CASE WaitTimesOut(c)
  BY <1>9 DEF WaitTimesOut, Answer, GiveUpAndCleanup, Complete, OldEnough
<1> QED
  BY <1>1, <1>2, <1>3, <1>4, <1>5, <1>6, <1>7, <1>8, <1>9 DEF ConfirmStep

LEMMA HookRendezvous ==
    ASSUME Inv, NEW d \in Deliveries, VerifyWebhook(d) \/ HookStep(d)
    PROVE  RendezvousInv'
<1> USE Parameters DEF Inv, TypeOK, RegistryTypeOK, registryVars, dbVars, Outcomes, RendezvousInv,
      ResultsAreHeard, AnswersAreHeard, NoTraceYet, NoLostWakeup, LiveTokenKept, TokenRetired
<1>0. \A c \in Confirms : Heard(c) \subseteq Heard(c)'
  <2>1. PICK state \in HookStates \ {"unsent"} :
           HookGoto(d, state) /\ (hook[d] = "unsent" \/ state # "rejected")
    BY HookMoves
  <2> QED
    BY <2>1, HeardByStep
<1>1. CASE ResolveWaiters(d)
  <2>1. /\ d[1] \in Confirms /\ pay[d[1]] \in Outcomes
        /\ Event(d) \in Outcomes /\ Event(d) \in Heard(d[1])'
    <3>1. hook[d] = "applied" /\ HookGoto(d, "resolved")
      BY <1>1 DEF ResolveWaiters
    <3>2. Event(d) \in Heard(d[1])
      BY <3>1, EventIsHeard
    <3> QED
      BY <1>0, <3>1, <3>2 DEF HooksAreDecided, Event
  <2>2. UNCHANGED <<pc, answer, pay>>
    BY <1>1 DEF ResolveWaiters, HookGoto
  <2> DEFINE event == Event(d)
  <2>3. /\ resolved' = [resolved EXCEPT ![d[1]] = event]
        /\ tokens' = tokens \ {d[1]}
        /\ waiters' = waiters \ {d[1]}
        /\ future' = [k \in Confirms |->
                        IF k \in {d[1]} \cap waiters /\ future[k] = "pending"
                        THEN event ELSE future[k]]
    BY <1>1 DEF ResolveWaiters, Resolve, Complete
  <2>10. event \in Outcomes /\ event \in Heard(d[1])'
    BY <2>1
  <2> HIDE Parameters DEF event
  <2>4. ResultsAreHeard' /\ AnswersAreHeard'
    BY <1>0, <2>1, <2>2, <2>3, <2>10
  <2>5. NoTraceYet'
    BY <2>1, <2>2, <2>3
  <2>6. NoLostWakeup' /\ LiveTokenKept' /\ TokenRetired'
    BY <2>1, <2>2, <2>3, <2>10
  <2> QED
    BY <2>4, <2>5, <2>6
<1>2. CASE ~ResolveWaiters(d)
  <2>1. UNCHANGED <<pc, answer, pay, registryVars>>
    BY <1>2 DEF VerifyWebhook, HookStep, ApplyCompleted, ApplyCompletedFails, ApplyFailed,
                CommitWebhook, CommitWebhookFails, HookGoto
  <2> QED
    BY <1>0, <2>1
<1> QED
  BY <1>1, <1>2

(***************************************************************************)
(* Until its commit a webhook call only fills its own session, with rows   *)
(* that the decision backs.                                                *)
(***************************************************************************)
LEMMA ApplyBacked ==
    ASSUME Inv, NEW d \in Deliveries, ApplyCompleted(d) \/ ApplyFailed(d)
    PROVE  SessionsAreBacked'
<1> USE Parameters DEF Inv, TypeOK
<1>1. CASE ApplyCompleted(d)
  <2>1. /\ Event(d) = "completed" /\ pay' = pay /\ \A e \in Deliveries : Event(e)' = Event(e)
        /\ hook' = [hook EXCEPT ![d] = "applied"]
        /\ pendingCancel' = pendingCancel
        /\ pending' = [pending EXCEPT ![d] = @ \cup
               StatusRows(d, OrderOf[d[1]], Listed(d), "PAYMENT_COMPLETED", clock')]
    BY <1>1 DEF ApplyCompleted, Write, HookGoto, Event
  <2>2. \A r \in pending'[d] : BackedRow(d, r)'
    BY <2>1 DEF SessionsAreBacked, BackedRow, StatusRows
  <2>3. \A child \in Listed(d) :
           \E r \in pending'[d] : r.child = child /\ r.code = "PAYMENT_COMPLETED"
    <3> SUFFICES ASSUME NEW child \in Listed(d)
                 PROVE  \E r \in pending'[d] : r.child = child /\ r.code = "PAYMENT_COMPLETED"
      OBVIOUS
    <3> DEFINE row == [order |-> OrderOf[d[1]], child |-> child,
                       code |-> "PAYMENT_COMPLETED", at |-> clock', by |-> d]
    <3>1. row \in pending'[d]
      BY <2>1 DEF StatusRows
    <3> QED
      BY <3>1
  <2> QED
    BY <2>1, <2>2, <2>3 DEF SessionsAreBacked, BackedRow
<1>2. CASE ApplyFailed(d)
  <2>1. /\ Event(d) = "failed" /\ pay' = pay /\ \A e \in Deliveries : Event(e)' = Event(e)
        /\ hook' = [hook EXCEPT ![d] = "applied"]
    BY <1>2 DEF ApplyFailed, HookGoto, Event
  <2>2. CASE UNCHANGED <<pending, pendingCancel>>
    BY <2>1, <2>2 DEF SessionsAreBacked, BackedRow
  <2>3. ASSUME NEW done \in SUBSET Children, CancelOrder(d, OrderOf[d[1]], done, clock')
        PROVE  SessionsAreBacked'
    <3>1. /\ pendingCancel' = pendingCancel \cup {d}
          /\ pending' = [pending EXCEPT ![d] = @ \cup
                 StatusRows(d, OrderOf[d[1]], done, "CANCELLED", clock' - UtcLag)]
      BY <2>3 DEF CancelOrder, Write
    <3>2. \A r \in pending'[d] : BackedRow(d, r)'
      BY <2>1, <3>1 DEF SessionsAreBacked, BackedRow, StatusRows
    <3> QED
      BY <2>1, <3>1, <3>2 DEF SessionsAreBacked, BackedRow
  <2> QED
    BY <1>2, <2>2, <2>3 DEF ApplyFailed
<1> QED
  BY <1>1, <1>2

\* A commit, whatever its call is answered: what the session held is in the tables.
LEMMA CommitTables ==
    ASSUME Inv, NEW d \in Deliveries, hook[d] = "resolved",
           Commit(d, OrderOf[d[1]]), HookGoto(d, "acked") \/ HookGoto(d, "error")
    PROVE  SessionsAreBacked' /\ RowsAreBacked' /\ AckedIsRecorded'
<1> USE Parameters DEF Inv, TypeOK
<1>1. /\ hook'[d] \in {"acked", "error"} /\ \A e \in Deliveries : e # d => hook'[e] = hook[e]
      /\ pay' = pay /\ \A e \in Deliveries : Event(e)' = Event(e)
      /\ rows' = rows \cup pending[d]
      /\ cancelTimes' = IF d \in pendingCancel THEN cancelTimes \cup {OrderOf[d[1]]}
                                              ELSE cancelTimes
      /\ pending' = [pending EXCEPT ![d] = {}]
      /\ pendingCancel' = pendingCancel \ {d}
  BY DEF Commit, Rollback, HookGoto, Event
<1>2. SessionsAreBacked'
  BY <1>1 DEF SessionsAreBacked, BackedRow
<1>3. RowsAreBacked'
  <2>1. \A r \in pending[d] :
           /\ r.by = d /\ r.order = OrderOf[d[1]]
           /\ \/ r.code = "PAYMENT_COMPLETED" /\ (pay[d[1]] = "completed" \/ d \in Headless)
              \/ r.code = "CANCELLED" /\ pay[d[1]] = "failed" /\ d \notin Headless
                 /\ d \in pendingCancel
    BY DEF SessionsAreBacked, BackedRow, Event
  <2>2. d[1] \in Confirms
    OBVIOUS
  <2>3. d \in pendingCancel => pay[d[1]] = "failed"
    BY DEF SessionsAreBacked, Event
  <2> QED
    BY <1>1, <2>1, <2>2, <2>3 DEF RowsAreBacked
<1>4. AckedIsRecorded'
  <2>1. \A r \in pending[d] : r.by = d
    BY DEF SessionsAreBacked, BackedRow
  <2>2. ASSUME NEW e \in Deliveries, NEW child \in Children
        PROVE  /\ PaidBy(e, child) => PaidBy(e, child)'
               /\ e # d => (PaidBy(e, child)' => PaidBy(e, child))
    BY <1>1, <2>1 DEF PaidBy
  <2>3. Event(d) = "completed" => \A child \in Listed(d) : PaidBy(d, child)'
    BY <1>1, <2>1 DEF PaidBy, SessionsAreBacked
  <2>4. Event(d) # "completed" => \A child \in Children : ~PaidBy(d, child)'
    <3>1. \A child \in Children : ~PaidBy(d, child)
      BY DEF AckedIsRecorded
    <3> QED
      BY <1>1, <3>1 DEF PaidBy, SessionsAreBacked, BackedRow
  <2>5. Event(d) = "completed" <=> (pay[d[1]] = "completed" \/ d \in Headless)
    BY DEF Event
  <2>6. \A e \in Deliveries : Listed(e) \subseteq Children
    BY DEF Listed
  <2> QED
    BY <1>1, <2>2, <2>3, <2>4, <2>5, <2>6 DEF AckedIsRecorded
<1> QED
  BY <1>2, <1>3, <1>4

LEMMA HookTables ==
    ASSUME Inv, NEW d \in Deliveries, VerifyWebhook(d) \/ HookStep(d)
    PROVE  HooksAreDecided' /\ SessionsAreBacked' /\ RowsAreBacked' /\ AckedIsRecorded'
<1> USE Parameters DEF Inv, TypeOK
<1>1. PICK state \in HookStates \ {"unsent"} : HookGoto(d, state)
  BY HookMoves
<1>2. pay[d[1]] \in Outcomes
  BY DEF VerifyWebhook, HookStep, ApplyCompleted, ApplyCompletedFails, ApplyFailed,
         ResolveWaiters, CommitWebhook, CommitWebhookFails, HooksAreDecided
<1>3. HooksAreDecided'
  BY <1>1, <1>2 DEF HookGoto, HooksAreDecided
<1>4. CASE hook[d] = "resolved" /\ Commit(d, OrderOf[d[1]])
           /\ (HookGoto(d, "acked") \/ HookGoto(d, "error"))
  BY <1>3, <1>4, CommitTables
<1>5. CASE ~CommitWebhook(d) /\ UNCHANGED <<rows, cancelTimes>>
  <2>1. /\ UNCHANGED <<rows, cancelTimes, pay>>
        /\ \A e \in Deliveries : Event(e)' = Event(e)
        /\ state # "acked"
        /\ hook[d] \notin {"acked", "error", "rejected"}
    BY <1>1, <1>5 DEF VerifyWebhook, HookStep, ApplyCompleted, ApplyCompletedFails, ApplyFailed,
         ResolveWaiters, CommitWebhookFails, HookGoto, dbVars, Event
  <2>2. RowsAreBacked'
    BY <2>1 DEF RowsAreBacked
  <2>3. AckedIsRecorded'
    BY <1>1, <2>1 DEF AckedIsRecorded, PaidBy, HookGoto
  <2>4. SessionsAreBacked'
    <3>1. CASE ApplyCompleted(d) \/ ApplyFailed(d)
      BY <3>1, ApplyBacked
    <3>2. CASE VerifyWebhook(d) \/ ApplyCompletedFails(d)
      BY <2>1, <3>2 DEF VerifyWebhook, ApplyCompletedFails, HookGoto, dbVars, SessionsAreBacked, BackedRow
    <3>3. CASE ResolveWaiters(d)
      BY <2>1, <3>3 DEF ResolveWaiters, HookGoto, dbVars, SessionsAreBacked, BackedRow
    <3>4. CASE Rollback(d) /\ HookGoto(d, "error")
      BY <2>1, <3>4 DEF Rollback, HookGoto, SessionsAreBacked, BackedRow
    <3>5. CASE hook[d] = "resolved" /\ Commit(d, OrderOf[d[1]]) /\ HookGoto(d, "error")
      BY <3>5, CommitTables
    <3> QED
      BY <1>5, <3>1, <3>2, <3>3, <3>4, <3>5 DEF HookStep, CommitWebhookFails
  <2> QED
    BY <1>3, <2>2, <2>3, <2>4
<1> QED
  <2>1. CASE CommitWebhook(d)
    BY <1>4, <2>1 DEF CommitWebhook
  <2>2. CASE CommitWebhookFails(d)
    BY <1>4, <1>5, <2>2 DEF CommitWebhookFails, CommitWebhook, HookGoto
  <2>3. CASE ~CommitWebhook(d) /\ ~CommitWebhookFails(d)
    <3>1. UNCHANGED <<rows, cancelTimes>>
      BY <2>3 DEF VerifyWebhook, HookStep, ApplyCompleted, ApplyCompletedFails, ApplyFailed,
         ResolveWaiters, dbVars
    <3> QED
      BY <1>5, <2>3, <3>1
  <2> QED
    BY <2>1, <2>2, <2>3

LEMMA PaymentServerInv ==
    ASSUME Inv, NEW c \in Confirms, PaymentServer(c)
    PROVE  Inv'
<1>1. PICK from \in {"requested", "open"}, to \in PayStates : ServerStep(c, from, to)
  BY DEF PaymentServer, PayStates
<1>2. /\ pay[c] \in {"requested", "open"}
      /\ pay' = [pay EXCEPT ![c] = to]
      /\ UNCHANGED <<dbVars, registryVars, pc, answer, hook>>
  BY <1>1 DEF ServerStep
<1>3. TypeOK'
  BY PaymentServerTypeOK DEF Inv
<1>4. \A k \in Confirms : pay'[k] = pay[k] \/ pay[k] \notin Outcomes
  BY <1>2 DEF Inv, TypeOK, Outcomes
<1>5. HooksAreDecided' /\ SessionsAreBacked' /\ RowsAreBacked' /\ AckedIsRecorded'
  BY <1>2, <1>4, FrameTables DEF dbVars
<1>7. \A k \in Confirms : Heard(k)' = Heard(k)
  BY <1>2, <1>4, HeardKept
<1>6. RendezvousInv'
  BY <1>2, <1>7, Parameters DEF Inv, TypeOK, RegistryTypeOK, registryVars, Outcomes, RendezvousInv,
     ResultsAreHeard, AnswersAreHeard, NoTraceYet, NoLostWakeup, LiveTokenKept, TokenRetired
<1> QED
  BY <1>3, <1>5, <1>6 DEF Inv, RendezvousInv

LEMMA CrashHeard ==
    ASSUME TypeOK, Crash
    PROVE  \A c \in Confirms : Heard(c)' = Heard(c)
<1>1. \A d \in Deliveries :
         /\ Event(d)' = Event(d)
         /\ hook'[d] \in {"unsent", "rejected"} <=> hook[d] \in {"unsent", "rejected"}
  BY DEF Crash, Event, TypeOK
<1> QED
  BY <1>1 DEF Heard

LEMMA CrashInv ==
    ASSUME Inv, Crash
    PROVE  Inv'
<1> USE Parameters DEF Inv
<1>1. TypeOK'
  BY CrashTypeOK
<1>2. HooksAreDecided'
  BY DEF Crash, HooksAreDecided, TypeOK
<1>3. SessionsAreBacked' /\ RowsAreBacked' /\ AckedIsRecorded'
  BY DEF Crash, SessionsAreBacked, BackedRow, RowsAreBacked, AckedIsRecorded, PaidBy, Event, TypeOK
<1>5. \A c \in Confirms : Heard(c)' = Heard(c)
  BY CrashHeard
<1>4. RendezvousInv'
  BY <1>5 DEF Crash, TypeOK, RegistryTypeOK, AuthHolders, Outcomes, ConfirmStates, RendezvousInv,
     ResultsAreHeard, AnswersAreHeard, NoTraceYet, NoLostWakeup, LiveTokenKept, TokenRetired
<1> QED
  BY <1>1, <1>2, <1>3, <1>4 DEF RendezvousInv

LEMMA StutterInv ==
    ASSUME Inv, UNCHANGED vars
    PROVE  Inv'
<1> USE DEF Inv, vars, dbVars, registryVars
<1>1. TypeOK'
  BY StutterTypeOK
<1>2. HooksAreDecided' /\ SessionsAreBacked' /\ RowsAreBacked' /\ AckedIsRecorded'
  BY DEF HooksAreDecided, SessionsAreBacked, BackedRow, RowsAreBacked, AckedIsRecorded, PaidBy, Event
<1>3. RendezvousInv'
  BY DEF Heard, Event, RendezvousInv, ResultsAreHeard, AnswersAreHeard, NoTraceYet, NoLostWakeup,
         LiveTokenKept, TokenRetired
<1> QED
  BY <1>1, <1>2, <1>3 DEF RendezvousInv

\* Every step keeps the invariant.
LEMMA NextInv == Inv /\ [Next]_vars => Inv'
<1> SUFFICES ASSUME Inv, [Next]_vars PROVE Inv'
  OBVIOUS
<1>1. ASSUME NEW c \in Confirms, Authenticate(c) \/ ConfirmStep(c) PROVE Inv'
  <2>1. TypeOK'
    BY <1>1, ConfirmTypeOK DEF Inv
  <2>2. HooksAreDecided' /\ SessionsAreBacked' /\ RowsAreBacked' /\ AckedIsRecorded'
    BY <1>1, ConfirmFrame, FrameTables DEF Outcomes
  <2>3. RendezvousInv'
    BY <1>1, ConfirmRendezvous
  <2> QED
    BY <2>1, <2>2, <2>3 DEF Inv, RendezvousInv
<1>2. ASSUME NEW d \in Deliveries, VerifyWebhook(d) \/ HookStep(d) PROVE Inv'
  <2>1. TypeOK'
    BY <1>2, HookTypeOK DEF Inv
  <2> QED
    BY <1>2, <2>1, HookTables, HookRendezvous DEF Inv, RendezvousInv
<1> QED
  BY <1>1, <1>2, PaymentServerInv, CrashInv, StutterInv DEF Next

-----------------------------------------------------------------------------
(* The theorems *)

(***************************************************************************)
(* Inv holds in every reachable state: types, the rendezvous, and the      *)
(* order tables, whatever crashes, timeouts and repeated webhooks do.      *)
(***************************************************************************)
THEOREM Invariance == Spec => []Inv
<1>1. Init => Inv
  BY InitInv
<1>2. Inv /\ [Next]_vars => Inv'
  BY NextInv
<1> QED
  BY <1>1, <1>2, PTL DEF Spec

\* All variables keep their types.
THEOREM TypeCorrect == Spec => []TypeOK
<1>1. Inv => TypeOK
  BY DEF Inv
<1> QED
  BY <1>1, Invariance, PTL

(***************************************************************************)
(* subscribe and resolve of WaiterRegistry lose no wakeup, in either order *)
(* and with any cleanup between them.                                      *)
(***************************************************************************)
THEOREM NoWakeupLost == Spec => []NoLostWakeup
<1>1. Inv => NoLostWakeup
  BY DEF Inv
<1> QED
  BY <1>1, Invariance, PTL

(***************************************************************************)
(* A callback token is there as long as its request is under way without a *)
(* result.                                                                 *)
(***************************************************************************)
THEOREM TokenLifetime == Spec => []LiveTokenKept
<1>1. Inv => LiveTokenKept
  BY DEF Inv
<1> QED
  BY <1>1, Invariance, PTL

(***************************************************************************)
(* A callback token is gone once the result of its webhook is stored.      *)
(***************************************************************************)
THEOREM TokenRetirement == Spec => []TokenRetired
<1>1. Inv => TokenRetired
  BY DEF Inv
<1> QED
  BY <1>1, Invariance, PTL

(***************************************************************************)
(* The committed rows of webhooks agree with the payment server's          *)
(* decisions, or with the default of a call without its event header.      *)
(***************************************************************************)
THEOREM TablesAreBacked == Spec => []RowsAreBacked
<1>1. Inv => RowsAreBacked
  BY DEF Inv
<1> QED
  BY <1>1, Invariance, PTL

(***************************************************************************)
(* A 200 to the payment server means that every child of the order has its *)
(* paid row; no order is half paid, and none paid by a call refused.       *)
(***************************************************************************)
THEOREM AcksAreRecorded == Spec => []AckedIsRecorded
<1>1. Inv => AckedIsRecorded
  BY DEF Inv
<1> QED
  BY <1>1, Invariance, PTL

-----------------------------------------------------------------------------
(* Settled orders stay closed *)

\* Steps that write no status row.
LEMMA TimesKept ==
    ASSUME TimesAreOrdered, UNCHANGED <<rows, clock>>,
           \A s \in Sessions : pending'[s] \subseteq pending[s]
    PROVE  TimesAreOrdered'
  BY DEF TimesAreOrdered

\* A session writes rows of the time given.
LEMMA TimesWritten ==
    ASSUME TypeOK, TimesAreOrdered, UNCHANGED rows, clock' >= Age,
           NEW s \in Sessions, NEW order, NEW children, NEW code, code # "ORDER_RECEIVED",
           NEW at \in Int, at >= Age - UtcLag,
           NEW setsCancelTime, Write(s, StatusRows(s, order, children, code, at), setsCancelTime)
    PROVE  TimesAreOrdered'
<1>1. \A r \in StatusRows(s, order, children, code, at) : r.code = code /\ r.at = at
  BY DEF StatusRows
<1>2. \A t \in Sessions : \A r \in pending'[t] :
        r \in pending[t] \/ r \in StatusRows(s, order, children, code, at)
  BY DEF Write, TypeOK
<1> QED
  BY <1>1, <1>2 DEF TimesAreOrdered

LEMMA ConfirmTimes ==
    ASSUME TypeOK, TimesAreOrdered, NEW c \in Confirms, Authenticate(c) \/ ConfirmStep(c)
    PROVE  TimesAreOrdered'
<1> USE Parameters
<1>1. clock \in Int /\ clock >= Age /\ clock - UtcLag \in Int /\ clock - UtcLag >= Age - UtcLag
      /\ clock >= Age - UtcLag
  BY PaymentParameters DEF TypeOK, TimesAreOrdered
<1>2. ASSUME NEW result, Answer(c, result) PROVE TimesAreOrdered'
  BY <1>2, TimesKept DEF Answer, Rollback, TypeOK
<1>3. ASSUME UNCHANGED dbVars PROVE TimesAreOrdered'
  BY <1>3, TimesKept DEF dbVars
<1>4. ASSUME CancelOrder(<<c, 0>>, OrderOf[c], Children, clock), UNCHANGED <<rows, clock>>
      PROVE  TimesAreOrdered'
  BY <1>1, <1>4, TimesWritten DEF CancelOrder
<1>5. CASE RequestPayment(c)
  <2>1. CASE Write(<<c, 0>>, StatusRows(<<c, 0>>, OrderOf[c], Listed(<<c, 0>>), "PAYMENT_REQUESTED", clock), FALSE)
             /\ UNCHANGED <<rows, clock>>
    BY <1>1, <2>1, TimesWritten
  <2> QED
    BY <1>2, <1>5, <2>1 DEF RequestPayment
<1>6. CASE Authenticate(c)
  BY <1>2, <1>3, <1>6 DEF Authenticate
<1>7. CASE CheckOrder(c)
  BY <1>2, <1>3, <1>4, <1>7 DEF CheckOrder
<1> QED
  BY <1>2, <1>3, <1>5, <1>6, <1>7
     DEF ConfirmStep, ReportExpired, PostFails, PostRejected, PostAcked, SubscribeToWebhook,
         Wake, WaitTimesOut

LEMMA HookTimes ==
    ASSUME TypeOK, TimesAreOrdered, NEW d \in Deliveries, VerifyWebhook(d) \/ HookStep(d)
    PROVE  TimesAreOrdered'
<1> USE Parameters
<1>1. ASSUME Tick
      PROVE  /\ clock' \in Int /\ clock' >= Age
             /\ clock' - UtcLag \in Int /\ clock' - UtcLag >= Age - UtcLag /\ clock' >= Age - UtcLag
  <2>1. clock \in Nat /\ clock >= Age /\ Age \in Nat /\ UtcLag \in Nat
    BY PaymentParameters DEF TypeOK, TimesAreOrdered
  <2>2. clock' = clock \/ clock' = clock + 1
    BY <1>1 DEF Tick
  <2> HIDE Parameters
  <2> QED
    BY <2>1, <2>2
<1>2. CASE ApplyCompleted(d)
  BY <1>1, <1>2, TimesWritten DEF ApplyCompleted
<1>3. CASE ApplyFailed(d)
  <2>1. ASSUME Tick, NEW done \in SUBSET Children, CancelOrder(d, OrderOf[d[1]], done, clock')
        PROVE  TimesAreOrdered'
    BY <1>1, <1>3, <2>1, TimesWritten DEF ApplyFailed, CancelOrder
  <2>2. CASE UNCHANGED <<pending, clock>>
    BY <1>3, <2>2, TimesKept DEF ApplyFailed
  <2> QED
    BY <1>3, <2>1, <2>2 DEF ApplyFailed
<1>4. CASE Commit(d, OrderOf[d[1]]) /\ UNCHANGED clock
  <2>1. rows' = rows \cup pending[d] /\ clock' = clock
    BY <1>4 DEF Commit
  <2>2. \A s \in Sessions : pending'[s] \subseteq pending[s]
    BY <1>4 DEF Commit, Rollback, TypeOK
  <2> QED
    BY <2>1, <2>2 DEF TimesAreOrdered
<1>5. CASE Rollback(d) /\ UNCHANGED <<rows, clock>>
  BY <1>5, TimesKept DEF Rollback, TypeOK
<1>6. ASSUME UNCHANGED dbVars PROVE TimesAreOrdered'
  BY <1>6, TimesKept DEF dbVars
<1> QED
  <2>1. CASE CommitWebhook(d) \/ CommitWebhookFails(d)
    BY <1>4, <1>5, <2>1 DEF CommitWebhook, CommitWebhookFails
  <2>2. CASE VerifyWebhook(d) \/ ApplyCompletedFails(d) \/ ResolveWaiters(d)
    BY <1>6, <2>2 DEF VerifyWebhook, ApplyCompletedFails, ResolveWaiters
  <2> QED
    BY <1>2, <1>3, <2>1, <2>2 DEF HookStep

LEMMA TimesInvariance == Spec => []TimesAreOrdered
<1>1. Init => TimesAreOrdered
  BY PaymentParameters DEF Init, TimesAreOrdered, StatusRows
<1>2. Inv /\ TimesAreOrdered /\ [Next]_vars => TimesAreOrdered'
  <2> SUFFICES ASSUME Inv, TimesAreOrdered, [Next]_vars PROVE TimesAreOrdered'
    OBVIOUS
  <2>1. TypeOK
    BY DEF Inv
  <2>2. ASSUME NEW c \in Confirms, PaymentServer(c) PROVE TimesAreOrdered'
    BY <2>2, TimesKept DEF PaymentServer, ServerStep, dbVars
  <2>3. CASE Crash
    BY <2>3, TimesKept DEF Crash
  <2>4. CASE UNCHANGED vars
    BY <2>4, TimesKept DEF vars, dbVars
  <2> QED
    BY <2>1, <2>2, <2>3, <2>4, ConfirmTimes, HookTimes DEF Next
<1> QED
  BY <1>1, <1>2, Invariance, PTL DEF Spec

\* Who passes the checks has read ORDER_RECEIVED as the latest row of every child found.
LEMMA ReceivedIsOpen ==
    ASSUME UtcLag < Age, Inv, TimesAreOrdered, NEW c \in Confirms,
           CheckOrder(c), pc'[c] = "checked"
    PROVE  ~Closed(OrderOf[c], Listed(<<c, 0>>))
<1> SUFFICES ASSUME NEW r \in rows, r.order = OrderOf[c], r.by[1] # Outside,
                    r.child \in Listed(<<c, 0>>)
             PROVE  FALSE
  BY DEF Closed
<1>1. r.child \in Children /\ r.at \in Int /\ \A q \in rows : q.at \in Int
  BY DEF Inv, TypeOK, Row
<1>2. PICK q \in Latest(OrderOf[c], r.child) : q.code = "ORDER_RECEIVED"
  <2>1. pc'[c] # "done" /\ pc'[c] # "expired"
    OBVIOUS
  <2>2. ~Answer(c, "error") /\ ~Goto(c, "expired")
    BY <2>1 DEF Answer, Goto, Inv, TypeOK
  <2> QED
    BY <1>1, <2>2 DEF CheckOrder
<1>3. q \in rows /\ r.at <= q.at
  BY <1>1, <1>2 DEF Latest
<1>4. q.at = 0 /\ r.at >= Age - UtcLag
  BY <1>2, <1>3 DEF TimesAreOrdered
<1> QED
  BY <1>1, <1>3, <1>4, PaymentParameters

(***************************************************************************)
(* An order that a webhook has paid or cancelled passes the checks of no   *)
(* later confirmation that looks up what was settled, whatever the ties    *)
(* among its rows' timestamps, provided it was older than utcnow()'s lag   *)
(* when it was first confirmed.                                            *)
(***************************************************************************)
THEOREM SettledOrdersStayClosed ==
    ASSUME UtcLag < Age
    PROVE  Spec => ClosedOrdersStayClosed
<1>1. ASSUME Inv, TimesAreOrdered, [Next]_vars, NEW c \in Confirms,
             pc[c] = "auth", pc'[c] = "checked"
      PROVE  ~Closed(OrderOf[c], Listed(<<c, 0>>))
  <2>1. CASE CheckOrder(c)
    BY <1>1, <2>1, ReceivedIsOpen
  <2>2. ASSUME NEW k \in Confirms, Authenticate(k) \/ ConfirmStep(k), k # c \/ ~CheckOrder(c)
        PROVE  FALSE
    BY <1>1, <2>2
       DEF Inv, TypeOK, Authenticate, ConfirmStep, CheckOrder, ReportExpired, RequestPayment,
           PostFails, PostRejected, PostAcked, SubscribeToWebhook, Wake, WaitTimesOut, Answer, Goto
  <2>3. ASSUME UNCHANGED pc PROVE FALSE
    BY <1>1, <2>3
  <2>4. CASE Crash
    BY <1>1, <2>4 DEF Crash
  <2>5. ASSUME NEW d \in Deliveries, VerifyWebhook(d) \/ HookStep(d) PROVE FALSE
    BY <2>3, <2>5
       DEF VerifyWebhook, HookStep, ApplyCompleted, ApplyCompletedFails, ApplyFailed,
           ResolveWaiters, CommitWebhook, CommitWebhookFails, HookGoto
  <2>6. ASSUME NEW k \in Confirms, PaymentServer(k) PROVE FALSE
    BY <2>3, <2>6 DEF PaymentServer, ServerStep
  <2> QED
    BY <1>1, <2>1, <2>2, <2>3, <2>4, <2>5, <2>6 DEF Next, vars
<1>2. Inv /\ TimesAreOrdered /\ [Next]_vars =>
        [\A c \in Confirms : pc[c] = "auth" /\ pc'[c] = "checked" =>
            ~Closed(OrderOf[c], Listed(<<c, 0>>))]_vars
  BY <1>1
<1> QED
  BY <1>2, Invariance, TimesInvariance, PTL DEF Spec, ClosedOrdersStayClosed

-----------------------------------------------------------------------------
(* Connections *)

\* Requests between authentication and answer are as many as auth connections at most.
AuthBounded == IsFiniteSet(AuthHolders) /\ Cardinality(AuthHolders) <= AuthPool

\* A request is authenticated only while a connection is free, and keeps no other's.
LEMMA AuthHoldersGrow ==
    ASSUME TypeOK, [Next]_vars
    PROVE  \/ AuthHolders' \subseteq AuthHolders
           \/ \E c \in Confirms : AuthFree /\ AuthHolders' = AuthHolders \cup {c}
<1> USE DEF AuthHolders, TypeOK
<1>1. ASSUME NEW c \in Confirms, Authenticate(c)
      PROVE  \/ AuthHolders' \subseteq AuthHolders
             \/ AuthFree /\ AuthHolders' = AuthHolders \cup {c}
  BY <1>1 DEF Authenticate, Answer, Goto
<1>2. ASSUME NEW c \in Confirms, ConfirmStep(c) PROVE AuthHolders' \subseteq AuthHolders
  BY <1>2 DEF ConfirmStep, CheckOrder, ReportExpired, RequestPayment, PostFails, PostRejected,
              PostAcked, SubscribeToWebhook, Wake, WaitTimesOut, Answer, Goto
<1>3. ASSUME NEW d \in Deliveries, VerifyWebhook(d) \/ HookStep(d)
      PROVE  AuthHolders' \subseteq AuthHolders
  BY <1>3 DEF VerifyWebhook, HookStep, ApplyCompleted, ApplyCompletedFails, ApplyFailed,
              ResolveWaiters, CommitWebhook, CommitWebhookFails, HookGoto
<1>4. ASSUME NEW c \in Confirms, PaymentServer(c) PROVE AuthHolders' \subseteq AuthHolders
  BY <1>4 DEF PaymentServer, ServerStep
<1>5. CASE Crash \/ UNCHANGED vars
  BY <1>5 DEF Crash, vars
<1> QED
  BY <1>1, <1>2, <1>3, <1>4, <1>5 DEF Next

LEMMA AuthBoundedKept == TypeOK /\ AuthBounded /\ [Next]_vars => AuthBounded'
<1> SUFFICES ASSUME TypeOK, AuthBounded, [Next]_vars PROVE AuthBounded'
  OBVIOUS
<1>1. Cardinality(AuthHolders) \in Nat
  BY FS_CardinalityType DEF AuthBounded
<1>2. CASE AuthHolders' \subseteq AuthHolders
  <2>1. /\ IsFiniteSet(AuthHolders') /\ Cardinality(AuthHolders') \in Nat
        /\ Cardinality(AuthHolders') <= Cardinality(AuthHolders)
    BY <1>2, FS_Subset, FS_CardinalityType DEF AuthBounded
  <2> QED
    BY <1>1, <2>1, PaymentParameters DEF AuthBounded
<1>3. ASSUME NEW c \in Confirms, AuthFree, AuthHolders' = AuthHolders \cup {c}
      PROVE  AuthBounded'
  <2>1. /\ IsFiniteSet(AuthHolders')
        /\ \/ Cardinality(AuthHolders') = Cardinality(AuthHolders)
           \/ Cardinality(AuthHolders') = Cardinality(AuthHolders) + 1
    BY <1>3, FS_AddElement DEF AuthBounded
  <2> QED
    BY <1>1, <1>3, <2>1, PaymentParameters DEF AuthBounded, AuthFree
<1> QED
  BY <1>2, <1>3, AuthHoldersGrow

(***************************************************************************)
(* Whatever the numbers of requests and webhook calls, the requests that   *)
(* hold both connections leave one of the service pool to the webhooks     *)
(* they wait for, provided the auth pool is the smaller one.               *)
(***************************************************************************)
THEOREM ConnectionsAreLeft ==
    ASSUME AuthPool < ServicePool
    PROVE  Spec => []ConfirmsLeaveServiceConnections
<1>1. Init => AuthBounded
  <2> SUFFICES ASSUME Init PROVE AuthBounded
    OBVIOUS
  <2>1. AuthHolders = {}
    BY DEF Init, AuthHolders
  <2> QED
    BY <2>1, FS_EmptySet, PaymentParameters DEF AuthBounded
<1>2. Spec => []AuthBounded
  BY <1>1, AuthBoundedKept, TypeCorrect, PTL DEF Spec
<1>3. AuthBounded => ConfirmsLeaveServiceConnections
  <2> SUFFICES ASSUME AuthBounded PROVE ConfirmsLeaveServiceConnections
    OBVIOUS
  <2>1. ServiceConfirms \subseteq AuthHolders
    BY DEF ServiceConfirms, AuthHolders
  <2>2. /\ Cardinality(ServiceConfirms) <= Cardinality(AuthHolders)
        /\ Cardinality(ServiceConfirms) \in Nat /\ Cardinality(AuthHolders) \in Nat
    BY <2>1, FS_Subset, FS_CardinalityType DEF AuthBounded
  <2> QED
    BY <2>2, PaymentParameters DEF AuthBounded, ConfirmsLeaveServiceConnections
<1> QED
  BY <1>2, <1>3, PTL

-----------------------------------------------------------------------------
(* Refinement of the contract *)

LEMMA InitContract == Init => Contract!Init
<1> SUFFICES ASSUME Init PROVE Contract!Init
  OBVIOUS
<1>1. \A r \in rows : r.code # "PAYMENT_COMPLETED"
  BY DEF Init, StatusRows
<1>2. Announced = [c \in Confirms |-> {}]
  BY DEF Init, Announced, Heard
<1> QED
  BY <1>1, <1>2 DEF Init, Contract!Init, Outcome, Told, Recorded, Outcomes

\* A request's answer is a Tell or a TellUndecided of the contract.
LEMMA AnswerContract ==
    ASSUME Inv, NEW c \in Confirms, NEW result \in Answers \ {"none"},
           Answer(c, result), pc[c] # "done", result \in Outcomes => result \in Heard(c)
    PROVE  Contract!Next
<1> USE DEF Inv, TypeOK, Answer
<1>1. answer[c] = "none" /\ Told[c] = "none"
  BY DEF AnswersAreHeard, Told
<1>2. Recorded' = Recorded /\ Outcome' = Outcome /\ answer' = [answer EXCEPT ![c] = result]
  BY DEF Recorded, Outcome
<1>3. Announced' = Announced
  BY HeardKept DEF Announced
<1>4. CASE result \in Outcomes
  <2>1. Told' = [Told EXCEPT ![c] = result]
    BY <1>2, <1>4 DEF Told
  <2>2. result \in Announced[c] /\ result \in {"completed", "failed"}
    BY <1>4 DEF Announced, Outcomes
  <2>3. Contract!Tell(c, result)
    BY <1>1, <1>2, <1>3, <2>1, <2>2 DEF Contract!Tell
  <2> QED
    BY <2>2, <2>3 DEF Contract!Next
<1>5. CASE result \notin Outcomes
  <2>1. Told' = [k \in Confirms |-> IF k \in {c} THEN "undecided" ELSE Told[k]]
    BY <1>2, <1>5 DEF Told, Outcomes
  <2>2. Contract!TellUndecided({c})
    BY <1>1, <1>2, <1>3, <2>1 DEF Contract!TellUndecided
  <2> QED
    BY <2>2 DEF Contract!Next
<1> QED
  BY <1>4, <1>5

LEMMA ConfirmContract ==
    ASSUME Inv, NEW c \in Confirms, Authenticate(c) \/ ConfirmStep(c)
    PROVE  Contract!Next \/ UNCHANGED <<Outcome, Announced, Told, Recorded>>
<1> USE DEF Inv, TypeOK
<1>1. ASSUME NEW result \in {"error", "expired", "pending"}, Answer(c, result), pc[c] # "done"
      PROVE  Contract!Next
  BY <1>1, AnswerContract DEF Answers, Outcomes
<1>2. CASE Wake(c)
  <2>1. future[c] \in Outcomes /\ future[c] \in Heard(c) /\ pc[c] # "done" /\ Answer(c, future[c])
    BY <1>2 DEF Wake, ResultsAreHeard, Outcomes
  <2> QED
    BY <2>1, AnswerContract DEF Answers, Outcomes
<1>3. ASSUME NEW state \in ConfirmStates, Goto(c, state), rows' = rows,
             pay' = pay \/ (pay' = [pay EXCEPT ![c] = "requested"] /\ pay[c] = "none")
      PROVE  UNCHANGED <<Outcome, Announced, Told, Recorded>>
  <2>1. Announced' = Announced
    <3>1. UNCHANGED hook /\ \A k \in Confirms : pay'[k] = pay[k] \/ pay[k] \notin Outcomes
      BY <1>3 DEF Goto, Outcomes
    <3> QED
      BY <3>1, HeardKept DEF Announced
  <2> QED
    BY <1>3, <2>1 DEF Goto, Outcome, Told, Recorded, Outcomes
<1>4. CASE Authenticate(c)
  BY <1>1, <1>3, <1>4 DEF Authenticate, dbVars, ConfirmStates
<1>5. CASE CheckOrder(c)
  BY <1>1, <1>3, <1>5 DEF CheckOrder, dbVars, ConfirmStates
<1>6. CASE ReportExpired(c) \/ PostFails(c) \/ PostRejected(c) \/ WaitTimesOut(c)
  BY <1>1, <1>6 DEF ReportExpired, PostFails, PostRejected, WaitTimesOut
<1>7. CASE RequestPayment(c)
  BY <1>1, <1>3, <1>7 DEF RequestPayment, NoTraceYet, ConfirmStates
<1>8. CASE PostAcked(c) \/ SubscribeToWebhook(c)
  BY <1>3, <1>8 DEF PostAcked, SubscribeToWebhook, dbVars, ConfirmStates
<1> QED
  BY <1>2, <1>4, <1>5, <1>6, <1>7, <1>8 DEF ConfirmStep

\* The commit of a webhook's session records a payment announced as completed.
LEMMA CommitContract ==
    ASSUME Inv, NEW d \in Deliveries, hook[d] = "resolved", Commit(d, OrderOf[d[1]]),
           UNCHANGED <<Outcome, Announced, Told>>
    PROVE  Contract!Next \/ UNCHANGED <<Outcome, Announced, Told, Recorded>>
<1> USE Parameters DEF Inv, TypeOK
<1>1. rows' = rows \cup pending[d]
  BY DEF Commit
<1>2. \A r \in pending[d] :
         r.by[1] = d[1] /\ (r.code = "PAYMENT_COMPLETED" => Event(d) = "completed")
  BY DEF SessionsAreBacked, BackedRow
<1>3. CASE \E r \in pending[d] : r.code = "PAYMENT_COMPLETED"
  <2>1. Recorded' = Recorded \cup {d[1]} /\ Event(d) = "completed"
    BY <1>1, <1>2, <1>3 DEF Recorded
  <2>2. "completed" \in Announced[d[1]]
    BY <2>1, EventIsHeard DEF Announced
  <2>3. Contract!Record(d[1])
    BY <2>1, <2>2 DEF Contract!Record
  <2> QED
    BY <2>3 DEF Contract!Next
<1>4. CASE ~ \E r \in pending[d] : r.code = "PAYMENT_COMPLETED"
  BY <1>1, <1>4 DEF Recorded
<1> QED
  BY <1>3, <1>4

(***************************************************************************)
(* A webhook call that passes its checks announces its event; its commit   *)
(* records; its other steps stutter.                                       *)
(***************************************************************************)
LEMMA HookContract ==
    ASSUME Inv, NEW d \in Deliveries, VerifyWebhook(d) \/ HookStep(d)
    PROVE  Contract!Next \/ UNCHANGED <<Outcome, Announced, Told, Recorded>>
<1> USE Parameters DEF Inv, TypeOK
<1>1. UNCHANGED <<Outcome, Told>>
  BY DEF VerifyWebhook, HookStep, ApplyCompleted, ApplyCompletedFails, ApplyFailed, ResolveWaiters,
         CommitWebhook, CommitWebhookFails, HookGoto, Outcome, Told
<1>2. PICK state \in HookStates \ {"unsent"} :
         HookGoto(d, state) /\ (hook[d] = "unsent" \/ state # "rejected")
  BY HookMoves
<1>3. CASE hook[d] = "unsent"
  <2>1. VerifyWebhook(d) /\ Recorded' = Recorded /\ pay[d[1]] \in Outcomes
    BY <1>3 DEF VerifyWebhook, HookStep, ApplyCompleted, ApplyCompletedFails, ApplyFailed,
         ResolveWaiters, CommitWebhook, CommitWebhookFails, dbVars, Recorded
  <2>2. CASE state = "rejected"
    <3>1. \A c \in Confirms : Heard(c)' = Heard(c)
      BY <1>2, <2>2, HeardByStep
    <3> QED
      BY <1>1, <2>1, <3>1 DEF Announced
  <2>3. CASE state # "rejected"
    <3>1. /\ \A c \in Confirms : c # d[1] => Heard(c)' = Heard(c)
          /\ Heard(d[1])' = Heard(d[1]) \cup {Event(d)}
      BY <1>2, <2>3, HeardByStep
    <3>2. Announced' = [Announced EXCEPT ![d[1]] = @ \cup {Event(d)}]
      BY <3>1 DEF Announced
    <3>3. /\ Outcome[d[1]] # "none"
          /\ Event(d) = Outcome[d[1]] \/ (d[1] \in {e[1] : e \in Headless} /\ Event(d) = "completed")
          /\ Event(d) \in {"completed", "failed"}
      BY <2>1 DEF Outcome, Outcomes, Event
    <3>4. Contract!Announce(d[1], Event(d))
      BY <1>1, <2>1, <3>2, <3>3 DEF Contract!Announce
    <3> QED
      BY <3>3, <3>4 DEF Contract!Next
  <2> QED
    BY <2>2, <2>3
<1>4. CASE hook[d] # "unsent"
  <2>1. HookStep(d) /\ hook[d] \in {"verified", "applied", "resolved"}
    BY <1>4 DEF VerifyWebhook, HookStep, ApplyCompleted, ApplyCompletedFails, ApplyFailed,
         ResolveWaiters, CommitWebhook, CommitWebhookFails
  <2>2. \A c \in Confirms : Heard(c)' = Heard(c)
    BY <1>2, <2>1, HeardByStep
  <2>3. Announced' = Announced
    BY <2>2 DEF Announced
  <2>4. CASE rows' = rows
    BY <1>1, <2>3, <2>4 DEF Recorded
  <2>5. CASE hook[d] = "resolved" /\ Commit(d, OrderOf[d[1]])
    BY <1>1, <2>3, <2>5, CommitContract
  <2> QED
    BY <2>1, <2>4, <2>5 DEF HookStep, ApplyCompleted, ApplyCompletedFails, ApplyFailed,
         ResolveWaiters, CommitWebhook, CommitWebhookFails, dbVars
<1> QED
  BY <1>3, <1>4

LEMMA PaymentServerContract ==
    ASSUME Inv, NEW c \in Confirms, PaymentServer(c)
    PROVE  Contract!Next \/ UNCHANGED <<Outcome, Announced, Told, Recorded>>
<1> USE DEF Inv, TypeOK
<1>1. PICK from \in {"requested", "open"}, to \in {"open", "refused"} \cup Outcomes :
         ServerStep(c, from, to)
  BY DEF PaymentServer
<1>2. /\ pay[c] \in {"requested", "open"} /\ pay' = [pay EXCEPT ![c] = to]
      /\ UNCHANGED <<Told, Recorded>>
  BY <1>1 DEF ServerStep, dbVars, Told, Recorded
<1>5. Announced' = Announced
  <2>1. UNCHANGED hook /\ \A k \in Confirms : pay'[k] = pay[k] \/ pay[k] \notin Outcomes
    BY <1>1, <1>2 DEF ServerStep, Outcomes
  <2> QED
    BY <2>1, HeardKept DEF Announced
<1>3. CASE to \in Outcomes
  <2>1. Outcome[c] = "none" /\ Outcome' = [Outcome EXCEPT ![c] = to]
    BY <1>2, <1>3 DEF Outcome, Outcomes
  <2> QED
    BY <1>2, <1>3, <1>5, <2>1 DEF Contract!Next, Contract!Decide, Outcomes
<1>4. CASE to \notin Outcomes
  BY <1>2, <1>4, <1>5 DEF Outcome, Outcomes
<1> QED
  BY <1>3, <1>4

\* A crash tells every client that is still waiting nothing definite.
LEMMA CrashContract ==
    ASSUME Inv, Crash
    PROVE  Contract!Next
<1> USE DEF Inv, TypeOK
<1>1. UNCHANGED <<Outcome, Recorded>>
  BY DEF Crash, Outcome, Recorded
<1>6. UNCHANGED Announced
  BY CrashHeard DEF Announced
<1>2. Told' = [c \in Confirms |-> IF c \in AuthHolders THEN "undecided" ELSE Told[c]]
  BY DEF Crash, Told, Outcomes
<1>3. \A c \in AuthHolders : Told[c] = "none"
  BY DEF AuthHolders, AnswersAreHeard, Told
<1>4. AuthHolders \in SUBSET Confirms
  BY DEF AuthHolders
<1>5. Contract!TellUndecided(AuthHolders)
  BY <1>1, <1>2, <1>3, <1>6 DEF Contract!TellUndecided
<1> QED
  BY <1>4, <1>5 DEF Contract!Next

(***************************************************************************)
(* Payment v2 implements PaymentContract: whatever is interleaved, lost,   *)
(* repeated or restarted, an answer that names a result names an announced *)
(* one, only payments announced as completed are recorded, and only a call *)
(* without its event header announces what was not decided.                *)
(***************************************************************************)
THEOREM Implementation == Spec => ImplementsContract
<1>1. Init => Contract!Init
  BY InitContract
<1>2. Inv /\ [Next]_vars => [Contract!Next]_(Contract!vars)
  <2> SUFFICES ASSUME Inv, [Next]_vars PROVE [Contract!Next]_(Contract!vars)
    OBVIOUS
  <2>1. CASE Next
    <3>1. Contract!Next \/ UNCHANGED <<Outcome, Announced, Told, Recorded>>
      BY <2>1, ConfirmContract, HookContract, PaymentServerContract, CrashContract DEF Next
    <3> QED
      BY <3>1 DEF Contract!vars
  <2>2. CASE UNCHANGED vars
    BY <2>2 DEF vars, dbVars, Contract!vars, Outcome, Announced, Heard, Event, Told, Recorded
  <2> QED
    BY <2>1, <2>2
<1> QED
  BY <1>1, <1>2, Invariance, PTL DEF Spec, ImplementsContract, Contract!Spec

=============================================================================
