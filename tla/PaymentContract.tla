-------------------------- MODULE PaymentContract --------------------------
(***************************************************************************)
(* What a payment confirmation promises, without saying how.  For every    *)
(* confirmation the parties hold a view of one payment: the payment server *)
(* decides its outcome, once; its calls announce a result, which is that   *)
(* outcome except where a call need not name it; the client is told        *)
(* something, once, and a definite answer was announced before; the order  *)
(* database records a payment only when "completed" was announced.         *)
(***************************************************************************)

CONSTANTS
    Confirms,     \* the confirmations, one payment each
    Unlabelled    \* those with a call that names no outcome: it means "completed"

VARIABLES
    outcome,    \* what the payment server decided
    announced,  \* the results its calls have announced
    told,       \* what the client was answered
    recorded    \* the confirmations whose payment is in the order database

vars == <<outcome, announced, told, recorded>>

Init ==
    /\ outcome = [c \in Confirms |-> "none"]
    /\ announced = [c \in Confirms |-> {}]
    /\ told = [c \in Confirms |-> "none"]
    /\ recorded = {}

Decide(c, result) ==
    /\ outcome[c] = "none"
    /\ result \in {"completed", "failed"}
    /\ outcome' = [outcome EXCEPT ![c] = result]
    /\ UNCHANGED <<announced, told, recorded>>

Announce(c, result) ==
    /\ outcome[c] # "none"
    /\ result = outcome[c] \/ (c \in Unlabelled /\ result = "completed")
    /\ announced' = [announced EXCEPT ![c] = @ \cup {result}]
    /\ UNCHANGED <<outcome, told, recorded>>

\* The client learns what was announced.
Tell(c, result) ==
    /\ told[c] = "none"
    /\ result \in announced[c]
    /\ told' = [told EXCEPT ![c] = result]
    /\ UNCHANGED <<outcome, announced, recorded>>

\* Clients are answered without learning an outcome, or lose their connection.
TellUndecided(cs) ==
    /\ \A c \in cs : told[c] = "none"
    /\ told' = [c \in Confirms |-> IF c \in cs THEN "undecided" ELSE told[c]]
    /\ UNCHANGED <<outcome, announced, recorded>>

Record(c) ==
    /\ "completed" \in announced[c]
    /\ recorded' = recorded \cup {c}
    /\ UNCHANGED <<outcome, announced, told>>

Next ==
    \/ \E c \in Confirms, result \in {"completed", "failed"} :
          Decide(c, result) \/ Announce(c, result) \/ Tell(c, result)
    \/ \E c \in Confirms : Record(c)
    \/ \E cs \in SUBSET Confirms : TellUndecided(cs)

Spec == Init /\ [][Next]_vars

=============================================================================
