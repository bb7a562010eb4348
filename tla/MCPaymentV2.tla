---------------------------- MODULE MCPaymentV2 ----------------------------
(***************************************************************************)
(* Small instances of payment v2: who pays for which order.                *)
(***************************************************************************)
EXTENDS PaymentV2Properties

CONSTANTS c1, c2, c3, o1, o2

\* Every request pays for the one order, or c3 for a second one.
OneOrder == [c \in Confirms |-> o1]
TwoOrders == [c \in Confirms |-> IF c \in {c1, c2} THEN o1 ELSE o2]

\* The webhooks that are called: of c1 twice and of c2 once, or of c1 once.
FirstCalledTwice == {<<c1, 1>>, <<c1, 2>>, <<c2, 1>>}
FirstCalled == {<<c1, 1>>}

\* The second call for c1 comes without its event header.
SecondHeadless == {<<c1, 2>>}

\* That call misses the kok order, and c2's request the home shopping order.
TwoMiss == [s \in Sessions |-> IF s = <<c1, 2>> THEN {"kok"} ELSE IF s = <<c2, 0>> THEN {"hs"} ELSE {}]

NoneMiss == [s \in Sessions |-> {}]

=============================================================================
