---------------------------- MODULE MCOrderStatus ----------------------------
(***************************************************************************)
(* Small instances of the status requests: two kok lines of one order and  *)
(* a home shopping line, and which of the requests are sent.               *)
(***************************************************************************)
EXTENDS OrderStatusProperties

CONSTANTS k1, k2, h1, o1, o2

TwoOrders == [l \in Lines |-> IF l = h1 THEN o2 ELSE o1]

\* Every kind of request, payment v2 for either order.
AllRequests ==
    {<<"confirm_line", k1>>, <<"confirm_order", k1>>, <<"confirm_hs", h1>>, <<"create_hs", h1>>,
     <<"patch", k1>>, <<"auto_kok", k1>>, <<"auto_hs", h1>>, <<"v1", h1>>,
     <<"v2", k1>>, <<"v2", h1>>, <<"status", k1>>, <<"status", h1>>,
     <<"list", k1>>}

\* A home shopping line, created, paid and sent on its way, and a payment v1.
FewRequests == {<<"v1", k1>>, <<"v2", h1>>, <<"auto_hs", h1>>, <<"create_hs", h1>>}

FirstPart == [r \in Requests |-> r[1]]
SecondPart == [r \in Requests |-> r[2]]
=============================================================================
