-------------------------- MODULE MCTossPurchase --------------------------
(* Group: an order of two tickets, its duplicate or retry, and a rival of  *)
(* another user who wants one of them.                                     *)
(* Repaid: the retry carries a second payment, as when a customer pays     *)
(* again in the widget while the first request still runs.                 *)
EXTENDS TossPurchase, TLC

CONSTANTS r1, r2, r3, u1, u2, k1, k2, p1, p2, p3, s1, s2, za, zb

ZonePerTicket == s1 :> za @@ s2 :> zb

GroupUserOf == r1 :> u1 @@ r2 :> u1 @@ r3 :> u2
GroupKeyOf == r1 :> k1 @@ r2 :> k1 @@ r3 :> k2
GroupPaymentOf == r1 :> p1 @@ r2 :> p1 @@ r3 :> p2
GroupTicketIds == r1 :> <<s1, s2>> @@ r2 :> <<s1, s2>> @@ r3 :> <<s1>>

RepaidUserOf == [r \in Request |-> u1]
RepaidKeyOf == [r \in Request |-> k1]
RepaidPaymentOf == r1 :> p1 @@ r2 :> p2
RepaidTicketIds == [r \in Request |-> <<s1>>]
=============================================================================
