----------------------------- MODULE MCServices -----------------------------
(* Bounds of the services, one or two of everything that can interfere.    *)
EXTENDS Services, TLC

CONSTANTS r1, r2, r3, k1, p1, p2, p3, s1, s2, za, zb, b1, b2

(* A key whose receipt is kept for ever and one whose receipt is dropped   *)
(* after a tick.                                                           *)
KeptAndDropped == "kept" :> NULL @@ "dropped" :> 1

(* Two orders of one user under one key, and a user who is not verified,   *)
(* with a key that reads the same.                                         *)
ZonePerTicket == s1 :> za @@ s2 :> zb
TwoOrdersUserOf == r1 :> b1 @@ r2 :> b1 @@ r3 :> b2
OneKey == [r \in {r1, r2, r3} |-> k1]
TwoOrdersPaymentOf == r1 :> p1 @@ r2 :> p2 @@ r3 :> p3
TwoOrdersTicketIds == r1 :> <<s1>> @@ r2 :> <<s2>> @@ r3 :> <<s1>>

(* A terminal where a code is read twice, with two flushes at once and a   *)
(* queue of two; and one with two gates, the second for another event, and *)
(* a queue of one.                                                         *)
OverlapOrGates ==
  "overlap" :> ("gate" :> {"code"}) @@ "gates" :> ("gate" :> {"code"} @@ "other" :> {})
TwoOrOneFlush == "overlap" :> {"first", "second"} @@ "gates" :> {"first"}
QueueOfTwoOrOne == "overlap" :> 2 @@ "gates" :> 1

(* Charts of one or two objects for a performance of three tickets, two of *)
(* which read the same label as those of the other performance.            *)
Member(key, place) == [key |-> key, place |-> place]
Row(members) ==
  [type |-> "row", interactive |-> TRUE, place |-> 4, members |-> members,
   bookAsWhole |-> FALSE, variableOccupancy |-> FALSE, min |-> 1, max |-> 1]
Table(members, whole, variable, min, max) ==
  [Row(members) EXCEPT !.type = "table", !.bookAsWhole = whole,
                       !.variableOccupancy = variable, !.min = min, !.max = max]
SeatA == Member("a", 1)
SeatB == Member("b", 2)
SeatC == Member("c", 3)
Objects ==
  {Row(<<SeatA, SeatB>>), Row(<<SeatA>>),
   [Row(<<SeatC>>) EXCEPT !.type = "booth"],
   [Row(<<Member("c", 2)>>) EXCEPT !.type = "area"],
   [Row(<<SeatA>>) EXCEPT !.interactive = FALSE],
   Table(<<SeatB, SeatC>>, TRUE, FALSE, 1, 1),
   Table(<<SeatB, SeatC>>, FALSE, TRUE, 1, 2),
   Table(<<SeatA, SeatB, SeatC>>, TRUE, TRUE, 2, 3)}
OneOrTwoObjects == UNION {[1..n -> Objects] : n \in 1..2}
ThreeAndTwoTickets == "fri" :> {1, 2, 3} @@ "sat" :> {4, 5}
SameLabels == <<"a", "b", "c", "a", "b">>

(* One booking whose calls overlap, which a login on the way makes         *)
(* possible; and two bookings of the same seat by a customer who walks     *)
(* about.                                                                  *)
OneOrTwoAttempts == "late" :> 1 @@ "walks" :> 2
NoneOrOneRival == "late" :> {} @@ "walks" :> {s1}
TwoOrOneCall == "late" :> {"first", "second"} @@ "walks" :> {"first"}
NoneOrTwoBack == "late" :> 0 @@ "walks" :> 2
LogInOrNot == "late" :> TRUE @@ "walks" :> FALSE
=============================================================================
