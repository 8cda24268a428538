----------------------------- MODULE WebBooking -----------------------------
(***************************************************************************)
(* Choosing seats in the web shop: the chart that the venue published      *)
(* becomes sellable seats (src/src/lib/seat-charts/inventory.ts), these    *)
(* are bound to the tickets of the chosen performance                      *)
(* (bind-backend-seats.ts), and the customer selects among them            *)
(* (seat-selection.ts, src/src/components/ticketing/booking-panel.tsx).    *)
(* Chart and tickets are fetched side by side while the customer changes   *)
(* the performance.                                                        *)
(*                                                                         *)
(* A key stands for the price and the normalised label by which a place of *)
(* the chart finds its ticket, a place for its coordinates.  Amounts and   *)
(* drawing are left out.                                                   *)
(***************************************************************************)
EXTENDS Integers, Sequences, SequencesExt, FiniteSets, FiniteSetsExt, Lists

CONSTANTS
  Performance, Ticket, Key, Place,
  TicketsOf,            \* in [Performance -> SUBSET Ticket]
  KeyOf,                \* price and label of each ticket, in [Ticket -> Key]
  Charts,               \* charts that may be published, in Seq(Object);
                        \* every object of a chart has a member
  MAX_SELECTABLE_SEATS, \* ordinary seats of one order (2)
  NULL

(* An object of a chart: where it stands as a whole, and its seats.        *)
Member == [key : Key, place : Place]
Object == [type : {"row", "table", "booth", "area", "section"}, interactive : BOOLEAN,
           place : Place, members : Seq(Member), bookAsWhole : BOOLEAN,
           variableOccupancy : BOOLEAN, min : Nat, max : Nat]

VARIABLES
  chart,                \* the chart of the venue
  publishedChart,       \* whether the page has it: "loading", "ready" or "missing"
  performance,          \* performanceDateId of the chosen date and time
  seatMap,              \* available tickets of the performance, as fetched; NULL before
  fetches,              \* seat maps under way: of which performance, and mounted
  quantity, step, timerExpired,
  selected              \* selectedBackendTicketIds

vars == <<chart, publishedChart, performance, seatMap, fetches, quantity, step,
          timerExpired, selected>>

Fetch(p, mounted) == [performance |-> p, mounted |-> mounted]

Init ==
  /\ chart \in Charts
  /\ publishedChart = "loading"
  /\ performance \in Performance
  /\ seatMap = NULL
  /\ fetches = {Fetch(performance, TRUE)}
  /\ quantity = MAX_SELECTABLE_SEATS
  /\ step = "schedule"
  /\ timerExpired = FALSE
  /\ selected = <<>>

-----------------------------------------------------------------------------
(* Sellable seats *)

(* What an object offers: its seats one by one, or a table as one place.   *)
SellableSeats(object) ==
  LET asOne == object.type = "table" /\ (object.bookAsWhole \/ object.variableOccupancy)
  IN
  CASE ~object.interactive -> <<>>
    [] object.interactive /\ asOne ->
         <<[mode |-> IF object.variableOccupancy THEN "variable" ELSE "whole",
            keys |-> [i \in DOMAIN object.members |-> object.members[i].key],
            place |-> object.place, min |-> object.min, max |-> object.max]>>
    [] OTHER ->
         [i \in DOMAIN object.members |->
            [mode |-> "single", keys |-> <<object.members[i].key>>,
             place |-> object.members[i].place, min |-> 1, max |-> 1]]

chartToSellableSeats(c) == FlattenSeq([i \in DOMAIN c |-> SellableSeats(c[i])])

-----------------------------------------------------------------------------
(* Binding *)

Matches(p, taken, key) == {t \in TicketsOf[p] : KeyOf[t] = key /\ key \notin taken}

(* A place is bound when each of its keys is that of exactly one ticket    *)
(* not bound before; otherwise it is left out.                             *)
BindSeat(p, sofar, seat) ==
  LET found == [i \in DOMAIN seat.keys |-> Matches(p, sofar.taken, seat.keys[i])]
  IN IF \E i \in DOMAIN found : Cardinality(found[i]) # 1 THEN sofar
     ELSE [bound |-> Append(sofar.bound,
                       [mode |-> seat.mode, place |-> seat.place, min |-> seat.min,
                        max |-> seat.max,
                        tickets |-> [i \in DOMAIN found |-> CHOOSE t \in found[i] : TRUE]]),
           taken |-> sofar.taken \union Range(seat.keys)]

bindChartLayoutToBackendSeats(c, p) ==
  LET seats == chartToSellableSeats(c)
      sofar[n \in 0..Len(seats)] ==
        IF n = 0 THEN [bound |-> <<>>, taken |-> {}]
        ELSE BindSeat(p, sofar[n - 1], seats[n])
  IN sofar[Len(seats)].bound

AvailableOf(seat) == Only(seat.tickets, seatMap)

Least(seat) == IF seat.mode = "variable" THEN Max({1, seat.min}) ELSE Len(seat.tickets)

sold(seat) == Len(AvailableOf(seat)) < Least(seat)

AllBound == IF publishedChart = "ready" /\ seatMap # NULL
            THEN bindChartLayoutToBackendSeats(chart, performance) ELSE <<>>

BoundTickets(bound) == FlattenSeq([i \in DOMAIN bound |-> bound[i].tickets])

chartCoversAllBackendSeats(bound) ==
  LET tickets == BoundTickets(bound)
      places  == {bound[i].place : i \in DOMAIN bound}
  IN /\ seatMap # {}
     /\ Len(tickets) = Cardinality(TicketsOf[performance])
     /\ Cardinality(Range(tickets)) = Cardinality(TicketsOf[performance])
     /\ Cardinality(places) = Len(bound)

usePublishedChart ==
  publishedChart = "ready" /\ seatMap # NULL /\ chartCoversAllBackendSeats(AllBound)

boundChartSeats == {seat \in Range(AllBound) : ~sold(seat)}

-----------------------------------------------------------------------------
(* Selection *)

Chosen(seat) == Range(seat.tickets) \intersect Range(selected)

(* How many seats of a table a click takes. *)
CountOf(seat) ==
  LET there == Len(AvailableOf(seat))
      most  == IF seat.mode = "whole" THEN there ELSE Max({Least(seat), seat.max})
  IN Min({there, most, Max({Least(seat), quantity})})

(* A slip: a table stays selected when an ordinary seat is added. *)
OrdinaryAndGrouped == selected

Ordinary ==
  LET grouped == UNION {Range(seat.tickets) : seat \in
                   {s \in boundChartSeats : s.mode # "single" /\ Chosen(s) # {}}}
  IN Only(selected, Ticket \ grouped)

LastOf(s, n) == IF Len(s) > n THEN SubSeq(s, Len(s) - n + 1, Len(s)) ELSE s

(* A click on a selected place takes it out; a table replaces what is      *)
(* selected; an ordinary seat replaces tables, and the oldest ordinary     *)
(* seat when there are too many.                                           *)
toggleChartSeatSelection(seat) ==
  IF Chosen(seat) # {} THEN Only(selected, Ticket \ Range(seat.tickets))
  ELSE IF seat.mode # "single" THEN SubSeq(AvailableOf(seat), 1, CountOf(seat))
  ELSE LastOf(Append(Ordinary, seat.tickets[1]), Min({MAX_SELECTABLE_SEATS, quantity}))

-----------------------------------------------------------------------------
(* The page *)

MostOf(seat) ==
  CASE seat.mode = "single"   -> MAX_SELECTABLE_SEATS
    [] seat.mode = "whole"    -> Len(AvailableOf(seat))
    [] seat.mode = "variable" -> Min({seat.max, Len(AvailableOf(seat))})

maximumQuantity == Max({MAX_SELECTABLE_SEATS} \union {MostOf(s) : s \in boundChartSeats})

canChooseSeats == ~timerExpired /\ performance # NULL /\ usePublishedChart

canPay == ~timerExpired /\ selected # <<>> /\ Len(selected) <= quantity

(* Another date or time; NULL where the show has no such performance.      *)
ChoosePerformance(p) ==
  /\ step = "schedule" /\ p # performance
  /\ performance' = p
  /\ seatMap' = NULL
  /\ selected' = <<>>
  /\ fetches' = {Fetch(f.performance, FALSE) : f \in fetches}
                  \union (IF p = NULL THEN {} ELSE {Fetch(p, TRUE)})
  /\ UNCHANGED <<chart, publishedChart, quantity, step, timerExpired>>

SeatMapArrives(f) ==
  /\ f \in fetches
  /\ fetches' = fetches \ {f}
  /\ IF f.mounted THEN seatMap' \in SUBSET TicketsOf[f.performance]
                        ELSE UNCHANGED seatMap
  /\ UNCHANGED <<chart, publishedChart, performance, quantity, step, timerExpired, selected>>

SeatMapFails(f) ==
  /\ f \in fetches
  /\ fetches' = fetches \ {f}
  /\ seatMap' = IF f.mounted THEN NULL ELSE seatMap
  /\ UNCHANGED <<chart, publishedChart, performance, quantity, step, timerExpired, selected>>

ChartArrives ==
  /\ publishedChart = "loading"
  /\ publishedChart' \in {"ready", "missing"}
  /\ UNCHANGED <<chart, performance, seatMap, fetches, quantity, step, timerExpired, selected>>

setQuantity(n) ==
  /\ step = "schedule" /\ n \in 1..maximumQuantity
  /\ quantity' = n
  /\ UNCHANGED <<chart, publishedChart, performance, seatMap, fetches, step, timerExpired, selected>>

setStep(s) ==
  /\ s = "seats" => canChooseSeats
  /\ step' = s
  /\ UNCHANGED <<chart, publishedChart, performance, seatMap, fetches, quantity,
                 timerExpired, selected>>

(* A table also sets the quantity to its seats. *)
selectChartSeat(seat) ==
  /\ step = "seats" /\ usePublishedChart
  /\ selected' = toggleChartSeatSelection(seat)
  /\ quantity' = IF seat.mode # "single" /\ selected' # <<>> THEN Len(selected') ELSE quantity
  /\ UNCHANGED <<chart, publishedChart, performance, seatMap, fetches, step, timerExpired>>

TimerExpires ==
  /\ ~timerExpired
  /\ timerExpired' = TRUE
  /\ UNCHANGED <<chart, publishedChart, performance, seatMap, fetches, quantity, step, selected>>

Next ==
  \/ \E p \in Performance \union {NULL} : ChoosePerformance(p)
  \/ \E f \in fetches : SeatMapArrives(f) \/ SeatMapFails(f)
  \/ ChartArrives \/ TimerExpires
  \/ \E n \in 1..maximumQuantity : setQuantity(n)
  \/ \E s \in {"schedule", "seats"} : setStep(s)
  \/ \E seat \in boundChartSeats : selectChartSeat(seat)

Spec == Init /\ [][Next]_vars

-----------------------------------------------------------------------------
(* Properties *)

TypeOK ==
  /\ chart \in Charts
  /\ publishedChart \in {"loading", "ready", "missing"}
  /\ performance \in Performance \union {NULL}
  /\ seatMap = NULL \/ seatMap \subseteq Ticket
  /\ fetches \subseteq [performance : Performance, mounted : BOOLEAN]
  /\ quantity \in Nat \ {0}
  /\ step \in {"schedule", "seats"}
  /\ timerExpired \in BOOLEAN
  /\ selected \in Seq(Ticket)

(* booking-panel.tsx:72-100 and 191-196: whatever answers late, the        *)
(* tickets that go to the checkout belong to the performance that is       *)
(* shown, were available when its seats were fetched, and are counted once.*)
SelectionIsShown ==
  selected # <<>> =>
    /\ seatMap # NULL /\ performance # NULL
    /\ Range(selected) \subseteq seatMap \intersect TicketsOf[performance]
    /\ IsInjective(selected)

(* seat-selection.ts: after any clicks, also with a quantity chosen for    *)
(* something else, a table is selected whole or not at all, one of         *)
(* variable occupancy with at least its least number, no table together    *)
(* with anything else, and no more ordinary seats than an order may have.  *)
TablesStayWhole ==
  \A seat \in Range(AllBound) :
    seat.mode # "single" /\ Chosen(seat) # {} =>
      /\ Range(selected) \subseteq Range(seat.tickets)
      /\ Len(selected) >= Least(seat)
      /\ seat.mode = "variable" => Len(selected) <= Max({Least(seat), seat.max})

OrdinarySeatsAreFew ==
  (\A seat \in Range(AllBound) : seat.mode # "single" => Chosen(seat) = {})
    => Len(selected) <= MAX_SELECTABLE_SEATS

(* bind-backend-seats.ts:21-82: a chart is used only when its places stand *)
(* for the tickets one to one, also when places repeat a label, lie on     *)
(* each other or have no ticket, and in whatever order they are bound.     *)
EveryTicketHasItsPlace ==
  usePublishedChart =>
    /\ \A t \in TicketsOf[performance] :
         Cardinality({i \in DOMAIN AllBound : t \in Range(AllBound[i].tickets)}) = 1
    /\ \A i, j \in DOMAIN AllBound : AllBound[i].place = AllBound[j].place => i = j
    /\ \A t \in TicketsOf[performance] :
         \E i \in DOMAIN chart : /\ chart[i].interactive
                                 /\ \E m \in Range(chart[i].members) : m.key = KeyOf[t]
=============================================================================
