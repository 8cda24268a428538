----------------------------- MODULE AppBooking -----------------------------
(***************************************************************************)
(* Booking in the Android app: the view model (ui/CustomerApp.kt), the     *)
(* repository that goes from queue to hold to draft to checkout and undoes *)
(* what a failure leaves (ui/CustomerModels.kt), and the checkout with its *)
(* stored state (data/TossCheckout.kt), in front of the holds and drafts   *)
(* of backend/booking-holds.js.  A request may be lost on its way, or its  *)
(* answer on the way back, a claim may lapse, another customer may be      *)
(* faster, the customer may leave the screen, and the app may be killed.   *)
(*                                                                         *)
(* An attempt is a BookingRequest with its six operation keys; a retry     *)
(* sends them again.  On the server the receipt of a hold or of a draft    *)
(* exists with its record and always says ACTIVE or PENDING_PAYMENT, what  *)
(* the record has become since or not (Receipts keeps receipts for a       *)
(* while; here they stay).  The queue is AdmissionQueue, here only its     *)
(* answers; the purchase is TossPurchase, here one step that fails or      *)
(* sells.  Seat maps, lists and messages are left out.                     *)
(***************************************************************************)
EXTENDS Naturals, Sequences

CONSTANTS
  MaxAttempts,   \* bound: bookings begun in the app
  Seat,
  Rival,         \* bound: the seats other customers are after
  Call,          \* bound: booking calls in flight at once
  MaxBack,       \* bound: how deep in screens the customer goes elsewhere
  MayLogIn,      \* bound: whether the customer logs in meanwhile
  NULL

VARIABLES
  seats, seatHolds, reservationDrafts, bought,              \* the server
  route, backStack, lastBookingAttempt, seatOf,             \* the view model
  bookingPending, calls, login, checkout, confirmedTicket,
  retryStore,                                               \* kept by the app
  outcome, uncertain, unguarded                             \* history

serverVars == <<seats, seatHolds, reservationDrafts, bought>>
screenVars == <<route, backStack, lastBookingAttempt, seatOf>>
historyVars == <<outcome, uncertain, unguarded>>
appVars == <<screenVars, bookingPending, calls, login, checkout, confirmedTicket, retryStore>>
vars == <<serverVars, appVars, historyVars>>

Attempt == 1..MaxAttempts

Free == [status |-> "ON_SALE", by |-> NULL]
Tab == [screen |-> "tab", attempt |-> NULL, progress |-> NULL]
Screen(s, a, p) == [screen |-> s, attempt |-> a, progress |-> p]
NoCall == [attempt |-> NULL, stage |-> NULL, current |-> FALSE, wanted |-> FALSE]
NoState == [seat |-> NULL, confirmed |-> FALSE]

Init ==
  /\ seats = [s \in Seat |-> Free]
  /\ seatHolds = [a \in Attempt |-> "NONE"]
  /\ reservationDrafts = [a \in Attempt |-> "NONE"]
  /\ bought = {}
  /\ route = Tab /\ backStack = <<>>
  /\ lastBookingAttempt = NULL
  /\ seatOf = [a \in Attempt |-> NULL]
  /\ bookingPending = FALSE
  /\ calls = [c \in Call |-> NoCall]
  /\ login = FALSE
  /\ checkout = NoCall /\ confirmedTicket = NULL
  /\ retryStore = NoState
  /\ outcome = [a \in Attempt |-> NULL]
  /\ uncertain = {} /\ unguarded = {}

-----------------------------------------------------------------------------
(* The server: what a request of attempt a does to its records.            *)

Unchanged == UNCHANGED <<seats, seatHolds, reservationDrafts>>

(* With the receipt of its key the answer is repeated. *)
HoldRefused(a) == seatHolds[a] = "NONE" /\ seats[seatOf[a]] # Free

createSeatHold(a) ==
  IF seatHolds[a] # "NONE" \/ HoldRefused(a) THEN Unchanged
  ELSE /\ seatHolds' = [seatHolds EXCEPT ![a] = "ACTIVE"]
       /\ seats' = [seats EXCEPT ![seatOf[a]] = [status |-> "HELD", by |-> a]]
       /\ UNCHANGED reservationDrafts

DraftRefused(a) == reservationDrafts[a] = "NONE" /\ seatHolds[a] # "ACTIVE"

createReservationDraft(a) ==
  IF reservationDrafts[a] # "NONE" \/ DraftRefused(a) THEN Unchanged
  ELSE /\ seatHolds' = [seatHolds EXCEPT ![a] = "CONVERTED"]
       /\ reservationDrafts' = [reservationDrafts EXCEPT ![a] = "PENDING_PAYMENT"]
       /\ seats' = [seats EXCEPT ![seatOf[a]] = [status |-> "RESERVED", by |-> a]]

(* The hold, or the draft, of a comes to an end and its seat is free. *)
EndHold(a, status) ==
  /\ seatHolds' = [seatHolds EXCEPT ![a] = status]
  /\ seats' = [seats EXCEPT ![seatOf[a]] = Free]
  /\ UNCHANGED reservationDrafts

EndDraft(a, status) ==
  /\ reservationDrafts' = [reservationDrafts EXCEPT ![a] = status]
  /\ seats' = [seats EXCEPT ![seatOf[a]] = Free]
  /\ UNCHANGED seatHolds

releaseSeatHold(a) == IF seatHolds[a] = "ACTIVE" THEN EndHold(a, "RELEASED") ELSE Unchanged

cancelReservationDraft(a) ==
  IF reservationDrafts[a] = "PENDING_PAYMENT" THEN EndDraft(a, "CANCELLED") ELSE Unchanged

(* An expired claim, by the time somebody looks. *)
HoldLapses(a) ==
  /\ seatHolds[a] = "ACTIVE" /\ EndHold(a, "EXPIRED")
  /\ UNCHANGED <<bought, appVars, historyVars>>

DraftLapses(a) ==
  /\ reservationDrafts[a] = "PENDING_PAYMENT" /\ EndDraft(a, "EXPIRED")
  /\ UNCHANGED <<bought, appVars, historyVars>>

(* Another customer takes a seat that is free. *)
SoldElsewhere(s) ==
  /\ s \in Rival /\ seats[s] = Free
  /\ seats' = [seats EXCEPT ![s] = [status |-> "ELSEWHERE", by |-> NULL]]
  /\ UNCHANGED <<seatHolds, reservationDrafts, bought, appVars, historyVars>>

(* The card purchase of a: free, held by a hold of this customer, or       *)
(* reserved by the draft that is paid for.                                 *)
Purchasable(a) ==
  LET seat == seats[seatOf[a]]
  IN \/ seat.status \in {"ON_SALE", "HELD"}
     \/ seat.status = "RESERVED" /\ seat.by = a

Sell(a) ==
  LET seat == seats[seatOf[a]]
  IN /\ bought' = bought \union {a}
     /\ seats' = [seats EXCEPT ![seatOf[a]] = [status |-> "OWNED", by |-> a]]
     /\ seatHolds' = IF seat.status = "HELD" THEN [seatHolds EXCEPT ![seat.by] = "CONVERTED"]
                     ELSE seatHolds
     /\ reservationDrafts' = IF seat.status = "RESERVED"
                             THEN [reservationDrafts EXCEPT ![a] = "CONFIRMED"]
                             ELSE reservationDrafts

-----------------------------------------------------------------------------
(* Screens *)

pushSnapshot == backStack' = Append(backStack, route)

(* The generation a call was started with is compared with that of now.    *)
Outdated == [c \in Call |-> [calls[c] EXCEPT !.current = FALSE, !.wanted = FALSE]]

(* The customer goes back: closeRoute moves the generation on when the     *)
(* flag says that a booking is pending, and only then.  What is turned     *)
(* away from is not wanted either way.                                     *)
Unwanted == [c \in Call |-> [calls[c] EXCEPT !.wanted = FALSE]]
LeftBehind == IF bookingPending THEN Outdated ELSE Unwanted

(* bookingPending is one flag for all that is pending: what ends clears it *)
(* under the calls that go on.                                             *)
Others(c) == {d \in Call \ {c} : calls[d] # NoCall}
Clear(c) == bookingPending' = FALSE /\ unguarded' = Others(c)

Pop ==
  /\ route' = backStack[Len(backStack)]
  /\ backStack' = SubSeq(backStack, 1, Len(backStack) - 1)

closeRoute ==
  /\ backStack # <<>>
  /\ Pop
  /\ calls' = LeftBehind
  /\ UNCHANGED <<serverVars, lastBookingAttempt, seatOf, bookingPending, login, checkout,
                 confirmedTicket, retryStore, historyVars>>

(* A tab, an event opened by a link, the way home after logging out. *)
navigate ==
  /\ route # Tab /\ Len(backStack) < MaxBack
  /\ pushSnapshot /\ route' = Tab
  /\ UNCHANGED <<serverVars, lastBookingAttempt, seatOf, bookingPending, calls, login,
                 checkout, confirmedTicket, retryStore, historyVars>>

openSeatMap ==
  /\ route = Tab
  /\ pushSnapshot /\ route' = Screen("seatmap", NULL, NULL)
  /\ lastBookingAttempt' = NULL
  /\ calls' = Outdated
  /\ UNCHANGED <<serverVars, seatOf, bookingPending, login, checkout, confirmedTicket,
                 retryStore, historyVars>>

(* The browser comes back with a code, on whatever screen the app is. *)
completeNativeLogin ==
  /\ MayLogIn /\ ~login
  /\ login' = TRUE /\ bookingPending' = TRUE
  /\ UNCHANGED <<serverVars, screenVars, calls, checkout, confirmedTicket, retryStore,
                 historyVars>>

LoginAnswered ==
  /\ login
  /\ login' = FALSE /\ Clear(NULL)
  /\ UNCHANGED <<serverVars, screenVars, calls, checkout, confirmedTicket, retryStore,
                 outcome, uncertain>>

-----------------------------------------------------------------------------
(* Booking *)

(* compareAndSet(bookingPending), then a new generation. *)
StartCall(a, stage) ==
  /\ ~bookingPending /\ bookingPending' = TRUE
  /\ \E c \in Call : calls[c] = NoCall
  /\ LET c == CHOOSE c \in Call : calls[c] = NoCall
     IN calls' = [Outdated EXCEPT ![c] =
          [attempt |-> a, stage |-> stage, current |-> TRUE, wanted |-> TRUE]]
  /\ UNCHANGED <<serverVars, route, backStack, login, checkout, confirmedTicket,
                 retryStore, historyVars>>

book(a, s) ==
  /\ route.screen = "seatmap"
  /\ seatOf[a] = NULL /\ \A b \in 1..(a - 1) : seatOf[b] # NULL
  /\ seatOf' = [seatOf EXCEPT ![a] = s]
  /\ lastBookingAttempt' = a
  /\ StartCall(a, "queue")

retryBooking ==
  /\ route.screen = "booking" /\ route.progress = "FAILED"
  /\ lastBookingAttempt # NULL
  /\ StartCall(lastBookingAttempt, "queue")
  /\ UNCHANGED <<lastBookingAttempt, seatOf>>

refreshBooking ==
  /\ route.screen = "booking" /\ route.progress = "WAITING"
  /\ lastBookingAttempt # NULL
  /\ StartCall(lastBookingAttempt, "refresh")
  /\ UNCHANGED <<lastBookingAttempt, seatOf>>

At(c, stage) == calls[c].stage = stage
Stage(c, stage) ==
  /\ calls' = [calls EXCEPT ![c].stage = stage]
  /\ UNCHANGED <<screenVars, bookingPending, outcome, unguarded>>

openBooking(a, progress) ==
  /\ route' = Screen("booking", a, progress)
  /\ IF route.screen = "booking" THEN UNCHANGED backStack ELSE pushSnapshot

(* The repository is done: only the current call opens its screen.         *)
EndCall(c, progress) ==
  LET a == calls[c].attempt
  IN /\ calls' = [calls EXCEPT ![c] = NoCall]
     /\ Clear(c)
     /\ outcome' = [outcome EXCEPT ![a] = IF @ \in {"HELD", "CONFIRMED"} \/ progress = "WAITING"
                                        THEN @ ELSE progress]
     /\ IF calls[c].current THEN openBooking(a, progress) ELSE UNCHANGED <<route, backStack>>
     /\ UNCHANGED <<lastBookingAttempt, seatOf>>

CallRest == UNCHANGED <<login, checkout, confirmedTicket>>

(* continueBookingAfterQueue: what the state of the entry leads to. *)
AfterQueue(c, status) ==
  CASE status = "ADMITTED" -> Stage(c, "hold")
    [] status = "WAITING" -> EndCall(c, "WAITING")
    [] status = "EXPIRED" -> EndCall(c, "FAILED")

enterQueue(c) ==
  /\ At(c, "queue")
  /\ \E status \in {"WAITING", "ADMITTED"} : AfterQueue(c, status)
  /\ CallRest /\ UNCHANGED <<serverVars, retryStore, uncertain>>

queueEntry(c) ==
  /\ At(c, "refresh")
  /\ \E status \in {"WAITING", "ADMITTED", "EXPIRED"} : AfterQueue(c, status)
  /\ CallRest /\ UNCHANGED <<serverVars, retryStore, uncertain>>

(* No answer, and nothing done; a hold or less needs no undoing. *)
NothingBegun(c) ==
  /\ calls[c].stage \in {"queue", "refresh", "hold"}
  /\ EndCall(c, "FAILED")
  /\ CallRest /\ UNCHANGED <<serverVars, retryStore, uncertain>>

SeatHeld(c) ==
  /\ At(c, "hold")
  /\ createSeatHold(calls[c].attempt)
  /\ IF HoldRefused(calls[c].attempt) THEN EndCall(c, "FAILED") ELSE Stage(c, "draft")
  /\ CallRest /\ UNCHANGED <<bought, retryStore, uncertain>>

HoldAnswerLost(c) ==
  /\ At(c, "hold") /\ ~HoldRefused(calls[c].attempt)
  /\ createSeatHold(calls[c].attempt)
  /\ uncertain' = uncertain \union {calls[c].attempt}
  /\ EndCall(c, "FAILED")
  /\ CallRest /\ UNCHANGED <<bought, retryStore>>

DraftMade(c) ==
  /\ At(c, "draft")
  /\ createReservationDraft(calls[c].attempt)
  /\ Stage(c, IF DraftRefused(calls[c].attempt) THEN "release" ELSE "prepare")
  /\ CallRest /\ UNCHANGED <<bought, retryStore, uncertain>>

DraftAnswerLost(c) ==
  /\ At(c, "draft") /\ ~DraftRefused(calls[c].attempt)
  /\ createReservationDraft(calls[c].attempt)
  /\ uncertain' = uncertain \union {calls[c].attempt}
  /\ Stage(c, "release")
  /\ CallRest /\ UNCHANGED <<bought, retryStore>>

DraftRequestLost(c) ==
  /\ At(c, "draft") /\ Stage(c, "release")
  /\ CallRest /\ UNCHANGED <<serverVars, retryStore, uncertain>>

prepare(c) ==
  /\ At(c, "prepare")
  /\ retryStore' = [seat |-> seatOf[calls[c].attempt], confirmed |-> FALSE]
  /\ EndCall(c, "HELD")
  /\ CallRest /\ UNCHANGED <<serverVars, uncertain>>

(* A slip: a checkout that cannot be prepared only gives the hold back. *)
PrepareFailsBare(c) ==
  /\ At(c, "prepare") /\ Stage(c, "release")
  /\ CallRest /\ UNCHANGED <<serverVars, retryStore, uncertain>>

PrepareFails(c) ==
  /\ At(c, "prepare") /\ Stage(c, "cancel")
  /\ CallRest /\ UNCHANGED <<serverVars, retryStore, uncertain>>

(* compensateBooking: the draft, then the hold, each as far as it goes. *)
CancelDraft(c) ==
  /\ At(c, "cancel")
  /\ cancelReservationDraft(calls[c].attempt)
  /\ Stage(c, "release")
  /\ CallRest /\ UNCHANGED <<bought, retryStore, uncertain>>

ReleaseHold(c) ==
  /\ At(c, "release")
  /\ releaseSeatHold(calls[c].attempt)
  /\ EndCall(c, "FAILED")
  /\ CallRest /\ UNCHANGED <<bought, retryStore, uncertain>>

CleanupFails(c) ==
  /\ calls[c].stage \in {"cancel", "release"}
  /\ uncertain' = uncertain \union {calls[c].attempt}
  /\ IF At(c, "cancel") THEN Stage(c, "release") ELSE EndCall(c, "FAILED")
  /\ CallRest /\ UNCHANGED <<serverVars, retryStore>>

BookingStep(c) ==
  \/ enterQueue(c) \/ queueEntry(c) \/ NothingBegun(c)
  \/ SeatHeld(c) \/ HoldAnswerLost(c)
  \/ DraftMade(c) \/ DraftAnswerLost(c) \/ DraftRequestLost(c)
  \/ prepare(c) \/ PrepareFails(c)
  \/ CancelDraft(c) \/ ReleaseHold(c) \/ CleanupFails(c)

-----------------------------------------------------------------------------
(* Checkout *)

continueToCheckout ==
  /\ route.screen = "booking" /\ route.progress = "HELD"
  /\ ~bookingPending
  /\ pushSnapshot /\ route' = Screen("checkout", route.attempt, NULL)
  /\ UNCHANGED <<serverVars, lastBookingAttempt, seatOf, bookingPending, calls, login,
                 checkout, confirmedTicket, retryStore, historyVars>>

(* The payment window answers: paid, or failed or cancelled. *)
completeCheckout(stage) ==
  /\ route.screen = "checkout" /\ ~bookingPending /\ checkout = NoCall
  /\ checkout' = [NoCall EXCEPT !.attempt = route.attempt, !.stage = stage]
  /\ bookingPending' = TRUE
  /\ UNCHANGED <<serverVars, screenVars, calls, login, confirmedTicket, retryStore,
                 historyVars>>

EndCheckout == checkout' = NoCall /\ Clear(NULL)

AlreadyConfirmed(a) == retryStore.confirmed /\ retryStore.seat = seatOf[a]

(* complete with a paid result: what is confirmed is not sent again.       *)
confirm ==
  LET a == checkout.attempt
  IN /\ checkout.stage = "paid"
     /\ IF AlreadyConfirmed(a)
        THEN /\ checkout' = [checkout EXCEPT !.stage = "confirmed"]
             /\ UNCHANGED <<serverVars, bookingPending, retryStore, unguarded>>
        ELSE IF a \in bought \/ Purchasable(a)
        THEN /\ IF a \in bought THEN Unchanged /\ UNCHANGED bought ELSE Sell(a)
             /\ retryStore' = [seat |-> seatOf[a], confirmed |-> TRUE]
             /\ checkout' = [checkout EXCEPT !.stage = "confirmed"]
             /\ UNCHANGED <<bookingPending, unguarded>>
        ELSE EndCheckout /\ UNCHANGED <<serverVars, retryStore>>
     /\ UNCHANGED <<screenVars, calls, login, confirmedTicket, outcome, uncertain>>

ConfirmAnswerLost ==
  LET a == checkout.attempt
  IN /\ checkout.stage = "paid" /\ ~AlreadyConfirmed(a)
     /\ a \notin bought /\ Purchasable(a)
     /\ Sell(a) /\ EndCheckout
     /\ UNCHANGED <<screenVars, calls, login, confirmedTicket, retryStore,
                    outcome, uncertain>>

(* The ticket in memory, or of the account. *)
ownedTicket ==
  LET a == checkout.attempt
  IN /\ checkout.stage = "confirmed"
     /\ EndCheckout
     /\ IF confirmedTicket # NULL \/ seats[seatOf[a]].status = "OWNED"
        THEN /\ outcome' = [outcome EXCEPT ![a] = "CONFIRMED"]
             /\ confirmedTicket' = IF confirmedTicket = NULL THEN seatOf[a] ELSE confirmedTicket
        ELSE UNCHANGED <<outcome, confirmedTicket>>
     /\ UNCHANGED <<serverVars, screenVars, calls, login, retryStore, uncertain>>

cancelDraft ==
  /\ checkout.stage = "given up"
  /\ cancelReservationDraft(checkout.attempt)
  /\ EndCheckout
  /\ UNCHANGED <<bought, screenVars, calls, login, confirmedTicket, retryStore,
                 outcome, uncertain>>

(* The request to confirm or to cancel, or the one for the ticket, is lost. *)
CheckoutLost ==
  /\ checkout # NoCall
  /\ EndCheckout
  /\ UNCHANGED <<serverVars, screenVars, calls, login, confirmedTicket, retryStore,
                 outcome, uncertain>>

-----------------------------------------------------------------------------
(* The process of the app dies; what it has stored remains.                *)
Kill ==
  /\ route' = Tab /\ backStack' = <<>> /\ lastBookingAttempt' = NULL
  /\ bookingPending' = FALSE /\ login' = FALSE
  /\ calls' = [c \in Call |-> NoCall] /\ checkout' = NoCall /\ confirmedTicket' = NULL
  /\ uncertain' = uncertain \union {calls[c].attempt : c \in {d \in Call : calls[d] # NoCall}}
  /\ unguarded' = {}
  /\ UNCHANGED <<serverVars, seatOf, retryStore, outcome>>

Next ==
  \/ \E a \in Attempt : HoldLapses(a) \/ DraftLapses(a)
  \/ \E s \in Seat : SoldElsewhere(s)
  \/ closeRoute \/ navigate \/ openSeatMap
  \/ completeNativeLogin \/ LoginAnswered
  \/ \E a \in Attempt, s \in Seat : book(a, s)
  \/ retryBooking \/ refreshBooking
  \/ \E c \in Call : BookingStep(c)
  \/ continueToCheckout \/ \E stage \in {"paid", "given up"} : completeCheckout(stage)
  \/ confirm \/ ConfirmAnswerLost \/ ownedTicket \/ cancelDraft \/ CheckoutLost
  \/ Kill

Spec == Init /\ [][Next]_vars

-----------------------------------------------------------------------------
(* Properties *)

Stages == {"queue", "refresh", "hold", "draft", "prepare", "cancel", "release",
           "paid", "given up", "confirmed"}
CallRecord == [attempt : Attempt \union {NULL}, stage : Stages \union {NULL},
               current : BOOLEAN, wanted : BOOLEAN]
Route == [screen : {"tab", "seatmap", "booking", "checkout"},
          attempt : Attempt \union {NULL},
          progress : {"WAITING", "HELD", "FAILED", NULL}]

TypeOK ==
  /\ seats \in [Seat -> [status : {"ON_SALE", "HELD", "RESERVED", "OWNED", "ELSEWHERE"},
                         by : Attempt \union {NULL}]]
  /\ seatHolds \in [Attempt -> {"NONE", "ACTIVE", "CONVERTED", "RELEASED", "EXPIRED"}]
  /\ reservationDrafts \in
       [Attempt -> {"NONE", "PENDING_PAYMENT", "CONFIRMED", "CANCELLED", "EXPIRED"}]
  /\ bought \subseteq Attempt
  /\ route \in Route
  /\ \A i \in DOMAIN backStack : backStack[i] \in Route
  /\ lastBookingAttempt \in Attempt \union {NULL}
  /\ seatOf \in [Attempt -> Seat \union {NULL}]
  /\ {bookingPending, login} \subseteq BOOLEAN
  /\ unguarded \subseteq Call
  /\ calls \in [Call -> CallRecord] /\ checkout \in CallRecord
  /\ confirmedTicket \in Seat \union {NULL}
  /\ retryStore \in [seat : Seat \union {NULL}, confirmed : BOOLEAN]
  /\ outcome \in [Attempt -> {NULL, "FAILED", "HELD", "CONFIRMED"}]
  /\ uncertain \subseteq Attempt

(* CustomerModels.kt:282-369: a booking that ends in a failure leaves no   *)
(* claim behind.  When no answer of its requests was lost and its clean-up *)
(* went through, neither its hold nor its draft is alive once it is over,  *)
(* whatever step failed and however often it was tried again.              *)
InFlight(a) == checkout.attempt = a \/ \E c \in Call : calls[c].attempt = a
FailuresLeaveNoClaim ==
  \A a \in Attempt :
    outcome[a] = "FAILED" /\ a \notin uncertain /\ ~InFlight(a) =>
      seatHolds[a] # "ACTIVE" /\ reservationDrafts[a] # "PENDING_PAYMENT"

(* TossCheckout.kt:143-152: the app says that a purchase is confirmed only *)
(* of a seat the customer has, also after a lost answer, another purchase  *)
(* in between, or a restart with the stored state of an earlier checkout.  *)
ConfirmedIsOwned ==
  \A a \in Attempt : outcome[a] = "CONFIRMED" => seats[seatOf[a]].status = "OWNED"

Publishes(c) ==
  /\ calls[c] # NoCall /\ calls'[c] = NoCall /\ calls[c].current
  /\ route'.screen = "booking"

(* CustomerApp.kt:320-341, 434-462: the answer of a booking does not open  *)
(* its screen when the customer has meanwhile gone back, opened a seat map *)
(* or begun another booking.  One exception, which the code has and        *)
(* CustomerAppViewModelTest.kt:746 (a late completion cannot reopen a      *)
(* route the user closed) does not allow: a login, or what else ended      *)
(* while the booking was in flight, has cleared the one pending flag       *)
(* (CustomerApp.kt:431, 612), the customer then goes back, closeRoute sees *)
(* nothing pending, and the late answer opens the screen again.            *)
OnlyWantedPublishes == \A c \in Call : Publishes(c) => calls[c].wanted \/ c \in unguarded

(* CustomerScreens.kt:1145-1151: the screen of a held seat, as the answer  *)
(* of a booking opens it, says that the server has confirmed the hold and  *)
(* the draft: the draft is not one that the app itself has cancelled.      *)
HeldScreensAreTrue ==
  [][\A c \in Call :
       Publishes(c) /\ route'.progress = "HELD" =>
         reservationDrafts[calls[c].attempt] # "CANCELLED"]_vars
=============================================================================
