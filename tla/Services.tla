------------------------------ MODULE Services ------------------------------
(***************************************************************************)
(* The services that share no record with each other, side by side: mobile *)
(* booking sessions, app attestation, device registration, the receipts of *)
(* retried mutations, the keys of card purchases, two pages of the web     *)
(* client, the gate scanner and the choice of seats, and booking in the    *)
(* Android app.  They never write each other's state, so that a behaviour  *)
(* of all of them is one behaviour of each; the model runs each alone, and *)
(* component says which.  Gate scanner and app come in several variants,   *)
(* each with bounds of its own, and component names the variant.           *)
(*                                                                         *)
(* Nothing is fixed here: MCServices gives the constants small values, the *)
(* proofs leave them open.                                                 *)
(***************************************************************************)
EXTENDS Naturals, Sequences, FiniteSets, Functions

CONSTANTS
  NULL,
  User, Seat, QUEUE_TTL, HOLD_TTL, HOLD_EXTENSION,      \* booking sessions
  MaxHolds, MaxExpiry, SessionHorizon,
  Device, ChallengeId, Request,                         \* attestation
  PROOF_TTL, VERIFY_TIMEOUT, AttestHorizon,
  Token, NONCE_TTL, MaxCounter, DeviceHorizon,          \* device registration
  Retry, Payload, Key, Retention, ReceiptHorizon,       \* retried mutations
  Nobody, Order, Buyer, Ticket, Payment, Zone, ZoneOf,  \* card purchases
  UserOf, KeyOf, PaymentOf, TicketIds, VerifiedBuyer, Prices, SERVICE_FEE_PER_SEAT,
  Terminal, Code, Scan, AdmitsAt, FlushesOf, QueueMaxOf,        \* gate terminals
  Performance, Listed, Label, Place, TicketsOf, LabelOf,        \* the web shop
  Charts, MAX_SELECTABLE_SEATS,
  App, AppSeat, AttemptsOf, RivalsOf, CallsOf, MaxBackOf, MayLogInOf    \* the app

Service == {"booking", "attest", "device", "receipts", "card", "shop"}

ASSUME ComponentsAssumption ==
  /\ Terminal # {} /\ App # {}
  /\ Service \intersect Terminal = {} /\ Service \intersect App = {}
  /\ Terminal \intersect App = {}

(* Times to live are positive; so is what is counted in. *)
ASSUME SessionAssumption ==
  /\ {QUEUE_TTL, HOLD_TTL, HOLD_EXTENSION} \subseteq Nat \ {0}
  /\ {MaxHolds, MaxExpiry, SessionHorizon} \subseteq Nat

ASSUME DeviceAssumption ==
  /\ Device # {} /\ ChallengeId # {}
  /\ NULL \notin Token
  /\ {PROOF_TTL, VERIFY_TIMEOUT, NONCE_TTL} \subseteq Nat \ {0}
  /\ {AttestHorizon, MaxCounter, DeviceHorizon} \subseteq Nat

(* A receipt is kept for some time or, where that is NULL, for ever; NULL  *)
(* is no number, no answer and no record.                                  *)
ASSUME ReceiptAssumption ==
  /\ NULL \notin Nat
  /\ \A k \in Key : Retention[k] = NULL \/ Retention[k] \in Nat
  /\ ReceiptHorizon \in Nat
  /\ NULL \notin [payload : Payload, response : Nat, createdAt : Nat]

(* An order is one user's, of a row of different tickets; requests with    *)
(* one payment are the same order.                                         *)
ASSUME PurchaseAssumption ==
  /\ UserOf \in [Order -> Buyer] /\ PaymentOf \in [Order -> Payment]
  /\ \A r \in Order : TicketIds[r] \in Seq(Ticket) \ {<<>>} /\ IsInjective(TicketIds[r])
  /\ \A r, q \in Order : PaymentOf[r] = PaymentOf[q] =>
       UserOf[r] = UserOf[q] /\ KeyOf[r] = KeyOf[q] /\ TicketIds[r] = TicketIds[q]
  /\ ZoneOf \in [Ticket -> Zone]
  /\ Nobody \notin Buyer /\ VerifiedBuyer \subseteq Buyer
  /\ Prices \subseteq Nat \ {0} /\ SERVICE_FEE_PER_SEAT \in Nat

ASSUME TerminalAssumption ==
  /\ NULL \notin {"accepted", "already-used", "rejected", "refused"}
  /\ \A t \in Terminal : /\ NULL \notin DOMAIN AdmitsAt[t]
                         /\ QueueMaxOf[t] \in Nat

VARIABLES
  component,
  bookingNow, tickets, seatHolds, bookingQueues, sessionDrafts, seen,
  attestNow, challenges, trustedDevices, requests,
  deviceNow, deviceChallenges, device,
  receiptNow, db, disk, saves, retries,
  cardTickets, faceValue, transactions, refunds, cardDisk, phase,
  approvedAmount, captured,
  gates, usedBy, expired, storedToken, queue, gateToken, lastPayload, scans, flushes, told,
  chart, publishedChart, performance, seatMap, fetches, quantity, step, timerExpired, selected,
  appSeats, appHolds, appDrafts, bought, route, backStack, lastBookingAttempt, seatOf,
  bookingPending, calls, login, checkout, confirmedTicket, retryStore,
  outcome, uncertain, unguarded

bookingVars == <<bookingNow, tickets, seatHolds, bookingQueues, sessionDrafts, seen>>
attestVars == <<attestNow, challenges, trustedDevices, requests>>
deviceVars == <<deviceNow, deviceChallenges, device>>
receiptVars == <<receiptNow, db, disk, saves, retries>>
cardVars == <<cardTickets, faceValue, transactions, refunds, cardDisk, phase,
              approvedAmount, captured>>
gateVars == <<gates, usedBy, expired, storedToken, queue, gateToken, lastPayload,
              scans, flushes, told>>
shopVars == <<chart, publishedChart, performance, seatMap, fetches, quantity, step,
              timerExpired, selected>>
appVars == <<appSeats, appHolds, appDrafts, bought, route, backStack, lastBookingAttempt,
             seatOf, bookingPending, calls, login, checkout, confirmedTicket, retryStore,
             outcome, uncertain, unguarded>>
webVars == <<gateVars, shopVars, appVars>>
vars == <<component, bookingVars, attestVars, deviceVars, receiptVars, cardVars, webVars>>

-----------------------------------------------------------------------------
Booking == INSTANCE BookingSession WITH now <- bookingNow, Horizon <- SessionHorizon

Attest == INSTANCE AppAttest WITH
  now <- attestNow, CHALLENGE_TTL <- PROOF_TTL, Horizon <- AttestHorizon

Registration == INSTANCE DeviceRegistration WITH
  now <- deviceNow, CHALLENGE_TTL <- NONCE_TTL, Horizon <- DeviceHorizon

Retries == INSTANCE Receipts WITH
  now <- receiptNow, requests <- retries, Request <- Retry,
  FOREVER <- NULL, Horizon <- ReceiptHorizon

Card == INSTANCE TossPurchase WITH
  tickets <- cardTickets, disk <- cardDisk, Request <- Order, User <- Buyer,
  Verified <- VerifiedBuyer

Scanner(t) == INSTANCE GateScanner WITH
  Gate <- DOMAIN AdmitsAt[t], Admits <- AdmitsAt[t], Flush <- FlushesOf[t],
  GATE_QUEUE_MAX <- QueueMaxOf[t]

Shop == INSTANCE WebBooking WITH Ticket <- Listed, Key <- Label, KeyOf <- LabelOf

Android(a) == INSTANCE AppBooking WITH
  seats <- appSeats, seatHolds <- appHolds, reservationDrafts <- appDrafts,
  Seat <- AppSeat, MaxAttempts <- AttemptsOf[a], Rival <- RivalsOf[a],
  Call <- CallsOf[a], MaxBack <- MaxBackOf[a], MayLogIn <- MayLogInOf[a]

(* A chart is one of objects with seats, NULL no performance; every        *)
(* performance sells finitely many tickets, each with its label.           *)
ASSUME ShopAssumption ==
  /\ NULL \notin Performance
  /\ TicketsOf \in [Performance -> SUBSET Listed] /\ LabelOf \in [Listed -> Label]
  /\ \A p \in Performance : IsFiniteSet(TicketsOf[p])
  /\ Charts # {} /\ Charts \subseteq Seq(Shop!Object)
  /\ MAX_SELECTABLE_SEATS \in Nat \ {0}

(* NULL is no seat, no call, no stage of one and no outcome of an attempt. *)
ASSUME AppAssumption ==
  /\ NULL \notin AppSeat \union {"FAILED", "HELD", "CONFIRMED"}
  /\ \A a \in App : /\ AttemptsOf[a] \in Nat
                    /\ NULL \notin CallsOf[a] \union Android(a)!Stages

-----------------------------------------------------------------------------
(* The variant that runs, and some variant when another component does.    *)
RunOf(variants) == IF component \in variants THEN component ELSE CHOOSE v \in variants : TRUE

Init ==
  /\ component \in Service \union Terminal \union App
  /\ Booking!Init /\ Attest!Init /\ Registration!Init /\ Retries!Init /\ Card!Init
  /\ \E t \in Terminal : t = RunOf(Terminal) /\ Scanner(t)!Init
  /\ Shop!Init
  /\ \E a \in App : a = RunOf(App) /\ Android(a)!Init
  /\ component # "shop" => chart = (CHOOSE c \in Charts : TRUE)
                           /\ performance = (CHOOSE p \in Performance : TRUE)

Next ==
  \/ /\ component = "booking" /\ Booking!Next
     /\ UNCHANGED <<component, attestVars, deviceVars, receiptVars, cardVars, webVars>>
  \/ /\ component = "attest" /\ Attest!Next
     /\ UNCHANGED <<component, bookingVars, deviceVars, receiptVars, cardVars, webVars>>
  \/ /\ component = "device" /\ Registration!Next
     /\ UNCHANGED <<component, bookingVars, attestVars, receiptVars, cardVars, webVars>>
  \/ /\ component = "receipts" /\ Retries!Next
     /\ UNCHANGED <<component, bookingVars, attestVars, deviceVars, cardVars, webVars>>
  \/ /\ component = "card" /\ Card!Next
     /\ UNCHANGED <<component, bookingVars, attestVars, deviceVars, receiptVars, webVars>>
  \/ \E t \in Terminal :
       /\ component = t /\ Scanner(t)!Next
       /\ UNCHANGED <<component, bookingVars, attestVars, deviceVars, receiptVars, cardVars,
                      shopVars, appVars>>
  \/ /\ component = "shop" /\ Shop!Next
     /\ UNCHANGED <<component, bookingVars, attestVars, deviceVars, receiptVars, cardVars,
                    gateVars, appVars>>
  \/ \E a \in App :
       /\ component = a /\ Android(a)!Next
       /\ UNCHANGED <<component, bookingVars, attestVars, deviceVars, receiptVars, cardVars,
                      gateVars, shopVars>>

Spec == Init /\ [][Next]_vars

-----------------------------------------------------------------------------
(* The records of every service keep their shape.                          *)
TypeOK ==
  /\ component = "booking" => Booking!TypeOK
  /\ component = "attest" => Attest!TypeOK
  /\ component = "device" => Registration!TypeOK
  /\ component = "receipts" => Retries!TypeOK
  /\ component = "card" => Card!TypeOK
  /\ \A t \in Terminal : component = t => Scanner(t)!TypeOK
  /\ component = "shop" => Shop!TypeOK
  /\ \A a \in App : component = a => Android(a)!TypeOK

(* backend/booking-session.js:146: the seat revision a client sends with   *)
(* its hold stands for the seats it was shown; booking-session.js:11 and   *)
(* booking-holds.js:140: two modules write the same holds, and neither     *)
(* revives or prolongs one that ended.                                     *)
SessionHoldsAreSound ==
  /\ []Booking!RevisionGuardsViews
  /\ Booking!EndedHoldsStayEnded

(* backend/app-attest.js:85: a challenge is checked before the verifier is *)
(* awaited and consumed after it; all its uses overlap.                    *)
(* backend/admission-devices.js:73 and device-registration.js: admission   *)
(* codes go to devices trusted at that moment, and nothing of a revoked    *)
(* device's earlier life comes back when it is trusted again.              *)
DevicesAreProven ==
  /\ []Attest!UsesOfAChallengeOverlap
  /\ Attest!CodesGoToTrustedDevices
  /\ Registration!RevocationClearsTheDevice

(* backend/idempotent-mutation.js:14: a mutation that is sent again takes  *)
(* effect once per time of retention, and its answers agree.               *)
RetriesAreSafe == Retries!EffectsAreSpaced /\ Retries!AnswersAgree

(* backend/commerce.js: a key of a user buys one order with one payment.   *)
OnePurchasePerKey == Card!OnePurchasePerKey

(* src/src/components/gate/gate-scanner-panel.tsx:94-211: whatever answers *)
(* are lost and however flushes and scans overlap, a code is accepted once *)
(* and its scans wait in the queue once.                                   *)
GateScansCountOnce ==
  \A t \in Terminal :
    component = t => Scanner(t)!AcceptedOnce /\ Scanner(t)!QueueHoldsScansOnce

(* src/src/components/ticketing/booking-panel.tsx:72-211: the seats a      *)
(* customer takes to the checkout are those on the screen, whatever        *)
(* answers late, tables go whole and by themselves, and the chart is shown *)
(* only when it has one place for every ticket.                            *)
ShopSelectsSeats ==
  component = "shop" =>
    /\ Shop!SelectionIsShown
    /\ Shop!TablesStayWhole
    /\ Shop!OrdinarySeatsAreFew
    /\ Shop!EveryTicketHasItsPlace

(* CustomerApp.kt, CustomerModels.kt, TossCheckout.kt of the Android app:  *)
(* a booking that fails leaves neither hold nor draft, whatever step       *)
(* failed; the app confirms only what the customer owns; and an answer     *)
(* opens no screen the customer has turned away from, except when a login  *)
(* or another operation has cleared the pending flag under its call: then  *)
(* the screen does open again (CustomerApp.kt:431, 612), which             *)
(* CustomerAppViewModelTest.kt:746 says cannot be.                         *)
AppBookingsAreSound ==
  /\ [](\A a \in App : component = a =>
          Android(a)!FailuresLeaveNoClaim /\ Android(a)!ConfirmedIsOwned)
  /\ [][\A a \in App : component = a => Android(a)!OnlyWantedPublishes]_vars
=============================================================================
