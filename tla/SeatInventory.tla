--------------------------- MODULE SeatInventory ---------------------------
(***************************************************************************)
(* The seats of one event on their way to a buyer: seat holds and          *)
(* reservation drafts (backend/booking-holds.js), primary purchases        *)
(* (backend/commerce.js), the operator's inventory switches                *)
(* (backend/admin.js) and group-booking approval                           *)
(* (backend/group-booking.js), all writing the same ticket records.        *)
(*                                                                         *)
(* Every handler here runs synchronously, so each is one action; what      *)
(* interleaves is the handlers of different users and the clock, which no  *)
(* handler watches: a claim past its time stays in the records until some  *)
(* handler happens to look at it.  A request that throws without writing   *)
(* anything is a stuttering step and has no disjunct of its own.           *)
(***************************************************************************)
EXTENDS Naturals, FiniteSets

CONSTANTS
  Seat, User, HoldId, DraftId,
  Performance,          \* the dates of the event
  PerformanceOf,        \* the performanceDateId of each ticket
  NULL,
  HOLD_TTL, HOLD_EXTENSION, HOLD_MAX_EXTENSIONS, DRAFT_TTL,
  MAX_HOLD_SEATS, MAX_GROUP_PURCHASE_SEATS,
  Horizon               \* bound: where the clock of the model stops

(* How long one user can keep a seat without paying, from hold to draft. *)
LongestClaim == HOLD_TTL + HOLD_MAX_EXTENSIONS * HOLD_EXTENSION + DRAFT_TTL

ASSUME ConstantsAssumption ==
  /\ PerformanceOf \in [Seat -> Performance]
  /\ NULL \notin User \union HoldId \union DraftId
  /\ {HOLD_TTL, HOLD_EXTENSION, DRAFT_TTL, MAX_HOLD_SEATS,
      MAX_GROUP_PURCHASE_SEATS} \subseteq Nat \ {0}
  /\ {HOLD_MAX_EXTENSIONS, Horizon} \subseteq Nat

VARIABLES
  now,                  \* currentTimeMs()
  bookable,             \* isEventBookable(event)
  tickets,              \* db.tickets, by seat
  seatHolds,            \* db.seatHolds, by id
  reservationDrafts     \* db.reservationDrafts, by id

vars == <<now, bookable, tickets, seatHolds, reservationDrafts>>

TicketStatus == {"ON_SALE", "ADMIN_HOLD", "HELD", "RESERVED", "OWNED"}
HoldStatus == {"NONE", "ACTIVE", "EXPIRED", "RELEASED", "CONVERTED"}
DraftStatus == {"NONE", "PENDING_PAYMENT", "EXPIRED", "CANCELLED", "CONFIRMED"}

Ticket ==
  [status : TicketStatus, ownerId : User \union {NULL},
   heldBy : HoldId \union {NULL}, holdExpiresAt : Nat,
   reservationId : DraftId \union {NULL}, reservationExpiresAt : Nat]
Hold ==
  [status : HoldStatus, userId : User \union {NULL}, ticketIds : SUBSET Seat,
   createdAt : Nat, expiresAt : Nat, extensionsUsed : 0..HOLD_MAX_EXTENSIONS]
Draft ==
  [status : DraftStatus, userId : User \union {NULL}, holdId : HoldId \union {NULL},
   ticketIds : SUBSET Seat, expiresAt : Nat]

(* A new ticket; an expiry that the code leaves null is 0, as it is read   *)
(* only together with the claim it belongs to.                             *)
OnSale ==
  [status |-> "ON_SALE", ownerId |-> NULL, heldBy |-> NULL, holdExpiresAt |-> 0,
   reservationId |-> NULL, reservationExpiresAt |-> 0]
NoHold ==
  [status |-> "NONE", userId |-> NULL, ticketIds |-> {},
   createdAt |-> 0, expiresAt |-> 0, extensionsUsed |-> 0]
NoDraft ==
  [status |-> "NONE", userId |-> NULL, holdId |-> NULL, ticketIds |-> {}, expiresAt |-> 0]

Init ==
  /\ now = 0
  /\ bookable \in BOOLEAN
  /\ tickets = [s \in Seat |-> OnSale]
  /\ seatHolds = [h \in HoldId |-> NoHold]
  /\ reservationDrafts = [d \in DraftId |-> NoDraft]

Tick ==
  /\ now < Horizon
  /\ now' = now + 1
  /\ UNCHANGED <<bookable, tickets, seatHolds, reservationDrafts>>

SamePerformance(S) == \E p \in Performance : \A s \in S : PerformanceOf[s] = p

-----------------------------------------------------------------------------
(* Seat holds *)

DueHold(h) == seatHolds[h].status = "ACTIVE" /\ seatHolds[h].expiresAt <= now

(* The tickets once every hold of H has let go of the seats it lists. *)
releaseHeldTickets(H) ==
  [s \in Seat |->
     IF /\ tickets[s].status = "HELD"
        /\ \E h \in H : tickets[s].heldBy = h /\ s \in seatHolds[h].ticketIds
     THEN [tickets[s] EXCEPT !.status = "ON_SALE", !.heldBy = NULL, !.holdExpiresAt = 0]
     ELSE tickets[s]]

EndHolds(H, status) ==
  [h \in HoldId |-> IF h \in H THEN [seatHolds[h] EXCEPT !.status = status] ELSE seatHolds[h]]

(* A slip: the hold is expired and its seats are forgotten. *)
ReconcileHoldRecordOnly(h) ==
  /\ DueHold(h)
  /\ seatHolds' = EndHolds({h}, "EXPIRED")
  /\ UNCHANGED <<now, bookable, tickets, reservationDrafts>>

(* reconcileHold, on a hold that is past its time *)
ReconcileHold(h) ==
  /\ DueHold(h)
  /\ tickets' = releaseHeldTickets({h})
  /\ seatHolds' = EndHolds({h}, "EXPIRED")
  /\ UNCHANGED <<now, bookable, reservationDrafts>>

(* A slip: the hold is not reconciled before it is used. *)
OwnActiveHoldUnreconciled(u, h) ==
  seatHolds[h].userId = u /\ seatHolds[h].status = "ACTIVE"

(* requireOwnHold, then the check that it is still active *)
OwnActiveHold(u, h) ==
  seatHolds[h].userId = u /\ seatHolds[h].status = "ACTIVE" /\ ~DueHold(h)

HoldRequest(S) ==
  /\ S # {} /\ Cardinality(S) <= MAX_HOLD_SEATS
  /\ SamePerformance(S)

(* A slip: a request reconciles the holds of its own user. *)
ownHoldsToReconcile(u) == {h \in HoldId : seatHolds[h].userId = u /\ DueHold(h)}

(* The holds that a seat hold request of u reconciles. *)
holdsToReconcile(u) == {h \in HoldId : DueHold(h)}

(* Every hold in the database that is past its time is expired first, also *)
(* when the request is then refused.                                       *)
createSeatHold(u, S) ==
  /\ HoldRequest(S)
  /\ LET due   == holdsToReconcile(u)
         seats == releaseHeldTickets(due)
         holds == EndHolds(due, "EXPIRED")
         available == bookable /\ \A s \in S : seats[s].status = "ON_SALE"
     IN \/ /\ available
           /\ \E h \in HoldId :
                /\ seatHolds[h].status = "NONE"
                /\ seatHolds' = [holds EXCEPT ![h] =
                     [status |-> "ACTIVE", userId |-> u, ticketIds |-> S, createdAt |-> now,
                      expiresAt |-> now + HOLD_TTL, extensionsUsed |-> 0]]
                /\ tickets' = [s \in Seat |->
                     IF s \in S
                     THEN [seats[s] EXCEPT !.status = "HELD", !.heldBy = h,
                                           !.holdExpiresAt = now + HOLD_TTL]
                     ELSE seats[s]]
        \/ /\ ~available
           /\ due # {}
           /\ seatHolds' = holds
           /\ tickets' = seats
  /\ UNCHANGED <<now, bookable, reservationDrafts>>

getSeatHold(u, h) == seatHolds[h].userId = u /\ ReconcileHold(h)

(* A slip: the tickets keep the expiry they had. *)
ProlongRecordOnly(h, until) ==
  /\ seatHolds' = [seatHolds EXCEPT ![h].expiresAt = until, ![h].extensionsUsed = @ + 1]
  /\ UNCHANGED tickets

ProlongHold(h, until) ==
  /\ seatHolds' = [seatHolds EXCEPT ![h].expiresAt = until, ![h].extensionsUsed = @ + 1]
  /\ tickets' = [s \in Seat |-> IF s \in seatHolds[h].ticketIds
                                THEN [tickets[s] EXCEPT !.holdExpiresAt = until]
                                ELSE tickets[s]]

(* A slip: one extension too many. *)
mayExtendOnceMore(h) == seatHolds[h].extensionsUsed <= HOLD_MAX_EXTENSIONS
mayExtend(h) == seatHolds[h].extensionsUsed < HOLD_MAX_EXTENSIONS

extendSeatHold(u, h) ==
  \/ getSeatHold(u, h)
  \/ /\ OwnActiveHold(u, h)
     /\ mayExtend(h)
     /\ ProlongHold(h, now + HOLD_EXTENSION)
     /\ UNCHANGED <<now, bookable, reservationDrafts>>

releaseSeatHold(u, h) ==
  \/ getSeatHold(u, h)
  \/ /\ OwnActiveHold(u, h)
     /\ tickets' = releaseHeldTickets({h})
     /\ seatHolds' = EndHolds({h}, "RELEASED")
     /\ UNCHANGED <<now, bookable, reservationDrafts>>

-----------------------------------------------------------------------------
(* Reservation drafts *)

DueDraft(d) ==
  reservationDrafts[d].status = "PENDING_PAYMENT" /\ reservationDrafts[d].expiresAt <= now

(* Hold h becomes draft d, with the seats of h. *)
MakeDraft(u, h, d) ==
  /\ seatHolds' = EndHolds({h}, "CONVERTED")
  /\ reservationDrafts' = [reservationDrafts EXCEPT ![d] =
       [status |-> "PENDING_PAYMENT", userId |-> u, holdId |-> h,
        ticketIds |-> seatHolds[h].ticketIds, expiresAt |-> now + DRAFT_TTL]]
  /\ tickets' = [s \in Seat |->
       IF s \in seatHolds[h].ticketIds
       THEN [tickets[s] EXCEPT !.status = "RESERVED", !.heldBy = NULL, !.holdExpiresAt = 0,
               !.reservationId = d, !.reservationExpiresAt = now + DRAFT_TTL]
       ELSE tickets[s]]
  /\ UNCHANGED <<now, bookable>>

createReservationDraft(u, h) ==
  \/ getSeatHold(u, h)
  \/ /\ OwnActiveHold(u, h)
     /\ \E d \in DraftId : reservationDrafts[d].status = "NONE" /\ MakeDraft(u, h, d)

(* releaseDraftTickets, and the end of the draft *)
EndDraft(d, status) ==
  /\ reservationDrafts' = [reservationDrafts EXCEPT ![d].status = status]
  /\ tickets' = [s \in Seat |->
       IF /\ s \in reservationDrafts[d].ticketIds
          /\ tickets[s].status = "RESERVED" /\ tickets[s].reservationId = d
       THEN [tickets[s] EXCEPT !.status = "ON_SALE", !.reservationId = NULL,
                               !.reservationExpiresAt = 0]
       ELSE tickets[s]]
  /\ UNCHANGED <<now, bookable, seatHolds>>

(* requireOwnDraft: only its owner's requests reconcile a draft. *)
getReservationDraft(u, d) ==
  /\ reservationDrafts[d].userId = u
  /\ DueDraft(d)
  /\ EndDraft(d, "EXPIRED")

cancelReservationDraft(u, d) ==
  \/ getReservationDraft(u, d)
  \/ /\ reservationDrafts[d].userId = u
     /\ reservationDrafts[d].status = "PENDING_PAYMENT" /\ ~DueDraft(d)
     /\ EndDraft(d, "CANCELLED")

-----------------------------------------------------------------------------
(* Purchases *)

(* A slip: anybody may pay for a seat that somebody holds. *)
AnybodysPayableHolds(u, s) ==
  {h \in HoldId : /\ tickets[s].status = "HELD" /\ tickets[s].heldBy = h
                  /\ seatHolds[h].status = "ACTIVE" /\ ~DueHold(h)
                  /\ seatHolds[h].ticketIds = {s}}

(* The hold, and the draft, that let u buy seat s although it is taken:    *)
(* assertTicketPurchasable accepts them for that seat alone.               *)
PayableHolds(u, s) ==
  {h \in HoldId : /\ tickets[s].status = "HELD" /\ tickets[s].heldBy = h
                  /\ OwnActiveHold(u, h)
                  /\ seatHolds[h].ticketIds = {s}}

(* A slip: the expiry of the draft is not looked at. *)
PayableDraftsEvenDue(u, s) ==
  {d \in DraftId : /\ tickets[s].status = "RESERVED" /\ tickets[s].reservationId = d
                   /\ reservationDrafts[d].userId = u
                   /\ reservationDrafts[d].status = "PENDING_PAYMENT"
                   /\ reservationDrafts[d].ticketIds = {s}}

PayableDrafts(u, s) ==
  {d \in DraftId : /\ tickets[s].status = "RESERVED" /\ tickets[s].reservationId = d
                   /\ reservationDrafts[d].userId = u
                   /\ reservationDrafts[d].status = "PENDING_PAYMENT" /\ ~DueDraft(d)
                   /\ reservationDrafts[d].ticketIds = {s}}

Sell(S, u) ==
  tickets' = [s \in Seat |-> IF s \in S THEN [OnSale EXCEPT !.status = "OWNED", !.ownerId = u]
                                        ELSE tickets[s]]

(* An identity-verified user buys one seat, open or claimed by that user.  *)
buyPrimary(u, s) ==
  /\ bookable
  /\ tickets[s].status = "ON_SALE" \/ PayableHolds(u, s) # {} \/ PayableDrafts(u, s) # {}
  /\ seatHolds' = EndHolds(PayableHolds(u, s), "CONVERTED")
  /\ reservationDrafts' =
       [d \in DraftId |->
          IF d \in PayableDrafts(u, s) THEN [reservationDrafts[d] EXCEPT !.status = "CONFIRMED"]
                                       ELSE reservationDrafts[d]]
  /\ Sell({s}, u)
  /\ UNCHANGED <<now, bookable>>

(* One order for several seats of a performance: open ones only. *)
buyPrimaryGroup(u, S) ==
  /\ bookable
  /\ Cardinality(S) \in 2..MAX_GROUP_PURCHASE_SEATS
  /\ SamePerformance(S)
  /\ \A s \in S : tickets[s].status = "ON_SALE"
  /\ Sell(S, u)
  /\ UNCHANGED <<now, bookable, seatHolds, reservationDrafts>>

(* The operator allots open seats to an institution; which ones is up to   *)
(* the order of the database.                                              *)
approveGroupBookingRequest(u, S) ==
  /\ bookable
  /\ S # {} /\ SamePerformance(S)
  /\ \A s \in S : tickets[s].status = "ON_SALE"
  /\ Sell(S, u)
  /\ UNCHANGED <<now, bookable, seatHolds, reservationDrafts>>

-----------------------------------------------------------------------------
(* The operator *)

(* A batch puts the seats of blocked on hold and those of opened on sale,  *)
(* or changes nothing when one of them is locked.                          *)
updateTicketStatuses(blocked, opened) ==
  /\ \A s \in blocked \union opened : /\ tickets[s].ownerId = NULL
                                      /\ tickets[s].status \in {"ON_SALE", "ADMIN_HOLD"}
  /\ tickets' = [s \in Seat |->
       IF s \in blocked \union opened
       THEN [tickets[s] EXCEPT !.status = IF s \in opened THEN "ON_SALE" ELSE "ADMIN_HOLD"]
       ELSE tickets[s]]
  /\ UNCHANGED <<now, bookable, seatHolds, reservationDrafts>>

(* updateEventSale, as far as its saleState goes *)
updateEventSale(state) ==
  /\ bookable' = state
  /\ UNCHANGED <<now, tickets, seatHolds, reservationDrafts>>

-----------------------------------------------------------------------------
HoldStep(u) ==
  \/ \E S \in SUBSET Seat : createSeatHold(u, S)
  \/ \E h \in HoldId : \/ getSeatHold(u, h)
                       \/ extendSeatHold(u, h)
                       \/ releaseSeatHold(u, h)

DraftStep(u) ==
  \/ \E h \in HoldId : createReservationDraft(u, h)
  \/ \E d \in DraftId : getReservationDraft(u, d) \/ cancelReservationDraft(u, d)

PurchaseStep(u) ==
  \/ \E s \in Seat : buyPrimary(u, s)
  \/ \E S \in SUBSET Seat : buyPrimaryGroup(u, S) \/ approveGroupBookingRequest(u, S)

OperatorStep ==
  \/ \E blocked, opened \in SUBSET Seat : updateTicketStatuses(blocked, opened)
  \/ \E state \in BOOLEAN : updateEventSale(state)

Next ==
  \/ Tick
  \/ \E u \in User : HoldStep(u) \/ DraftStep(u) \/ PurchaseStep(u)
  \/ OperatorStep

Spec == Init /\ [][Next]_vars

-----------------------------------------------------------------------------
(* Properties *)

(* Every record keeps its shape and no hold is extended too often. *)
TypeOK ==
  /\ now \in Nat
  /\ bookable \in BOOLEAN
  /\ tickets \in [Seat -> Ticket]
  /\ seatHolds \in [HoldId -> Hold]
  /\ reservationDrafts \in [DraftId -> Draft]

(* Hold and draft records and tickets are written by seven handlers that   *)
(* never check one against the other.  A live record keeps every seat it   *)
(* lists, to the moment it promises: no hold loses a seat to another       *)
(* hold, a purchase, an allotment or the operator while it is active.      *)
ClaimsKeepTheirSeats ==
  /\ \A h \in HoldId : seatHolds[h].status = "ACTIVE" =>
       \A s \in seatHolds[h].ticketIds :
         /\ tickets[s].status = "HELD" /\ tickets[s].heldBy = h
         /\ tickets[s].holdExpiresAt = seatHolds[h].expiresAt
  /\ \A d \in DraftId : reservationDrafts[d].status = "PENDING_PAYMENT" =>
       \A s \in reservationDrafts[d].ticketIds :
         /\ tickets[s].status = "RESERVED" /\ tickets[s].reservationId = d
         /\ tickets[s].reservationExpiresAt = reservationDrafts[d].expiresAt

(* No seat is stranded: one that is kept from sale is kept by a record     *)
(* that is still live and lists it, so that ending the record frees it,    *)
(* and a seat back on sale or sold carries no trace of an earlier claim.   *)
SeatsNameLiveClaims ==
  \A s \in Seat :
    /\ IF tickets[s].status = "HELD"
       THEN \E h \in HoldId : /\ tickets[s].heldBy = h /\ seatHolds[h].status = "ACTIVE"
                              /\ s \in seatHolds[h].ticketIds
       ELSE tickets[s].heldBy = NULL
    /\ IF tickets[s].status = "RESERVED"
       THEN \E d \in DraftId : /\ tickets[s].reservationId = d
                               /\ reservationDrafts[d].status = "PENDING_PAYMENT"
                               /\ s \in reservationDrafts[d].ticketIds
       ELSE tickets[s].reservationId = NULL
    /\ tickets[s].status = "OWNED" <=> tickets[s].ownerId # NULL

(* A user cannot chain hold, extension and draft into more time than they  *)
(* add up to: whatever is called when, the last moment a draft can be paid *)
(* comes before LongestClaim after its hold was made.                      *)
ClaimTimeBounded ==
  \A d \in DraftId : reservationDrafts[d].status # "NONE" =>
    reservationDrafts[d].expiresAt < seatHolds[reservationDrafts[d].holdId].createdAt + LongestClaim

(* What was paid for was got: a confirmed draft's seats belong to its      *)
(* user, and a converted hold became a draft or its user's seat.           *)
ConvertedClaimsArePaidFor ==
  /\ \A d \in DraftId : reservationDrafts[d].status = "CONFIRMED" =>
       \A s \in reservationDrafts[d].ticketIds : tickets[s].ownerId = reservationDrafts[d].userId
  /\ \A h \in HoldId : seatHolds[h].status = "CONVERTED" =>
       \/ \E d \in DraftId : /\ reservationDrafts[d].holdId = h
                             /\ reservationDrafts[d].userId = seatHolds[h].userId
                             /\ reservationDrafts[d].ticketIds = seatHolds[h].ticketIds
       \/ \A s \in seatHolds[h].ticketIds : tickets[s].ownerId = seatHolds[h].userId

(* The seats as the other users see them: who has each, until when.        *)
BookState ==
  [ON_SALE |-> "open", ADMIN_HOLD |-> "blocked", OWNED |-> "sold",
   HELD |-> "claimed", RESERVED |-> "claimed"]

BookEntry(s) ==
  LET ticket == tickets[s]
  IN [state |-> BookState[ticket.status],
      by    |-> IF ticket.status = "HELD" THEN seatHolds[ticket.heldBy].userId
                ELSE IF ticket.status = "RESERVED"
                     THEN reservationDrafts[ticket.reservationId].userId
                     ELSE ticket.ownerId,
      until |-> IF ticket.status = "HELD" THEN ticket.holdExpiresAt
                ELSE IF ticket.status = "RESERVED" THEN ticket.reservationExpiresAt ELSE 0]

(* Holds, drafts, purchases and allotments together implement the seat     *)
(* book: all-or-nothing claims, used only by their user and only in time,  *)
(* cleared only when past, and sales that nobody undoes.                   *)
Book == INSTANCE SeatBook WITH
  Nobody <- NULL, MaxClaim <- LongestClaim, book <- [s \in Seat |-> BookEntry(s)]
ImplementsSeatBook == Book!Spec
=============================================================================
