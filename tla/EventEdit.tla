------------------------------ MODULE EventEdit ------------------------------
(***************************************************************************)
(* One performance of the catalogue and its tickets, edited by operators   *)
(* (backend/admin.js) and by the sellers who own it                        *)
(* (backend/seller-events.js), while its seats are sold.                   *)
(*                                                                         *)
(* A request that brings a new poster awaits the file between its checks   *)
(* and its assignments; one without a poster runs in one step.  Zones      *)
(* stand for zones and dates, which are checked and swept alike.  A zone   *)
(* that the venue's layout knows has the layout's seats, any other zone    *)
(* has generated ones, which are the same at every venue.                  *)
(***************************************************************************)
EXTENDS Naturals, Sequences

CONSTANTS
  Zone, Venue, Seat, Seller, Request, Price,
  SeatOf,               \* the seat of each zone at each venue
  ZoneOf,               \* the zone of each seat
  ADMIN,                \* who edits, when it is not a seller
  KEEP,                 \* a payload without prices
  MaxEvents             \* bound: copies of the event ever made

VARIABLES
  events,               \* the entries of db.events with this event's id
  tickets,              \* db.tickets of the event, by seat
  requests              \* what each request is about to write

vars == <<events, tickets, requests>>

(* Two fields are not in the code: unreviewed, of an event, says that a    *)
(* seller wrote some of its content after the last review; late, of a      *)
(* ticket, that it was sold while an update that drops its zone waited for *)
(* its poster, after its check.                                            *)
Prices == [zones : (SUBSET Zone) \ {{}}, faceValue : Price]
Idle == [phase |-> "idle"]
NoTicket == [status |-> "NONE", faceValue |-> 0, late |-> FALSE]

(* db.events.find: every handler gets the first entry with the id. *)
Exists == events # <<>>
Event == events[1]

Init ==
  /\ events = <<>>
  /\ tickets = [s \in Seat |-> NoTicket]
  /\ requests = [r \in Request |-> Idle]

-----------------------------------------------------------------------------
isTransactionalTicket(s) == tickets[s].status = "TAKEN"

assertTicketsCanUseInventory(nextZones) ==
  \A s \in Seat : isTransactionalTicket(s) => ZoneOf[s] \in nextZones

activeSeatKeysForEvent(event) == {SeatOf[<<z, event.venue>>] : z \in event.zones}

(* A slip: tickets that are no longer active go, whoever has them. *)
StaleTickets(event) == Seat \ activeSeatKeysForEvent(event)
removeStaleOpenTickets(event) ==
  {s \in Seat \ activeSeatKeysForEvent(event) : ~isTransactionalTicket(s)}

ensureTicketsForEvent(open, event) ==
  [s \in Seat |->
     IF s \in activeSeatKeysForEvent(event) /\ open[s].status = "NONE"
     THEN [status |-> "ON_SALE", faceValue |-> event.faceValue, late |-> FALSE] ELSE open[s]]

Swept(event) ==
  [s \in Seat |-> IF s \in removeStaleOpenTickets(event)
                  THEN NoTicket ELSE tickets[s]]

(* Whatever is still open in a zone of the event gets the zone's price. *)
Repriced(swept, event) ==
  [s \in Seat |->
     IF swept[s].status = "ON_SALE" /\ ZoneOf[s] \in event.zones
     THEN [swept[s] EXCEPT !.faceValue = event.faceValue] ELSE swept[s]]

-----------------------------------------------------------------------------
(* What a request does once its poster is stored, in one step with its     *)
(* checks when it has none. *)

(* Two drafts may both have passed the check for an existing event.  A     *)
(* seller's handler then looks the event up by its id to claim it.         *)
createEventDraft(w) ==
  LET new == [zones |-> w.prices.zones, faceValue |-> w.prices.faceValue,
              venue |-> w.venue, sellerAccountId |-> ADMIN, publishStatus |-> "PUBLISHED",
              unreviewed |-> w.by # ADMIN]
      pushed == Append(events, new)
  IN /\ events' = IF w.by = ADMIN THEN pushed
                  ELSE [pushed EXCEPT ![1].sellerAccountId = w.by,
                                      ![1].publishStatus = "PENDING_ADMIN_REVIEW"]
     /\ tickets' = ensureTicketsForEvent(tickets, new)

(* A slip: the event enters the review queue when the edit is sent. *)
StatusBeforeStoring(w) == Event.publishStatus
StatusAfterEdit(w) ==
  IF w.by = ADMIN THEN Event.publishStatus ELSE "PENDING_ADMIN_REVIEW"

updateEventSale(w) ==
  LET priced == IF w.prices = KEEP THEN Event
                ELSE [Event EXCEPT !.zones = w.prices.zones, !.faceValue = w.prices.faceValue]
      edited == [priced EXCEPT !.venue = w.venue,
                               !.unreviewed = @ \/ w.by # ADMIN,
                               !.publishStatus = StatusAfterEdit(w)]
  IN /\ events' = [events EXCEPT ![1] = edited]
     /\ tickets' = ensureTicketsForEvent(Repriced(Swept(edited), edited), edited)

-----------------------------------------------------------------------------
(* Requests up to the poster *)

DraftAllowed(w) == ~Exists /\ w.prices # KEEP
UpdateAllowed(w) ==
  /\ Exists
  /\ w.by = ADMIN \/ Event.sellerAccountId = w.by
  /\ assertTicketsCanUseInventory(IF w.prices = KEEP THEN Event.zones ELSE w.prices.zones)

(* Drafts always come with a poster.  Between the push of the new event and *)
(* its claim by the seller (seller-events.js 104-107) lies the resumption  *)
(* of one await, which no request enters: they are one step here.          *)
StartDraft(r, w) ==
  /\ requests[r] = Idle
  /\ DraftAllowed(w)
  /\ requests' = [requests EXCEPT ![r] = [phase |-> "draft", write |-> w]]
  /\ UNCHANGED <<events, tickets>>

StartUpdate(r, w) ==
  /\ requests[r] = Idle
  /\ UpdateAllowed(w)
  /\ requests' = [requests EXCEPT ![r] = [phase |-> "update", write |-> w]]
  /\ UNCHANGED <<events, tickets>>

UpdateWithoutImage(w) ==
  /\ UpdateAllowed(w)
  /\ updateEventSale(w)
  /\ UNCHANGED requests

(* storeEventImage answers *)
ImageStored(r) ==
  /\ requests[r] # Idle
  /\ \/ requests[r].phase = "draft" /\ Len(events) < MaxEvents /\ createEventDraft(requests[r].write)
     \/ requests[r].phase = "update" /\ updateEventSale(requests[r].write)
  /\ requests' = [requests EXCEPT ![r] = Idle]

ImageRejected(r) ==
  /\ requests[r] # Idle
  /\ requests' = [requests EXCEPT ![r] = Idle]
  /\ UNCHANGED <<events, tickets>>

(* The venue alone is changed without a check and without an await. *)
updateEventVenue(venue) ==
  /\ Exists
  /\ LET edited == [Event EXCEPT !.venue = venue]
     IN /\ events' = [events EXCEPT ![1] = edited]
        /\ tickets' = ensureTicketsForEvent(Swept(edited), edited)
  /\ UNCHANGED requests

reviewSellerEvent(verdict) ==
  /\ Exists
  /\ Event.sellerAccountId # ADMIN
  /\ Event.publishStatus = "PENDING_ADMIN_REVIEW"
  /\ events' = [events EXCEPT ![1].publishStatus = verdict, ![1].unreviewed = FALSE]
  /\ UNCHANGED <<tickets, requests>>

(* Seats are held, bought, given back: whatever the other components do.   *)
(* Their lookups find any ticket that is on sale. *)
ZoneIsBeingDropped(s) ==
  \E r \in Request : /\ requests[r] # Idle /\ requests[r].phase = "update"
                     /\ requests[r].write.prices # KEEP
                     /\ ZoneOf[s] \notin requests[r].write.prices.zones

TakeTicket(s) ==
  /\ tickets[s].status = "ON_SALE"
  /\ tickets' = [tickets EXCEPT ![s].status = "TAKEN", ![s].late = @ \/ ZoneIsBeingDropped(s)]
  /\ UNCHANGED <<events, requests>>

ReturnTicket(s) ==
  /\ tickets[s].status = "TAKEN"
  /\ tickets' = [tickets EXCEPT ![s].status = "ON_SALE"]
  /\ UNCHANGED <<events, requests>>

Writes == [by : Seller \union {ADMIN}, prices : Prices \union {KEEP}, venue : Venue]

Next ==
  \/ \E w \in Writes :
       \/ UpdateWithoutImage(w)
       \/ \E r \in Request : StartDraft(r, w) \/ StartUpdate(r, w)
  \/ \E r \in Request : ImageStored(r) \/ ImageRejected(r)
  \/ \E venue \in Venue : updateEventVenue(venue)
  \/ \E verdict \in {"PUBLISHED", "DRAFT"} : reviewSellerEvent(verdict)
  \/ \E s \in Seat : TakeTicket(s) \/ ReturnTicket(s)

Spec == Init /\ [][Next]_vars

-----------------------------------------------------------------------------
(* Properties *)

EventRecord ==
  [zones : (SUBSET Zone) \ {{}}, faceValue : Price, venue : Venue,
   sellerAccountId : Seller \union {ADMIN},
   publishStatus : {"PUBLISHED", "PENDING_ADMIN_REVIEW", "DRAFT"}, unreviewed : BOOLEAN]

TypeOK ==
  /\ events \in Seq(EventRecord) /\ Len(events) <= MaxEvents
  /\ tickets \in [Seat -> [status : {"NONE", "ON_SALE", "TAKEN"},
                            faceValue : Price \union {0}, late : BOOLEAN]]
  /\ requests \in [Request -> {Idle} \union
       [phase : {"draft", "update"}, write : Writes]]

(* backend/dtos.js:147-152 keeps a seller's event from the public until it *)
(* is approved, and seller-events.js:5-6 says that every seller write      *)
(* forces the review gate.  It holds of whatever the public lists show,    *)
(* but for one kind of entry: the public reads every entry of db.events,   *)
(* and a draft that waited for its poster while another draft of the same  *)
(* id went on adds an entry of its own (admin.js:369, 398).  The seller's  *)
(* claim, the edits and the reviews find the first entry with the id, so   *)
(* that the later one stays PUBLISHED, as nobody's, whoever wrote it.      *)
AddedBesideAnother(i) == i > 1 /\ events[i].sellerAccountId = ADMIN

UnreviewedIsHidden ==
  \A i \in DOMAIN events :
    events[i].publishStatus = "PUBLISHED" /\ events[i].unreviewed => AddedBesideAnother(i)

(* A seat that is sold lies in a zone of the event, whatever edits, moves  *)
(* and drafts followed the sale (admin.js:453 refuses to remove its zone). *)
(* The exception is a seat that was sold during the await of an update     *)
(* that drops its zone: the check is not repeated after it (admin.js:594), *)
(* and the seat stays behind in a zone that no longer exists.              *)
SoldSeatsHaveZones ==
  \A s \in Seat : tickets[s].status = "TAKEN" /\ ~tickets[s].late =>
    \E i \in DOMAIN events : ZoneOf[s] \in events[i].zones

(* No edit, however long it waited after its check, takes a ticket away    *)
(* from its owner or changes what it cost.                                 *)
KeepsTakenTickets ==
  \A s \in Seat : tickets[s].status = "TAKEN" =>
    tickets'[s].status # "NONE" /\ tickets'[s].faceValue = tickets[s].faceValue
=============================================================================
