-------------------------- MODULE BackOfficeProofs --------------------------
(***************************************************************************)
(* What operators, sellers and customers decide is kept: proofs about the  *)
(* editing of events, sellers, logins, identities and the watchlist.       *)
(***************************************************************************)
EXTENDS BackOffice, SequenceTheorems, WellFoundedInduction, TLAPS

LEMMA EmptySequence == ASSUME NEW S PROVE <<>> \in Seq(S)
OBVIOUS

-----------------------------------------------------------------------------
(* An event that is edited while it sells.                                 *)

TicketRecord ==
  [status : {"NONE", "ON_SALE", "TAKEN"}, faceValue : Price \union {0}, late : BOOLEAN]

(* A draft brings its prices, and an update finds its event.               *)
RequestsAreAllowed(e) ==
  \A r \in EditsOf[e] :
    /\ requests[r].phase = "draft" => requests[r].write.prices # KEEP
    /\ requests[r].phase = "update" => events # <<>>

(* Every ticket, sold or not, lies in a zone of some entry, or was sold    *)
(* late; and what an update in flight will drop was not sold before it was *)
(* checked.                                                                *)
TicketsHaveZones ==
  \A s \in Seat : tickets[s].status # "NONE" /\ ~tickets[s].late =>
    \E i \in DOMAIN events : ZoneOf[s] \in events[i].zones
SoldOnly(s) == tickets[s].status = "TAKEN" /\ ~tickets[s].late
DropsAreChecked(e) ==
  \A r \in EditsOf[e] : requests[r].phase = "update" /\ requests[r].write.prices # KEEP =>
    \A s \in Seat : SoldOnly(s) => ZoneOf[s] \in requests[r].write.prices.zones

EditIInv(e) ==
  /\ Editing(e)!TypeOK /\ Editing(e)!UnreviewedIsHidden /\ TicketsHaveZones
  /\ RequestsAreAllowed(e) /\ DropsAreChecked(e)

KeepsTaken(old, new) ==
  \A s \in Seat : "TAKEN" \in {old[s].status, new[s].status} => new[s] = old[s]
OnSaleLiesIn(new, event) ==
  \A s \in Seat : new[s].status = "ON_SALE" => ZoneOf[s] \in event.zones

LEMMA ActiveLiesIn ==
  ASSUME NEW e \in Catalogue, NEW event \in Editing(e)!EventRecord,
         NEW s \in Editing(e)!activeSeatKeysForEvent(event)
  PROVE  ZoneOf[s] \in event.zones
<1>1. event.zones \subseteq Zone /\ event.venue \in Hall
  BY EventAssumption DEF Editing!EventRecord
<1>2. PICK z \in event.zones : s = SeatOf[<<z, event.venue>>]
  BY DEF Editing!activeSeatKeysForEvent
<1>3. \A y \in Zone, h \in Hall : ZoneOf[SeatOf[<<y, h>>]] = y BY EventAssumption, Zenon
<1>4. ZoneOf[SeatOf[<<z, event.venue>>]] = z BY <1>1, <1>3, Zenon
<1> QED BY <1>2, <1>4

LEMMA SweptKeeps ==
  ASSUME NEW e \in Catalogue, tickets \in [Seat -> TicketRecord],
         NEW event \in Editing(e)!EventRecord
  PROVE  /\ Editing(e)!Swept(event) \in [Seat -> TicketRecord]
         /\ KeepsTaken(tickets, Editing(e)!Swept(event))
         /\ OnSaleLiesIn(Editing(e)!Swept(event), event)
<1>1. Editing(e)!NoTicket \in TicketRecord /\ Editing(e)!NoTicket.status = "NONE"
  BY DEF TicketRecord, Editing!NoTicket
<1>2. PICK active : active = Editing(e)!activeSeatKeysForEvent(event) OBVIOUS
<1>3. Editing(e)!Swept(event) =
        [s \in Seat |-> IF s \notin active /\ tickets[s].status # "TAKEN"
                        THEN Editing(e)!NoTicket ELSE tickets[s]]
  BY <1>2 DEF Editing!Swept, Editing!removeStaleOpenTickets, Editing!isTransactionalTicket
<1>4. ASSUME NEW s \in Seat, s \in active PROVE ZoneOf[s] \in event.zones
  BY <1>2, <1>4, ActiveLiesIn
<1> QED BY <1>1, <1>3, <1>4 DEF KeepsTaken, OnSaleLiesIn

LEMMA RepricedKeeps ==
  ASSUME NEW e \in Catalogue, NEW swept \in [Seat -> TicketRecord],
         NEW event \in Editing(e)!EventRecord, OnSaleLiesIn(swept, event)
  PROVE  /\ Editing(e)!Repriced(swept, event) \in [Seat -> TicketRecord]
         /\ KeepsTaken(swept, Editing(e)!Repriced(swept, event))
         /\ OnSaleLiesIn(Editing(e)!Repriced(swept, event), event)
<1>1. ASSUME NEW s \in Seat
      PROVE  /\ [swept[s] EXCEPT !.faceValue = event.faceValue] \in TicketRecord
             /\ [swept[s] EXCEPT !.faceValue = event.faceValue].status = swept[s].status
  BY DEF TicketRecord, Editing!EventRecord
<1> QED BY <1>1 DEF Editing!Repriced, KeepsTaken, OnSaleLiesIn

(* The seats of an event are put on sale, and nothing else changes.        *)
LEMMA EnsuredKeeps ==
  ASSUME NEW e \in Catalogue, NEW open \in [Seat -> TicketRecord],
         NEW event \in Editing(e)!EventRecord
  PROVE  LET ensured == Editing(e)!ensureTicketsForEvent(open, event)
         IN /\ ensured \in [Seat -> TicketRecord]
            /\ KeepsTaken(open, ensured)
            /\ \A s \in Seat : ensured[s] = open[s] \/ ZoneOf[s] \in event.zones
<1> DEFINE new == [status |-> "ON_SALE", faceValue |-> event.faceValue, late |-> FALSE]
<1>1. new \in TicketRecord /\ new.status = "ON_SALE"
  BY DEF TicketRecord, Editing!EventRecord
<1>2. PICK active : active = Editing(e)!activeSeatKeysForEvent(event) OBVIOUS
<1>3. Editing(e)!ensureTicketsForEvent(open, event) =
        [s \in Seat |-> IF s \in active /\ open[s].status = "NONE" THEN new ELSE open[s]]
  BY <1>2 DEF Editing!ensureTicketsForEvent
<1>4. ASSUME NEW s \in Seat, s \in active PROVE ZoneOf[s] \in event.zones
  BY <1>2, <1>4, ActiveLiesIn
<1> HIDE DEF new
<1> QED BY <1>1, <1>3, <1>4 DEF KeepsTaken

(* Whatever an edit does to the tickets, it keeps those that are taken.    *)
EditedTickets(e, event) ==
  \/ tickets' = Editing(e)!ensureTicketsForEvent(Editing(e)!Swept(event), event)
  \/ tickets' = Editing(e)!ensureTicketsForEvent(
                  Editing(e)!Repriced(Editing(e)!Swept(event), event), event)

LEMMA EditKeeps ==
  ASSUME NEW e \in Catalogue, tickets \in [Seat -> TicketRecord],
         NEW event \in Editing(e)!EventRecord, EditedTickets(e, event)
  PROVE  /\ tickets' \in [Seat -> TicketRecord]
         /\ KeepsTaken(tickets, tickets') /\ OnSaleLiesIn(tickets', event)
<1>1. PICK swept : swept = Editing(e)!Swept(event) OBVIOUS
<1>2. /\ swept \in [Seat -> TicketRecord] /\ KeepsTaken(tickets, swept)
      /\ OnSaleLiesIn(swept, event)
  BY <1>1, SweptKeeps
<1>3. PICK repriced : repriced = Editing(e)!Repriced(swept, event) OBVIOUS
<1>4. /\ repriced \in [Seat -> TicketRecord] /\ KeepsTaken(swept, repriced)
      /\ OnSaleLiesIn(repriced, event)
  BY <1>2, <1>3, RepricedKeeps
<1>5. KeepsTaken(tickets, repriced) BY <1>2, <1>4 DEF KeepsTaken
<1>6. PICK last \in [Seat -> TicketRecord] :
        /\ KeepsTaken(tickets, last) /\ OnSaleLiesIn(last, event)
        /\ tickets' = Editing(e)!ensureTicketsForEvent(last, event)
  BY <1>1, <1>2, <1>3, <1>4, <1>5 DEF EditedTickets
<1>7. /\ tickets' \in [Seat -> TicketRecord] /\ KeepsTaken(last, tickets')
      /\ \A s \in Seat : tickets'[s] = last[s] \/ ZoneOf[s] \in event.zones
  BY <1>6, EnsuredKeeps
<1> QED BY <1>6, <1>7 DEF KeepsTaken, OnSaleLiesIn

(* What that is for the properties.                                        *)
LEMMA TakenStay ==
  ASSUME NEW e \in Catalogue, tickets \in [Seat -> TicketRecord], KeepsTaken(tickets, tickets')
  PROVE  Editing(e)!KeepsTakenTickets /\ \A s \in Seat : SoldOnly(s)' <=> SoldOnly(s)
BY DEF KeepsTaken, Editing!KeepsTakenTickets, SoldOnly, TicketRecord

-----------------------------------------------------------------------------
(* The first entry is rewritten, or one is added.                          *)

Shown(event) == event.publishStatus = "PUBLISHED" => ~event.unreviewed

LEMMA EntryRewritten ==
  ASSUME NEW e \in Catalogue, EditIInv(e), events # <<>>,
         NEW event \in Editing(e)!EventRecord, Shown(event),
         \A s \in Seat : SoldOnly(s) /\ ZoneOf[s] \in events[1].zones => ZoneOf[s] \in event.zones,
         events' = [events EXCEPT ![1] = event],
         EditedTickets(e, event) \/ (UNCHANGED tickets /\ event.zones = events[1].zones),
         \/ UNCHANGED requests
         \/ \E r \in EditsOf[e] : requests' = [requests EXCEPT ![r] = Editing(e)!Idle]
  PROVE  EditIInv(e)' /\ Editing(e)!KeepsTakenTickets
<1>1. /\ events \in Seq(Editing(e)!EventRecord) /\ Len(events) <= MaxEventsOf[e]
      /\ tickets \in [Seat -> TicketRecord]
      /\ requests \in [EditsOf[e] -> {Editing(e)!Idle} \union
                         [phase : {"draft", "update"}, write : Editing(e)!Writes]]
      /\ RequestsAreAllowed(e)
  BY DEF EditIInv, Editing!TypeOK, TicketRecord
<1>2. 1 \in DOMAIN events BY <1>1, EmptySeq, LenProperties
<1>3. /\ events' \in Seq(Editing(e)!EventRecord) /\ Len(events') = Len(events)
      /\ DOMAIN events' = DOMAIN events /\ events'[1] = event
      /\ \A i \in DOMAIN events : i # 1 => events'[i] = events[i]
  BY <1>1, <1>2, ExceptSeq
<1>4. events' # <<>> BY <1>1, <1>2, <1>3, LenProperties
<1>5. /\ tickets' \in [Seat -> TicketRecord] /\ KeepsTaken(tickets, tickets')
      /\ OnSaleLiesIn(tickets', event) \/ (UNCHANGED tickets /\ event.zones = events[1].zones)
  <2>1. CASE UNCHANGED tickets /\ event.zones = events[1].zones
    BY <1>1, <2>1 DEF KeepsTaken
  <2>2. CASE EditedTickets(e, event) BY <1>1, <2>2, EditKeeps
  <2> QED BY <2>1, <2>2
<1>6. /\ requests' \in [EditsOf[e] -> {Editing(e)!Idle} \union
                          [phase : {"draft", "update"}, write : Editing(e)!Writes]]
      /\ \A r \in EditsOf[e] : requests'[r] \in {requests[r], Editing(e)!Idle}
  BY <1>1
<1>7. Editing(e)!TypeOK' BY <1>1, <1>3, <1>5, <1>6 DEF Editing!TypeOK, TicketRecord
<1>8. Editing(e)!UnreviewedIsHidden'
  BY <1>3 DEF EditIInv, Editing!UnreviewedIsHidden, Editing!AddedBesideAnother, Shown
<1>9. RequestsAreAllowed(e)'
  BY <1>1, <1>4, <1>6 DEF RequestsAreAllowed, Editing!Idle
<1>10. Editing(e)!KeepsTakenTickets /\ \A s \in Seat : SoldOnly(s)' <=> SoldOnly(s)
  BY <1>1, <1>5, TakenStay
<1>11. DropsAreChecked(e)'
  BY <1>6, <1>10 DEF EditIInv, DropsAreChecked, Editing!Idle
<1>12. TicketsHaveZones'
  <2> SUFFICES ASSUME NEW s \in Seat, tickets'[s].status # "NONE", ~tickets'[s].late
               PROVE  \E i \in DOMAIN events' : ZoneOf[s] \in events'[i].zones
    BY DEF TicketsHaveZones
  <2>1. CASE tickets'[s].status = "ON_SALE" /\ OnSaleLiesIn(tickets', event)
    BY <1>2, <1>3, <2>1 DEF OnSaleLiesIn
  <2>2. CASE tickets'[s] = tickets[s]
    <3>1. PICK i \in DOMAIN events : ZoneOf[s] \in events[i].zones
      BY <2>2 DEF EditIInv, TicketsHaveZones
    <3>2. CASE i # 1 BY <1>3, <3>1, <3>2
    <3>3. CASE i = 1
      <4>1. ZoneOf[s] \in event.zones
        BY <1>1, <1>5, <2>1, <2>2, <3>1, <3>3 DEF SoldOnly, OnSaleLiesIn, TicketRecord
      <4> QED BY <1>2, <1>3, <4>1
    <3> QED BY <3>2, <3>3
  <2>3. tickets'[s].status \in {"ON_SALE", "TAKEN"} BY <1>5 DEF TicketRecord
  <2> QED BY <1>5, <2>1, <2>2, <2>3 DEF KeepsTaken
<1> QED BY <1>7, <1>8, <1>9, <1>10, <1>11, <1>12 DEF EditIInv

LEMMA EventShown ==
  ASSUME NEW e \in Catalogue, EditIInv(e), events # <<>>
  PROVE  events[1] \in Editing(e)!EventRecord /\ Shown(events[1])
<1>1. events \in Seq(Editing(e)!EventRecord) BY DEF EditIInv, Editing!TypeOK
<1>2. events[1] \in Editing(e)!EventRecord BY <1>1, EmptySeq, LenProperties, ElementOfSeq
<1>3. 1 \in DOMAIN events BY <1>1, EmptySeq, LenProperties
<1> QED BY <1>2, <1>3 DEF EditIInv, Editing!UnreviewedIsHidden, Editing!AddedBesideAnother, Shown

LEMMA SaleUpdated ==
  ASSUME NEW e \in Catalogue, EditIInv(e), events # <<>>,
         NEW w \in Editing(e)!Writes, Editing(e)!updateEventSale(w),
         w.prices # KEEP => \A s \in Seat : SoldOnly(s) => ZoneOf[s] \in w.prices.zones,
         \/ UNCHANGED requests
         \/ \E r \in EditsOf[e] : requests' = [requests EXCEPT ![r] = Editing(e)!Idle]
  PROVE  EditIInv(e)' /\ Editing(e)!KeepsTakenTickets
<1>1. PICK event : event = events[1] OBVIOUS
<1>2. event \in Editing(e)!EventRecord /\ Shown(event) BY <1>1, EventShown
<1>3. PICK priced : priced = IF w.prices = KEEP THEN event
         ELSE [event EXCEPT !.zones = w.prices.zones, !.faceValue = w.prices.faceValue]
  OBVIOUS
<1>4. /\ priced \in Editing(e)!EventRecord
      /\ priced.publishStatus = event.publishStatus /\ priced.unreviewed = event.unreviewed
      /\ priced.zones = IF w.prices = KEEP THEN event.zones ELSE w.prices.zones
  <2>1. w.prices # KEEP => w.prices \in Editing(e)!Prices BY DEF Editing!Writes
  <2> QED BY <1>2, <1>3, <2>1 DEF Editing!EventRecord, Editing!Prices
<1>5. PICK edited : edited =
        [priced EXCEPT !.venue = w.venue, !.unreviewed = @ \/ w.by # ADMIN,
           !.publishStatus = IF w.by = ADMIN THEN event.publishStatus
                                             ELSE "PENDING_ADMIN_REVIEW"]
  OBVIOUS
<1>6. w.venue \in HallsOf[e] /\ (w.by # ADMIN) \in BOOLEAN BY DEF Editing!Writes
<1>7. edited \in Editing(e)!EventRecord
  BY <1>2, <1>4, <1>5, <1>6 DEF Editing!EventRecord
<1>8. Shown(edited) /\ edited.zones = priced.zones
  BY <1>2, <1>4, <1>5 DEF Shown, Editing!EventRecord
<1>9. events' = [events EXCEPT ![1] = edited] /\ EditedTickets(e, edited)
  BY <1>1, <1>3, <1>5
     DEF Editing!updateEventSale, Editing!Event, Editing!StatusAfterEdit, EditedTickets
<1>10. \A s \in Seat : SoldOnly(s) /\ ZoneOf[s] \in events[1].zones => ZoneOf[s] \in edited.zones
  BY <1>1, <1>4, <1>8
<1> QED BY <1>7, <1>8, <1>9, <1>10, EntryRewritten

LEMMA VenueUpdated ==
  ASSUME NEW e \in Catalogue, EditIInv(e), NEW venue \in HallsOf[e],
         Editing(e)!updateEventVenue(venue)
  PROVE  EditIInv(e)' /\ Editing(e)!KeepsTakenTickets
<1>1. PICK event : event = events[1] OBVIOUS
<1>2. events # <<>> BY DEF Editing!updateEventVenue, Editing!Exists
<1>3. event \in Editing(e)!EventRecord /\ Shown(event) BY <1>1, <1>2, EventShown
<1>4. PICK edited : edited = [event EXCEPT !.venue = venue] OBVIOUS
<1>5. edited \in Editing(e)!EventRecord /\ Shown(edited) /\ edited.zones = events[1].zones
  BY <1>1, <1>3, <1>4 DEF Editing!EventRecord, Shown
<1>6. /\ events' = [events EXCEPT ![1] = edited] /\ EditedTickets(e, edited)
      /\ UNCHANGED requests
  BY <1>1, <1>4 DEF Editing!updateEventVenue, Editing!Event, EditedTickets
<1> QED BY <1>2, <1>5, <1>6, EntryRewritten

LEMMA EventReviewed ==
  ASSUME NEW e \in Catalogue, EditIInv(e), NEW verdict \in {"PUBLISHED", "DRAFT"},
         Editing(e)!reviewSellerEvent(verdict)
  PROVE  EditIInv(e)' /\ Editing(e)!KeepsTakenTickets
<1>1. PICK event : event = events[1] OBVIOUS
<1>2. events # <<>> BY DEF Editing!reviewSellerEvent, Editing!Exists
<1>3. event \in Editing(e)!EventRecord BY <1>1, <1>2, EventShown
<1>4. PICK edited : edited = [event EXCEPT !.publishStatus = verdict, !.unreviewed = FALSE]
  OBVIOUS
<1>5. edited \in Editing(e)!EventRecord /\ Shown(edited) /\ edited.zones = events[1].zones
  BY <1>1, <1>3, <1>4 DEF Editing!EventRecord, Shown
<1>6. events' = [events EXCEPT ![1] = edited] /\ UNCHANGED <<tickets, requests>>
  <2>1. events \in Seq(Editing(e)!EventRecord) BY DEF EditIInv, Editing!TypeOK
  <2>2. 1 \in DOMAIN events BY <1>2, <2>1, EmptySeq, LenProperties
  <2> QED BY <1>1, <1>3, <1>4, <2>1, <2>2 DEF Editing!reviewSellerEvent, Editing!EventRecord
<1> QED BY <1>2, <1>5, <1>6, EntryRewritten

LEMMA DraftCreated ==
  ASSUME NEW e \in Catalogue, EditIInv(e), NEW r \in EditsOf[e], NEW w \in Editing(e)!Writes,
         w.prices # KEEP, Len(events) < MaxEventsOf[e], Editing(e)!createEventDraft(w),
         requests' = [requests EXCEPT ![r] = Editing(e)!Idle]
  PROVE  EditIInv(e)' /\ Editing(e)!KeepsTakenTickets
<1> USE EventAssumption
<1>1. /\ events \in Seq(Editing(e)!EventRecord) /\ Len(events) <= MaxEventsOf[e]
      /\ tickets \in [Seat -> TicketRecord]
      /\ requests \in [EditsOf[e] -> {Editing(e)!Idle} \union
                         [phase : {"draft", "update"}, write : Editing(e)!Writes]]
      /\ RequestsAreAllowed(e)
  BY DEF EditIInv, Editing!TypeOK, TicketRecord
<1>2. PICK new : new =
        [zones |-> w.prices.zones, faceValue |-> w.prices.faceValue,
         venue |-> w.venue, sellerAccountId |-> ADMIN, publishStatus |-> "PUBLISHED",
         unreviewed |-> w.by # ADMIN]
  OBVIOUS
<1>3. new \in Editing(e)!EventRecord
  <2>1. w.prices \in Editing(e)!Prices /\ w.venue \in HallsOf[e] BY DEF Editing!Writes
  <2>2. (w.by # ADMIN) \in BOOLEAN OBVIOUS
  <2> QED BY <1>2, <2>1, <2>2 DEF Editing!Prices, Editing!EventRecord
<1>4. PICK pushed : pushed = Append(events, new) OBVIOUS
<1>5. /\ pushed \in Seq(Editing(e)!EventRecord) /\ Len(pushed) = Len(events) + 1
      /\ pushed[Len(events) + 1] = new
      /\ \A i \in 1..Len(events) : pushed[i] = events[i]
  BY <1>1, <1>3, <1>4, AppendProperties
<1>6. Len(events) \in Nat /\ 1 \in 1..Len(pushed) /\ DOMAIN pushed = 1..Len(pushed)
  BY <1>1, <1>5, LenProperties
<1>7. pushed[1] \in Editing(e)!EventRecord BY <1>5, <1>6, ElementOfSeq
<1>8. PICK first : first = IF w.by = ADMIN THEN pushed[1]
         ELSE [pushed[1] EXCEPT !.sellerAccountId = w.by,
                                !.publishStatus = "PENDING_ADMIN_REVIEW"]
  OBVIOUS
<1>9. first \in Editing(e)!EventRecord
  BY <1>7, <1>8 DEF Editing!EventRecord, Editing!Writes
<1>10. Shown(first)
  <2>1. CASE w.by # ADMIN BY <1>7, <1>8, <2>1 DEF Shown, Editing!EventRecord
  <2>2. CASE w.by = ADMIN /\ Len(events) = 0
    <3>1. pushed[1] = new BY <1>5, <2>2
    <3>2. new.unreviewed = FALSE BY <1>2, <2>2
    <3> QED BY <1>8, <2>2, <3>1, <3>2 DEF Shown
  <2>3. CASE w.by = ADMIN /\ Len(events) # 0
    <3>1. events # <<>> BY <2>3
    <3>2. pushed[1] = events[1] BY <1>5, <1>6, <2>3
    <3> QED BY <1>8, <2>3, <3>1, <3>2, EventShown
  <2> QED BY <2>1, <2>2, <2>3
<1>11. /\ events' \in Seq(Editing(e)!EventRecord) /\ Len(events') = Len(pushed)
       /\ events'[1] = first
  <2>1. events' = [pushed EXCEPT ![1] = first]
    <3>1. CASE w.by = ADMIN
      <4>1. events' = pushed BY <1>2, <1>4, <3>1 DEF Editing!createEventDraft
      <4> QED BY <1>5, <1>6, <1>8, <3>1, <4>1
    <3>2. CASE w.by # ADMIN
      <4>1. events' = [pushed EXCEPT ![1].sellerAccountId = w.by,
                                     ![1].publishStatus = "PENDING_ADMIN_REVIEW"]
        BY <1>2, <1>4, <3>2 DEF Editing!createEventDraft
      <4> QED BY <1>5, <1>6, <1>7, <1>8, <3>2, <4>1 DEF Editing!EventRecord
    <3> QED BY <3>1, <3>2
  <2> QED BY <1>5, <1>6, <1>9, <2>1, ExceptSeq
<1>12. /\ \A i \in 2..Len(pushed) : events'[i] = pushed[i]
       /\ first.zones = pushed[1].zones /\ DOMAIN events' = 1..Len(pushed)
  <2>1. first.zones = pushed[1].zones BY <1>7, <1>8 DEF Editing!EventRecord
  <2>2. DOMAIN events' = 1..Len(pushed) BY <1>11, LenProperties
  <2>3. events' = IF w.by = ADMIN THEN pushed
                  ELSE [pushed EXCEPT ![1].sellerAccountId = w.by,
                                      ![1].publishStatus = "PENDING_ADMIN_REVIEW"]
    BY <1>2, <1>4 DEF Editing!createEventDraft
  <2>4. \A i \in 2..Len(pushed) : i \in DOMAIN pushed /\ i # 1 BY <1>6
  <2>5. \A i \in 2..Len(pushed) : events'[i] = pushed[i] BY <2>3, <2>4
  <2> QED BY <2>1, <2>2, <2>5
<1>13. tickets' = Editing(e)!ensureTicketsForEvent(tickets, new)
  BY <1>2 DEF Editing!createEventDraft
<1>14. /\ tickets' \in [Seat -> TicketRecord] /\ KeepsTaken(tickets, tickets')
       /\ \A s \in Seat : tickets'[s] = tickets[s] \/ ZoneOf[s] \in new.zones
  <2>1. PICK open \in [Seat -> TicketRecord] : open = tickets BY <1>1
  <2> QED BY <1>3, <1>13, <2>1, EnsuredKeeps
<1>15. Editing(e)!KeepsTakenTickets /\ \A s \in Seat : SoldOnly(s)' <=> SoldOnly(s)
  BY <1>1, <1>14, TakenStay
<1>16. /\ requests' \in [EditsOf[e] -> {Editing(e)!Idle} \union
                          [phase : {"draft", "update"}, write : Editing(e)!Writes]]
       /\ \A q \in EditsOf[e] : requests'[q] \in {requests[q], Editing(e)!Idle}
  BY <1>1
<1>17. Editing(e)!TypeOK'
  <2>1. Len(events') <= MaxEventsOf[e] BY <1>1, <1>5, <1>6, <1>11
  <2> QED BY <1>11, <1>14, <1>16, <2>1 DEF Editing!TypeOK, TicketRecord
<1>18. Editing(e)!UnreviewedIsHidden'
  <2> SUFFICES ASSUME NEW i \in DOMAIN events', events'[i].publishStatus = "PUBLISHED",
                      events'[i].unreviewed
               PROVE  i > 1 /\ events'[i].sellerAccountId = ADMIN
    BY DEF Editing!UnreviewedIsHidden, Editing!AddedBesideAnother
  <2>1. i # 1 BY <1>10, <1>11 DEF Shown
  <2>2. i > 1 /\ events'[i] = pushed[i] BY <1>6, <1>12, <2>1
  <2>3. CASE i = Len(events) + 1 BY <1>2, <1>5, <2>2, <2>3
  <2>4. CASE i # Len(events) + 1
    <3>1. i \in DOMAIN events /\ events'[i] = events[i]
      BY <1>1, <1>5, <1>6, <1>12, <2>2, <2>4, LenProperties
    <3> QED BY <2>2, <3>1 DEF EditIInv, Editing!UnreviewedIsHidden, Editing!AddedBesideAnother
  <2> QED BY <2>3, <2>4
<1>19. \A i \in 1..Len(pushed) : events'[i].zones = pushed[i].zones
  BY <1>6, <1>11, <1>12
<1>20. TicketsHaveZones'
  <2> SUFFICES ASSUME NEW s \in Seat, tickets'[s].status # "NONE", ~tickets'[s].late
               PROVE  \E i \in DOMAIN events' : ZoneOf[s] \in events'[i].zones
    BY DEF TicketsHaveZones
  <2>1. CASE ZoneOf[s] \in new.zones
    <3>1. Len(events) + 1 \in 1..Len(pushed) BY <1>5, <1>6
    <3> QED BY <1>5, <1>12, <1>19, <2>1, <3>1
  <2>2. CASE tickets'[s] = tickets[s]
    <3>1. PICK i \in DOMAIN events : ZoneOf[s] \in events[i].zones
      BY <2>2 DEF EditIInv, TicketsHaveZones
    <3>2. i \in 1..Len(pushed) /\ pushed[i] = events[i] BY <1>1, <1>5, <1>6, LenProperties
    <3> QED BY <1>12, <1>19, <3>1, <3>2
  <2> QED BY <1>14, <2>1, <2>2
<1>21. DropsAreChecked(e)'
  BY <1>15, <1>16 DEF EditIInv, DropsAreChecked, Editing!Idle
<1>22. events' # <<>> BY <1>6, <1>11
<1>23. RequestsAreAllowed(e)'
  BY <1>1, <1>16, <1>22 DEF RequestsAreAllowed, Editing!Idle
<1> QED BY <1>15, <1>17, <1>18, <1>20, <1>21, <1>23 DEF EditIInv

-----------------------------------------------------------------------------
LEMMA UpdateChecks ==
  ASSUME NEW e \in Catalogue, NEW w \in Editing(e)!Writes, Editing(e)!UpdateAllowed(w),
         w.prices # KEEP, NEW s \in Seat, SoldOnly(s)
  PROVE  ZoneOf[s] \in w.prices.zones
BY DEF Editing!UpdateAllowed, Editing!assertTicketsCanUseInventory, Editing!isTransactionalTicket,
       SoldOnly

LEMMA RequestSent ==
  ASSUME NEW e \in Catalogue, EditIInv(e), NEW r \in EditsOf[e], NEW w \in Editing(e)!Writes,
         Editing(e)!StartDraft(r, w) \/ Editing(e)!StartUpdate(r, w)
  PROVE  EditIInv(e)' /\ Editing(e)!KeepsTakenTickets
<1>1. PICK request \in [phase : {"draft", "update"}, write : Editing(e)!Writes] :
        /\ requests' = [requests EXCEPT ![r] = request]
        /\ request.phase = "draft" => request.write.prices # KEEP
        /\ request.phase = "update" => events # <<>>
        /\ request.phase = "update" /\ request.write.prices # KEEP =>
             \A s \in Seat : SoldOnly(s) => ZoneOf[s] \in request.write.prices.zones
  <2>1. CASE Editing(e)!StartDraft(r, w)
    <3>1. /\ [phase |-> "draft", write |-> w].phase = "draft"
          /\ [phase |-> "draft", write |-> w].write = w
      OBVIOUS
    <3> QED BY <2>1, <3>1 DEF Editing!StartDraft, Editing!DraftAllowed
  <2>2. CASE Editing(e)!StartUpdate(r, w)
    <3>1. /\ [phase |-> "update", write |-> w].phase = "update"
          /\ [phase |-> "update", write |-> w].write = w
      OBVIOUS
    <3>2. w.prices # KEEP => \A s \in Seat : SoldOnly(s) => ZoneOf[s] \in w.prices.zones
      BY <2>2, UpdateChecks DEF Editing!StartUpdate
    <3> QED BY <2>2, <3>1, <3>2 DEF Editing!StartUpdate, Editing!UpdateAllowed, Editing!Exists
  <2> QED BY <2>1, <2>2
<1>2. UNCHANGED <<events, tickets>> BY DEF Editing!StartDraft, Editing!StartUpdate
<1>3. /\ requests \in [EditsOf[e] -> {Editing(e)!Idle} \union
                         [phase : {"draft", "update"}, write : Editing(e)!Writes]]
      /\ RequestsAreAllowed(e) /\ tickets \in [Seat -> TicketRecord]
  BY DEF EditIInv, Editing!TypeOK, TicketRecord
<1>4. /\ requests' \in [EditsOf[e] -> {Editing(e)!Idle} \union
                          [phase : {"draft", "update"}, write : Editing(e)!Writes]]
      /\ requests'[r] = request /\ \A q \in EditsOf[e] : q # r => requests'[q] = requests[q]
  BY <1>1, <1>3
<1>5. Editing(e)!TypeOK' BY <1>2, <1>4 DEF EditIInv, Editing!TypeOK
<1>6. Editing(e)!UnreviewedIsHidden' /\ TicketsHaveZones'
  BY <1>2 DEF EditIInv, Editing!UnreviewedIsHidden, Editing!AddedBesideAnother, TicketsHaveZones
<1>7. RequestsAreAllowed(e)' BY <1>1, <1>2, <1>3, <1>4 DEF RequestsAreAllowed
<1>8. Editing(e)!KeepsTakenTickets BY <1>2, <1>3 DEF Editing!KeepsTakenTickets, TicketRecord
<1>9. DropsAreChecked(e)' BY <1>1, <1>2, <1>4 DEF EditIInv, DropsAreChecked, SoldOnly
<1> QED BY <1>5, <1>6, <1>7, <1>8, <1>9 DEF EditIInv

LEMMA PosterAnswered ==
  ASSUME NEW e \in Catalogue, EditIInv(e), NEW r \in EditsOf[e],
         Editing(e)!ImageStored(r) \/ Editing(e)!ImageRejected(r)
  PROVE  EditIInv(e)' /\ Editing(e)!KeepsTakenTickets
<1>1. /\ requests \in [EditsOf[e] -> {Editing(e)!Idle} \union
                         [phase : {"draft", "update"}, write : Editing(e)!Writes]]
      /\ RequestsAreAllowed(e) /\ tickets \in [Seat -> TicketRecord]
  BY DEF EditIInv, Editing!TypeOK, TicketRecord
<1>2. CASE Editing(e)!ImageRejected(r)
  <2>1. /\ requests' = [requests EXCEPT ![r] = Editing(e)!Idle] /\ UNCHANGED <<events, tickets>>
    BY <1>2 DEF Editing!ImageRejected
  <2>2. /\ requests' \in [EditsOf[e] -> {Editing(e)!Idle} \union
                            [phase : {"draft", "update"}, write : Editing(e)!Writes]]
        /\ \A q \in EditsOf[e] : requests'[q] \in {requests[q], Editing(e)!Idle}
    BY <1>1, <2>1
  <2>3. Editing(e)!TypeOK' BY <2>1, <2>2 DEF EditIInv, Editing!TypeOK
  <2>4. Editing(e)!UnreviewedIsHidden' /\ TicketsHaveZones'
    BY <2>1 DEF EditIInv, Editing!UnreviewedIsHidden, Editing!AddedBesideAnother, TicketsHaveZones
  <2>5. RequestsAreAllowed(e)' BY <1>1, <2>1, <2>2 DEF RequestsAreAllowed, Editing!Idle
  <2>6. Editing(e)!KeepsTakenTickets BY <1>1, <2>1 DEF Editing!KeepsTakenTickets, TicketRecord
  <2>7. DropsAreChecked(e)' BY <2>1, <2>2 DEF EditIInv, DropsAreChecked, SoldOnly, Editing!Idle
  <2> QED BY <2>3, <2>4, <2>5, <2>6, <2>7 DEF EditIInv
<1>3. CASE Editing(e)!ImageStored(r)
  <2>1. /\ requests[r] # Editing(e)!Idle
        /\ requests' = [requests EXCEPT ![r] = Editing(e)!Idle]
    BY <1>3 DEF Editing!ImageStored
  <2>2. PICK w \in Editing(e)!Writes : w = requests[r].write
    BY <1>1, <2>1
  <2>3. CASE /\ requests[r].phase = "draft" /\ Len(events) < MaxEventsOf[e]
             /\ Editing(e)!createEventDraft(w)
    <3>1. w.prices # KEEP BY <1>1, <2>2, <2>3 DEF RequestsAreAllowed
    <3> QED BY <2>1, <2>3, <3>1, DraftCreated
  <2>4. CASE requests[r].phase = "update" /\ Editing(e)!updateEventSale(w)
    <3>1. events # <<>> BY <1>1, <2>4 DEF RequestsAreAllowed
    <3>2. w.prices # KEEP => \A s \in Seat : SoldOnly(s) => ZoneOf[s] \in w.prices.zones
      BY <2>2, <2>4 DEF EditIInv, DropsAreChecked
    <3> QED BY <2>1, <2>4, <3>1, <3>2, SaleUpdated
  <2> QED BY <1>3, <2>2, <2>3, <2>4 DEF Editing!ImageStored
<1> QED BY <1>2, <1>3

LEMMA TicketSold ==
  ASSUME NEW e \in Catalogue, EditIInv(e), NEW s \in Seat,
         Editing(e)!TakeTicket(s) \/ Editing(e)!ReturnTicket(s)
  PROVE  EditIInv(e)' /\ Editing(e)!KeepsTakenTickets
<1>1. tickets \in [Seat -> TicketRecord] BY DEF EditIInv, Editing!TypeOK, TicketRecord
<1>2. PICK sold \in TicketRecord :
        /\ tickets' = [tickets EXCEPT ![s] = sold] /\ UNCHANGED <<events, requests>>
        /\ tickets[s].status # "NONE" /\ sold.faceValue = tickets[s].faceValue
        /\ sold.status # "NONE" /\ (tickets[s].late => sold.late)
        /\ sold.status = "TAKEN" => sold.late \/ ~Editing(e)!ZoneIsBeingDropped(s)
  <2>1. CASE Editing(e)!TakeTicket(s)
    <3>1. PICK dropped \in BOOLEAN : dropped = Editing(e)!ZoneIsBeingDropped(s)
      BY DEF Editing!ZoneIsBeingDropped
    <3>2. tickets' = [tickets EXCEPT ![s].status = "TAKEN", ![s].late = @ \/ dropped]
          /\ UNCHANGED <<events, requests>> /\ tickets[s].status = "ON_SALE"
      BY <2>1, <3>1 DEF Editing!TakeTicket
    <3>3. PICK sold : sold = [tickets[s] EXCEPT !.status = "TAKEN", !.late = @ \/ dropped]
      OBVIOUS
    <3>4. /\ sold \in TicketRecord /\ sold.faceValue = tickets[s].faceValue
          /\ sold.status = "TAKEN" /\ sold.late = (tickets[s].late \/ dropped)
      BY <1>1, <3>3 DEF TicketRecord
    <3>5. tickets' = [tickets EXCEPT ![s] = sold] BY <1>1, <3>2, <3>3 DEF TicketRecord
    <3> QED BY <3>1, <3>2, <3>4, <3>5
  <2>2. CASE Editing(e)!ReturnTicket(s)
    <3>1. PICK sold : sold = [tickets[s] EXCEPT !.status = "ON_SALE"] OBVIOUS
    <3>2. /\ sold \in TicketRecord /\ sold.faceValue = tickets[s].faceValue
          /\ sold.status = "ON_SALE" /\ sold.late = tickets[s].late
      BY <1>1, <3>1 DEF TicketRecord
    <3>3. /\ tickets' = [tickets EXCEPT ![s] = sold] /\ UNCHANGED <<events, requests>>
          /\ tickets[s].status = "TAKEN"
      BY <1>1, <2>2, <3>1 DEF Editing!ReturnTicket, TicketRecord
    <3> QED BY <3>2, <3>3
  <2> QED BY <2>1, <2>2
<1>3. /\ tickets' \in [Seat -> TicketRecord] /\ tickets'[s] = sold
      /\ \A other \in Seat : other # s => tickets'[other] = tickets[other]
  BY <1>1, <1>2
<1>4. Editing(e)!TypeOK' BY <1>2, <1>3 DEF EditIInv, Editing!TypeOK, TicketRecord
<1>5. Editing(e)!UnreviewedIsHidden'
  BY <1>2 DEF EditIInv, Editing!UnreviewedIsHidden, Editing!AddedBesideAnother
<1>6. RequestsAreAllowed(e)' BY <1>2 DEF EditIInv, RequestsAreAllowed
<1>7. Editing(e)!KeepsTakenTickets
  BY <1>1, <1>2, <1>3 DEF Editing!KeepsTakenTickets, TicketRecord
<1>8. TicketsHaveZones'
  <2> SUFFICES ASSUME NEW t \in Seat, tickets'[t].status # "NONE", ~tickets'[t].late
               PROVE  \E i \in DOMAIN events' : ZoneOf[t] \in events'[i].zones
    BY DEF TicketsHaveZones
  <2>1. tickets[t].status # "NONE" /\ ~tickets[t].late BY <1>2, <1>3
  <2> QED BY <1>2, <2>1 DEF EditIInv, TicketsHaveZones
<1>9. DropsAreChecked(e)'
  <2> SUFFICES ASSUME NEW r \in EditsOf[e], requests[r].phase = "update",
                      requests[r].write.prices # KEEP, NEW t \in Seat, SoldOnly(t)'
               PROVE  ZoneOf[t] \in requests[r].write.prices.zones
    BY <1>2 DEF DropsAreChecked
  <2>1. CASE t = s
    <3>1. ~Editing(e)!ZoneIsBeingDropped(s) BY <1>2, <1>3, <2>1 DEF SoldOnly
    <3> QED BY <2>1, <3>1 DEF Editing!ZoneIsBeingDropped, Editing!Idle
  <2>2. CASE t # s BY <1>3, <2>2 DEF EditIInv, DropsAreChecked, SoldOnly
  <2> QED BY <2>1, <2>2
<1> QED BY <1>4, <1>5, <1>6, <1>7, <1>8, <1>9 DEF EditIInv

LEMMA EditInit == ASSUME NEW e \in Catalogue, Editing(e)!Init PROVE EditIInv(e)
<1>1. Editing(e)!NoTicket \in TicketRecord BY DEF TicketRecord, Editing!NoTicket
<1>2. Editing(e)!TypeOK
  <2>1. events \in Seq(Editing(e)!EventRecord) /\ Len(events) = 0
    BY EmptySequence DEF Editing!Init
  <2>2. Len(events) <= MaxEventsOf[e] BY <2>1, EventAssumption
  <2> QED BY <1>1, <2>1, <2>2 DEF Editing!Init, Editing!TypeOK, TicketRecord
<1>3. Editing(e)!UnreviewedIsHidden BY DEF Editing!Init, Editing!UnreviewedIsHidden
<1>4. RequestsAreAllowed(e) /\ DropsAreChecked(e)
  BY DEF Editing!Init, Editing!Idle, RequestsAreAllowed, DropsAreChecked
<1>5. TicketsHaveZones BY DEF Editing!Init, Editing!NoTicket, TicketsHaveZones
<1> QED BY <1>2, <1>3, <1>4, <1>5 DEF EditIInv

LEMMA EditNext ==
  ASSUME NEW e \in Catalogue, EditIInv(e), [Editing(e)!Next]_eventVars
  PROVE  EditIInv(e)' /\ Editing(e)!KeepsTakenTickets
<1>1. CASE UNCHANGED eventVars
  <2>1. UNCHANGED <<events, tickets, requests>> BY <1>1 DEF eventVars
  <2>2. Editing(e)!TypeOK' BY <2>1 DEF EditIInv, Editing!TypeOK
  <2>3. Editing(e)!UnreviewedIsHidden' /\ TicketsHaveZones'
    BY <2>1 DEF EditIInv, Editing!UnreviewedIsHidden, Editing!AddedBesideAnother, TicketsHaveZones
  <2>4. RequestsAreAllowed(e)' /\ DropsAreChecked(e)'
    BY <2>1 DEF EditIInv, RequestsAreAllowed, DropsAreChecked, SoldOnly
  <2>5. Editing(e)!KeepsTakenTickets
    BY <2>1 DEF EditIInv, Editing!TypeOK, Editing!KeepsTakenTickets
  <2> QED BY <2>2, <2>3, <2>4, <2>5 DEF EditIInv
<1>2. ASSUME NEW w \in Editing(e)!Writes, Editing(e)!UpdateWithoutImage(w)
      PROVE  EditIInv(e)' /\ Editing(e)!KeepsTakenTickets
  <2>1. events # <<>> /\ Editing(e)!updateEventSale(w) /\ UNCHANGED requests
    BY <1>2 DEF Editing!UpdateWithoutImage, Editing!UpdateAllowed, Editing!Exists
  <2>2. w.prices # KEEP => \A s \in Seat : SoldOnly(s) => ZoneOf[s] \in w.prices.zones
    BY <1>2, UpdateChecks DEF Editing!UpdateWithoutImage
  <2> QED BY <2>1, <2>2, SaleUpdated
<1> QED BY <1>1, <1>2, RequestSent, PosterAnswered, VenueUpdated, EventReviewed, TicketSold
        DEF Editing!Next

-----------------------------------------------------------------------------
(* How an organisation comes to sell.                                      *)

ApplicationRecord ==
  [status : {"NONE", "PENDING"} \union Onboarding!Reviewed, checklist : SUBSET Paper,
   linkedEventId : EventDraft \union {NULL}]
AccountRecord == [username : Username, password : 1..MaxPassword, mustChangePassword : BOOLEAN]
DraftRequest == [phase : {"storing", "created"}, source : Application]

SellerIInv == Onboarding!TypeOK /\ Onboarding!SellersAreReviewed

SellerTypes ==
  /\ applications \in [Application -> ApplicationRecord]
  /\ accounts \in [Application -> {NULL} \union AccountRecord]
  /\ eventDrafts \in [EventDraft -> {Onboarding!NoDraft} \union DraftRequest]

(* The part of SellersAreReviewed that is about one application. *)
Reviewed(a) ==
  /\ applications[a].status \in {"APPROVED", "REGISTERED"} \/ accounts[a] # NULL
       => applications[a].checklist = Paper
  /\ accounts[a] # NULL => applications[a].status \in {"APPROVED", "REGISTERED"}
  /\ applications[a].status = "REGISTERED" <=> applications[a].linkedEventId # NULL
  /\ applications[a].linkedEventId # NULL =>
       /\ eventDrafts[applications[a].linkedEventId].phase = "created"
       /\ eventDrafts[applications[a].linkedEventId].source = a
NamesDiffer ==
  \A a \in Application : \A b \in Application \ {a} :
    accounts[a] # NULL /\ accounts[b] # NULL => accounts[a].username # accounts[b].username

LEMMA SellerParts ==
  SellerIInv <=> Onboarding!TypeOK /\ (\A a \in Application : Reviewed(a)) /\ NamesDiffer
BY DEF SellerIInv, Onboarding!SellersAreReviewed, Reviewed, NamesDiffer

LEMMA SellerTypesHold == ASSUME SellerIInv PROVE SellerTypes
BY DEF SellerIInv, Onboarding!TypeOK, SellerTypes, ApplicationRecord, AccountRecord, DraftRequest

LEMMA WholeNext ==
  ASSUME Onboarding!TypeOK', \A a \in Application : Reviewed(a)', NamesDiffer'
  PROVE  SellerIInv'
BY DEF SellerIInv, Onboarding!SellersAreReviewed, Reviewed, NamesDiffer

(* A step on one application that is neither approved nor registered. *)
LEMMA ApplicationStep ==
  ASSUME SellerIInv, NEW a \in Application, NEW record \in ApplicationRecord,
         applications' = [applications EXCEPT ![a] = record],
         accounts[a] = NULL, record.linkedEventId = NULL, record.status # "REGISTERED",
         record.status = "APPROVED" => record.checklist = Paper,
         UNCHANGED <<sellerNow, accounts, eventDrafts, tokens>>
  PROVE  SellerIInv'
<1>1. /\ SellerTypes /\ Onboarding!TypeOK /\ (\A b \in Application : Reviewed(b)) /\ NamesDiffer
  BY SellerTypesHold, SellerParts
<1>2. /\ applications' \in [Application -> ApplicationRecord] /\ applications'[a] = record
      /\ \A b \in Application : b # a => applications'[b] = applications[b]
  BY <1>1 DEF SellerTypes
<1>3. Onboarding!TypeOK' BY <1>1, <1>2 DEF Onboarding!TypeOK, ApplicationRecord
<1>4. ASSUME NEW b \in Application PROVE Reviewed(b)'
  <2>1. CASE b = a BY <1>2, <2>1 DEF Reviewed
  <2>2. CASE b # a BY <1>1, <1>2, <2>2 DEF Reviewed
  <2> QED BY <2>1, <2>2
<1>5. NamesDiffer' BY <1>1 DEF NamesDiffer
<1> QED BY <1>3, <1>4, <1>5, WholeNext

LEMMA SellerApplications ==
  ASSUME SellerIInv, NEW a \in Application,
         \/ Onboarding!submitSellerApplication(a) \/ Onboarding!approveSellerApplication(a)
         \/ Onboarding!rejectSellerApplication(a)
         \/ \E list \in SUBSET Paper : Onboarding!updateSellerApplicationChecklist(a, list)
  PROVE  SellerIInv'
<1>1. SellerTypes /\ Reviewed(a) BY SellerTypesHold, SellerParts
<1>2. applications[a] \in ApplicationRecord BY <1>1 DEF SellerTypes
<1>3. ASSUME applications[a].status \in {"NONE", "PENDING"}
      PROVE  accounts[a] = NULL /\ applications[a].linkedEventId = NULL
  BY <1>1, <1>3 DEF Reviewed
<1>4. ASSUME NEW status \in {"PENDING", "APPROVED", "REJECTED"},
             applications[a].status \in {"NONE", "PENDING"},
             status = "APPROVED" => applications[a].checklist = Paper,
             applications' = [applications EXCEPT ![a].status = status],
             UNCHANGED <<sellerNow, accounts, eventDrafts, tokens>>
      PROVE  SellerIInv'
  <2> DEFINE record == [applications[a] EXCEPT !.status = status]
  <2>1. /\ record \in ApplicationRecord /\ record.status = status
        /\ record.linkedEventId = NULL /\ record.checklist = applications[a].checklist
    BY <1>2, <1>3, <1>4 DEF ApplicationRecord, Onboarding!Reviewed
  <2>2. applications' = [applications EXCEPT ![a] = record] BY <1>4
  <2> HIDE DEF record
  <2> QED BY <1>3, <1>4, <2>1, <2>2, ApplicationStep
<1>5. CASE Onboarding!submitSellerApplication(a)
  BY <1>4, <1>5 DEF Onboarding!submitSellerApplication
<1>6. CASE Onboarding!approveSellerApplication(a)
  BY <1>4, <1>6 DEF Onboarding!approveSellerApplication, Onboarding!assertPending
<1>7. CASE Onboarding!rejectSellerApplication(a)
  BY <1>4, <1>7 DEF Onboarding!rejectSellerApplication, Onboarding!assertPending
<1>8. ASSUME NEW list \in SUBSET Paper, Onboarding!updateSellerApplicationChecklist(a, list)
      PROVE  SellerIInv'
  <2> DEFINE record == [applications[a] EXCEPT !.checklist = list]
  <2>1. /\ applications[a].status = "PENDING"
        /\ applications' = [applications EXCEPT ![a] = record]
        /\ UNCHANGED <<sellerNow, accounts, eventDrafts, tokens>>
    BY <1>8 DEF Onboarding!updateSellerApplicationChecklist, Onboarding!assertPending
  <2>2. /\ record \in ApplicationRecord /\ record.status = "PENDING"
        /\ record.linkedEventId = NULL
    BY <1>2, <1>3, <2>1 DEF ApplicationRecord
  <2> HIDE DEF record
  <2> QED BY <1>3, <2>1, <2>2, ApplicationStep
<1> QED BY <1>5, <1>6, <1>7, <1>8

LEMMA SellerIssued ==
  ASSUME SellerIInv, NEW a \in Application, NEW name \in Username,
         Onboarding!issueSellerAccount(a, name)
  PROVE  SellerIInv'
<1> USE SellerAssumption
<1> DEFINE account == [username |-> name, password |-> 1, mustChangePassword |-> TRUE]
<1>1. /\ SellerTypes /\ Onboarding!TypeOK /\ (\A b \in Application : Reviewed(b)) /\ NamesDiffer
  BY SellerTypesHold, SellerParts
<1>2. /\ applications[a].status = "APPROVED" /\ accounts[a] = NULL
      /\ \A b \in Application : accounts[b] # NULL => accounts[b].username # name
      /\ accounts' = [accounts EXCEPT ![a] = account]
      /\ UNCHANGED <<sellerNow, applications, eventDrafts, tokens>>
  BY DEF Onboarding!issueSellerAccount
<1>3. account.username = name OBVIOUS
<1>4. /\ accounts' \in [Application -> {NULL} \union {account} \union AccountRecord]
      /\ accounts'[a] = account
      /\ \A b \in Application : b # a => accounts'[b] = accounts[b]
  BY <1>1, <1>2 DEF SellerTypes
<1>5. account \in AccountRecord
  <2>1. 1 \in 1..MaxPassword OBVIOUS
  <2> QED BY <2>1 DEF AccountRecord
<1> HIDE DEF account
<1>6. Onboarding!TypeOK' BY <1>1, <1>2, <1>4, <1>5 DEF Onboarding!TypeOK, AccountRecord
<1>7. ASSUME NEW b \in Application PROVE Reviewed(b)'
  <2>1. CASE b = a BY <1>1, <1>2, <2>1 DEF Reviewed
  <2>2. CASE b # a BY <1>1, <1>2, <1>4, <2>2 DEF Reviewed
  <2> QED BY <2>1, <2>2
<1>8. NamesDiffer'
  <2> SUFFICES ASSUME NEW b \in Application, NEW c \in Application \ {b},
                      accounts'[b] # NULL, accounts'[c] # NULL
               PROVE  accounts'[b].username # accounts'[c].username
    BY DEF NamesDiffer
  <2>1. CASE b = a BY <1>2, <1>3, <1>4, <2>1
  <2>2. CASE c = a BY <1>2, <1>3, <1>4, <2>2
  <2>3. CASE b # a /\ c # a BY <1>1, <1>4, <2>3 DEF NamesDiffer
  <2> QED BY <2>1, <2>2, <2>3
<1> QED BY <1>6, <1>7, <1>8, WholeNext

LEMMA SellerPassword ==
  ASSUME SellerIInv, NEW a \in Application, Onboarding!changeSellerPassword(a)
  PROVE  SellerIInv'
<1> USE SellerAssumption
<1> DEFINE account == [accounts[a] EXCEPT !.password = @ + 1, !.mustChangePassword = FALSE]
<1>1. /\ SellerTypes /\ Onboarding!TypeOK /\ (\A b \in Application : Reviewed(b)) /\ NamesDiffer
  BY SellerTypesHold, SellerParts
<1>2. /\ accounts[a] # NULL /\ accounts[a].password < MaxPassword
      /\ accounts' = [accounts EXCEPT ![a].password = @ + 1, ![a].mustChangePassword = FALSE]
      /\ UNCHANGED <<sellerNow, applications, eventDrafts, tokens>>
  BY DEF Onboarding!changeSellerPassword, Onboarding!sellerSession
<1>3. accounts[a] \in AccountRecord BY <1>1, <1>2 DEF SellerTypes
<1>4. account \in AccountRecord /\ account.username = accounts[a].username
  <2>1. accounts[a].password \in 1..MaxPassword BY <1>3 DEF AccountRecord
  <2>2. accounts[a].password + 1 \in 1..MaxPassword BY <1>2, <2>1
  <2> QED BY <1>3, <2>2 DEF AccountRecord
<1>5. accounts' = [accounts EXCEPT ![a] = account]
  BY <1>1, <1>2, <1>3 DEF SellerTypes, AccountRecord
<1> HIDE DEF account
<1>6. /\ accounts' \in [Application -> {NULL} \union AccountRecord]
      /\ accounts'[a] = account
      /\ \A b \in Application : b # a => accounts'[b] = accounts[b]
  BY <1>1, <1>4, <1>5 DEF SellerTypes
<1>7. Onboarding!TypeOK' BY <1>1, <1>2, <1>6 DEF Onboarding!TypeOK, AccountRecord
<1>8. ASSUME NEW b \in Application PROVE Reviewed(b)'
  <2>1. CASE b = a BY <1>1, <1>2, <2>1 DEF Reviewed
  <2>2. CASE b # a BY <1>1, <1>2, <1>6, <2>2 DEF Reviewed
  <2> QED BY <2>1, <2>2
<1>9. \A b \in Application : accounts'[b] # NULL =>
        accounts[b] # NULL /\ accounts'[b].username = accounts[b].username
  BY <1>2, <1>4, <1>6
<1>10. NamesDiffer' BY <1>1, <1>9 DEF NamesDiffer
<1> QED BY <1>7, <1>8, <1>10, WholeNext

LEMMA SellerSessions ==
  ASSUME SellerIInv,
         \/ Onboarding!Tick
         \/ \E a \in Application : \/ Onboarding!Logout(a)
                                   \/ \E password \in 1..MaxPassword :
                                        Onboarding!authenticateSellerAccount(a, password)
  PROVE  SellerIInv'
<1>1. UNCHANGED <<applications, accounts, eventDrafts>>
  BY DEF Onboarding!Tick, Onboarding!Logout, Onboarding!authenticateSellerAccount
<1>2. sellerNow' \in 0..SellerHorizon
  BY SellerAssumption DEF SellerIInv, Onboarding!TypeOK, Onboarding!Tick, Onboarding!Logout,
                          Onboarding!authenticateSellerAccount
<1>3. tokens' \in [Application -> 0..SellerHorizon \union {NULL}]
  BY DEF SellerIInv, Onboarding!TypeOK, Onboarding!Tick, Onboarding!Logout,
         Onboarding!authenticateSellerAccount
<1>4. Onboarding!TypeOK' BY <1>1, <1>2, <1>3 DEF SellerIInv, Onboarding!TypeOK
<1>5. Onboarding!SellersAreReviewed' BY <1>1 DEF SellerIInv, Onboarding!SellersAreReviewed
<1> QED BY <1>4, <1>5 DEF SellerIInv

LEMMA SellerDrafts ==
  ASSUME SellerIInv, NEW d \in EventDraft,
         Onboarding!PosterRejected(d) \/ \E a \in Application : Onboarding!StartDraft(d, a)
  PROVE  SellerIInv'
<1>1. /\ SellerTypes /\ Onboarding!TypeOK /\ (\A b \in Application : Reviewed(b)) /\ NamesDiffer
  BY SellerTypesHold, SellerParts
<1>2. eventDrafts[d].phase # "created" /\ UNCHANGED <<sellerNow, applications, accounts, tokens>>
  BY DEF Onboarding!PosterRejected, Onboarding!StartDraft, Onboarding!NoDraft
<1>3. /\ eventDrafts' \in [EventDraft -> {Onboarding!NoDraft} \union DraftRequest]
      /\ \A e \in EventDraft : e # d => eventDrafts'[e] = eventDrafts[e]
  BY <1>1 DEF SellerTypes, DraftRequest, Onboarding!PosterRejected, Onboarding!StartDraft
<1>4. Onboarding!TypeOK' BY <1>1, <1>2, <1>3 DEF Onboarding!TypeOK, DraftRequest
<1>5. ASSUME NEW a \in Application PROVE Reviewed(a)'
  <2>1. applications[a] \in ApplicationRecord BY <1>1 DEF SellerTypes
  <2>2. applications[a].linkedEventId \in EventDraft \union {NULL}
    BY <2>1 DEF ApplicationRecord
  <2> QED BY <1>1, <1>2, <1>3, <2>2 DEF Reviewed
<1>6. NamesDiffer' BY <1>1, <1>2 DEF NamesDiffer
<1> QED BY <1>4, <1>5, <1>6, WholeNext

LEMMA SellerDrafted ==
  ASSUME SellerIInv, NEW d \in EventDraft, Onboarding!createEventDraft(d)
  PROVE  SellerIInv'
<1> USE SellerAssumption
<1>1. /\ SellerTypes /\ Onboarding!TypeOK /\ (\A b \in Application : Reviewed(b)) /\ NamesDiffer
  BY SellerTypesHold, SellerParts
<1>2. PICK draft : draft = [eventDrafts[d] EXCEPT !.phase = "created"]
  OBVIOUS
<1>3. /\ eventDrafts[d].phase = "storing" /\ eventDrafts' = [eventDrafts EXCEPT ![d] = draft]
      /\ UNCHANGED <<sellerNow, accounts, tokens>>
  BY <1>2 DEF Onboarding!createEventDraft
<1>4. eventDrafts[d] \in DraftRequest
  BY <1>1, <1>3 DEF SellerTypes, Onboarding!NoDraft
<1>5. PICK s \in Application : s = eventDrafts[d].source
  BY <1>4 DEF DraftRequest
<1>6. PICK record :
        record = [applications[s] EXCEPT !.status = "REGISTERED", !.linkedEventId = d]
  OBVIOUS
<1>7. draft \in DraftRequest /\ draft.phase = "created" /\ draft.source = s
  BY <1>2, <1>4, <1>5 DEF DraftRequest
<1>8. applications[s] \in ApplicationRecord BY <1>1 DEF SellerTypes
<1>9. \/ applications[s].status = "APPROVED" /\ applications' = [applications EXCEPT ![s] = record]
      \/ applications' = applications
  BY <1>1, <1>5, <1>6, <1>8
     DEF Onboarding!createEventDraft, Onboarding!Links, SellerTypes, ApplicationRecord
<1>10. /\ record \in ApplicationRecord /\ record.status = "REGISTERED"
       /\ record.linkedEventId = d /\ record.checklist = applications[s].checklist
  BY <1>6, <1>8 DEF ApplicationRecord, Onboarding!Reviewed
<1>11. /\ eventDrafts' \in [EventDraft -> {Onboarding!NoDraft} \union DraftRequest]
       /\ eventDrafts'[d] = draft
       /\ \A e \in EventDraft : e # d => eventDrafts'[e] = eventDrafts[e]
  BY <1>1, <1>3, <1>7 DEF SellerTypes
<1>12. applications' \in [Application -> ApplicationRecord]
  BY <1>1, <1>9, <1>10 DEF SellerTypes
<1>13. Onboarding!TypeOK'
  BY <1>1, <1>3, <1>11, <1>12 DEF Onboarding!TypeOK, DraftRequest, ApplicationRecord
<1>14. ASSUME NEW a \in Application, applications'[a] = applications[a] PROVE Reviewed(a)'
  <2>1. applications[a] \in ApplicationRecord BY <1>1 DEF SellerTypes
  <2>2. applications[a].linkedEventId \in EventDraft \union {NULL}
    BY <2>1 DEF ApplicationRecord
  <2>3. Reviewed(a) BY <1>1
  <2>4. applications[a].linkedEventId # NULL => applications[a].linkedEventId # d
    BY <1>3, <2>3 DEF Reviewed
  <2> QED BY <1>3, <1>11, <1>14, <2>2, <2>3, <2>4 DEF Reviewed
<1>15. ASSUME applications[s].status = "APPROVED", applications' = [applications EXCEPT ![s] = record]
       PROVE  Reviewed(s)'
  <2>1. applications'[s] = record BY <1>1, <1>15 DEF SellerTypes
  <2>2. record.checklist = Paper BY <1>1, <1>10, <1>15 DEF Reviewed
  <2> QED BY <1>3, <1>7, <1>10, <1>11, <2>1, <2>2 DEF Reviewed
<1>16. ASSUME NEW a \in Application PROVE Reviewed(a)'
  <2>1. CASE applications' = applications BY <1>14, <2>1
  <2>2. CASE applications' # applications
    <3>1. CASE a = s BY <1>9, <1>15, <2>2, <3>1
    <3>2. CASE a # s
      <4>1. applications'[a] = applications[a]
        BY <1>1, <1>9, <2>2, <3>2 DEF SellerTypes
      <4> QED BY <1>14, <4>1
    <3> QED BY <3>1, <3>2
  <2> QED BY <2>1, <2>2
<1>17. NamesDiffer' BY <1>1, <1>3 DEF NamesDiffer
<1> QED BY <1>13, <1>16, <1>17, WholeNext

LEMMA SellerInit == Onboarding!Init => SellerIInv
<1> SUFFICES ASSUME Onboarding!Init PROVE SellerIInv
  OBVIOUS
<1>1. Onboarding!TypeOK
  BY SellerAssumption DEF Onboarding!Init, Onboarding!TypeOK
<1>2. Onboarding!SellersAreReviewed
  BY DEF Onboarding!Init, Onboarding!SellersAreReviewed
<1> QED BY <1>1, <1>2 DEF SellerIInv

LEMMA SellerNext == ASSUME SellerIInv, [Onboarding!Next]_sellerVars PROVE SellerIInv'
<1>1. CASE UNCHANGED sellerVars
  BY <1>1 DEF SellerIInv, Onboarding!TypeOK, Onboarding!SellersAreReviewed, sellerVars
<1> QED BY <1>1, SellerApplications, SellerIssued, SellerPassword, SellerSessions,
           SellerDrafts, SellerDrafted DEF Onboarding!Next

(* An application changes while it is reviewed, or gets its event.         *)
Decided ==
  \A a \in Application :
    /\ applications[a].status \in {"REJECTED", "REGISTERED"} => applications'[a] = applications[a]
    /\ applications[a].status = "APPROVED" => applications'[a].status \in {"APPROVED", "REGISTERED"}

LEMMA SellerDecided == ASSUME SellerIInv, [Onboarding!Next]_sellerVars PROVE Decided
<1>1. applications \in [Application -> ApplicationRecord]
  BY DEF SellerIInv, Onboarding!TypeOK, ApplicationRecord
<1>2. CASE UNCHANGED applications BY <1>2 DEF Decided
<1>3. ASSUME NEW b \in Application, applications[b].status \in {"NONE", "PENDING"},
             \A a \in Application : a # b => applications'[a] = applications[a]
      PROVE  Decided
  BY <1>3 DEF Decided
<1>4. ASSUME NEW b \in Application, Onboarding!submitSellerApplication(b) PROVE Decided
  BY <1>1, <1>3, <1>4 DEF Onboarding!submitSellerApplication
<1>5. ASSUME NEW b \in Application, NEW checklist,
             Onboarding!updateSellerApplicationChecklist(b, checklist)
      PROVE  Decided
  BY <1>1, <1>3, <1>5 DEF Onboarding!updateSellerApplicationChecklist, Onboarding!assertPending
<1>6. ASSUME NEW b \in Application, Onboarding!approveSellerApplication(b) PROVE Decided
  BY <1>1, <1>3, <1>6 DEF Onboarding!approveSellerApplication, Onboarding!assertPending
<1>7. ASSUME NEW b \in Application, Onboarding!rejectSellerApplication(b) PROVE Decided
  BY <1>1, <1>3, <1>7 DEF Onboarding!rejectSellerApplication, Onboarding!assertPending
<1>8. ASSUME NEW d \in EventDraft, Onboarding!createEventDraft(d) PROVE Decided
  <2>1. PICK b : b = eventDrafts[d].source OBVIOUS
  <2>2. CASE Onboarding!Links(b)
    <3>1. /\ applications' = [applications EXCEPT ![b].status = "REGISTERED", ![b].linkedEventId = d]
          /\ applications[b].status = "APPROVED"
      BY <1>8, <2>1, <2>2 DEF Onboarding!createEventDraft, Onboarding!Links
    <3>2. /\ \A a \in Application : a # b => applications'[a] = applications[a]
          /\ b \in Application => applications'[b].status = "REGISTERED"
      BY <1>1, <3>1 DEF ApplicationRecord
    <3> QED BY <3>1, <3>2 DEF Decided
  <2>3. CASE ~Onboarding!Links(b)
    BY <1>2, <1>8, <2>1, <2>3 DEF Onboarding!createEventDraft
  <2> QED BY <2>2, <2>3
<1>9. CASE UNCHANGED sellerVars BY <1>2, <1>9 DEF sellerVars
<1> QED
  BY <1>2, <1>4, <1>5, <1>6, <1>7, <1>8, <1>9
     DEF Onboarding!Next, Onboarding!Tick, Onboarding!issueSellerAccount,
         Onboarding!authenticateSellerAccount, Onboarding!changeSellerPassword,
         Onboarding!Logout, Onboarding!StartDraft, Onboarding!PosterRejected

-----------------------------------------------------------------------------
(* Logging in.                                                             *)

LoginRecord ==
  [phase : {"unopened", "opened", "exchange", "profile", "done", "failed"},
   client : {"web", "native", "google"}, subject : Subject \union {NULL},
   issuedAt : 0..LoginHorizon, consumed : BOOLEAN]
SessionRecord ==
  [login : Login, userId : Subject, issuedAt : 0..LoginHorizon,
   expiresAt : Nat, revoked : BOOLEAN]

(* A login that was opened is somebody's. *)
LoginsAreOfSubjects ==
  \A l \in Login : logins[l].phase # "unopened" => logins[l].subject \in Subject

(* A hand-off code that opened a session is used up. *)
CodesAreUsedUp ==
  \A i \in DOMAIN sessions :
    logins[sessions[i].login].client = "native" => logins[sessions[i].login].consumed

(* Who was answered has an account. *)
AnsweredAreKnown ==
  \A l \in Login : logins[l].phase = "done" =>
    \E i \in DOMAIN users : users[i] = logins[l].subject

LoginIInv ==
  /\ Social!TypeOK
  /\ LoginsAreOfSubjects /\ CodesAreUsedUp /\ AnsweredAreKnown
  /\ Social!LoginsAreWhole

LoginTypes ==
  /\ loginNow \in 0..LoginHorizon /\ loginNow \in Nat
  /\ logins \in [Login -> LoginRecord]
  /\ stateCookie \in Login \union {NULL}
  /\ users \in Seq(Subject) /\ sessions \in Seq(SessionRecord)
  /\ \A l \in Login : logins[l] \in LoginRecord /\ logins[l].issuedAt \in Nat
  /\ \A i \in DOMAIN sessions : sessions[i] \in SessionRecord

LEMMA LoginTypesHold == ASSUME LoginIInv PROVE LoginTypes
<1> USE LoginAssumption
<1>1. /\ loginNow \in 0..LoginHorizon /\ logins \in [Login -> LoginRecord]
      /\ stateCookie \in Login \union {NULL}
      /\ users \in Seq(Subject) /\ sessions \in Seq(SessionRecord)
  BY DEF LoginIInv, Social!TypeOK, LoginRecord, SessionRecord
<1>2. \A l \in Login : logins[l] \in LoginRecord BY <1>1
<1>3. \A l \in Login : logins[l].issuedAt \in Nat BY <1>2 DEF LoginRecord
<1>4. \A i \in DOMAIN sessions : sessions[i] \in SessionRecord BY <1>1
<1> QED BY <1>1, <1>2, <1>3, <1>4 DEF LoginTypes

(* What a step that adds no session must keep. *)
LEMMA LoginsKept ==
  ASSUME LoginIInv, loginNow' \in 0..LoginHorizon,
         logins' \in [Login -> LoginRecord], LoginsAreOfSubjects', AnsweredAreKnown',
         stateCookie' \in Login \union {NULL},
         users' \in Seq(Subject),
         \A i, j \in DOMAIN users' : i # j => users'[i] # users'[j],
         \A i \in DOMAIN users : \E j \in DOMAIN users' : users'[j] = users[i],
         sessions' \in Seq(SessionRecord), DOMAIN sessions' = DOMAIN sessions,
         \A i \in DOMAIN sessions :
           /\ sessions'[i].login = sessions[i].login
           /\ sessions'[i].userId = sessions[i].userId
           /\ sessions'[i].issuedAt = sessions[i].issuedAt,
         \A l \in Login : logins[l].phase = "done" =>
           logins'[l] = logins[l] \/ logins'[l] = [logins[l] EXCEPT !.consumed = TRUE]
  PROVE  LoginIInv'
<1>1. LoginTypes BY LoginTypesHold
<1>2. Social!TypeOK' BY <1>1 DEF Social!TypeOK, LoginTypes, LoginRecord, SessionRecord
<1>3. ASSUME NEW i \in DOMAIN sessions
      PROVE  LET login == logins[sessions[i].login]
                 later == logins'[sessions'[i].login]
             IN /\ login.phase = "done" /\ later.phase = "done"
                /\ later.client = login.client /\ later.subject = login.subject
                /\ later.issuedAt = login.issuedAt
                /\ login.consumed => later.consumed
  <2> DEFINE l == sessions[i].login
  <2>1. l \in Login
    <3>1. sessions[i] \in SessionRecord BY <1>1 DEF LoginTypes
    <3> QED BY <3>1 DEF SessionRecord
  <2>2. logins[l].phase = "done" /\ sessions'[i].login = l
    BY DEF LoginIInv, Social!LoginsAreWhole
  <2>3. logins[l] \in LoginRecord BY <1>1, <2>1 DEF LoginTypes
  <2>4. logins'[l] = logins[l] \/ logins'[l] = [logins[l] EXCEPT !.consumed = TRUE]
    BY <2>1, <2>2
  <2> HIDE DEF l
  <2>5. /\ logins'[l].phase = logins[l].phase /\ logins'[l].client = logins[l].client
        /\ logins'[l].subject = logins[l].subject /\ logins'[l].issuedAt = logins[l].issuedAt
        /\ logins[l].consumed => logins'[l].consumed
    BY <2>3, <2>4 DEF LoginRecord
  <2> QED BY <2>2, <2>5 DEF l
<1>4. CodesAreUsedUp' BY <1>3 DEF LoginIInv, CodesAreUsedUp
<1>5. ASSUME NEW i \in DOMAIN sessions'
      PROVE  LET login == logins'[sessions'[i].login]
             IN /\ login.phase = "done" /\ sessions'[i].userId = login.subject
                /\ \E j \in DOMAIN users' : users'[j] = login.subject
                /\ sessions'[i].issuedAt <= login.issuedAt + HANDOFF_MAX_AGE
                /\ login.client # "web" =>
                     \A j \in DOMAIN sessions' : i # j => sessions'[i].login # sessions'[j].login
  <2> DEFINE login == logins[sessions[i].login]
             later == logins'[sessions'[i].login]
  <2>1. /\ sessions[i].userId = login.subject
        /\ \E j \in DOMAIN users : users[j] = login.subject
        /\ sessions[i].issuedAt <= login.issuedAt + HANDOFF_MAX_AGE
        /\ login.client # "web" =>
             \A j \in DOMAIN sessions : i # j => sessions[i].login # sessions[j].login
    BY DEF LoginIInv, Social!LoginsAreWhole, Social!Known
  <2>2. /\ later.phase = "done" /\ later.client = login.client
        /\ later.subject = login.subject /\ later.issuedAt = login.issuedAt
    BY <1>3
  <2> HIDE DEF login, later
  <2>3. \E j \in DOMAIN users' : users'[j] = later.subject BY <2>1, <2>2
  <2>4. /\ later.phase = "done" /\ sessions'[i].userId = later.subject
        /\ sessions'[i].issuedAt <= later.issuedAt + HANDOFF_MAX_AGE
        /\ later.client # "web" =>
             \A j \in DOMAIN sessions' : i # j => sessions'[i].login # sessions'[j].login
    BY <2>1, <2>2
  <2> QED BY <2>3, <2>4 DEF later
<1>6. Social!LoginsAreWhole' BY <1>5 DEF Social!LoginsAreWhole, Social!Known
<1> QED BY <1>2, <1>4, <1>6 DEF LoginIInv

(* A user is found or added. *)
LEMMA UpsertFacts ==
  ASSUME LoginIInv, NEW id \in Subject
  PROVE  LET new == Social!upsertSocialUser(id)
         IN /\ new \in Seq(Subject)
            /\ \A i, j \in DOMAIN new : i # j => new[i] # new[j]
            /\ \E i \in DOMAIN new : new[i] = id
            /\ \A i \in DOMAIN users : i \in DOMAIN new /\ new[i] = users[i]
<1>1. users \in Seq(Subject) BY DEF LoginIInv, Social!TypeOK
<1>2. \A i, j \in DOMAIN users : i # j => users[i] # users[j]
  BY DEF LoginIInv, Social!LoginsAreWhole
<1>3. CASE Social!Known(id)
  BY <1>1, <1>2, <1>3 DEF Social!upsertSocialUser, Social!Known
<1>4. CASE ~Social!Known(id)
  <2>1. Social!upsertSocialUser(id) = Append(users, id) BY <1>4 DEF Social!upsertSocialUser
  <2>2. \A i \in DOMAIN users : users[i] # id BY <1>4 DEF Social!Known
  <2>3. /\ Append(users, id) \in Seq(Subject)
        /\ Append(users, id)[Len(users) + 1] = id
        /\ DOMAIN Append(users, id) = DOMAIN users \union {Len(users) + 1}
        /\ \A i \in DOMAIN users : Append(users, id)[i] = users[i]
    BY <1>1
  <2> QED BY <1>2, <2>1, <2>2, <2>3
<1> QED BY <1>3, <1>4

(* A session is issued for a login that was answered in time. *)
LEMMA LoginIssued ==
  ASSUME LoginIInv, NEW l \in Login, Social!issueNativeSession(l), loginNow' = loginNow,
         NEW login \in LoginRecord, logins' = [logins EXCEPT ![l] = login],
         login.phase = "done", login.subject = logins[l].subject, login.subject \in Subject,
         login.client = logins[l].client,
         logins[l].phase = "done" => login.issuedAt = logins[l].issuedAt,
         loginNow <= login.issuedAt + HANDOFF_MAX_AGE,
         login.client = "native" => ~logins[l].consumed /\ login.consumed,
         login.client = "google" => logins[l].phase # "done",
         stateCookie' \in Login \union {NULL},
         users' \in Seq(Subject),
         \A i, j \in DOMAIN users' : i # j => users'[i] # users'[j],
         \E i \in DOMAIN users' : users'[i] = login.subject,
         \A i \in DOMAIN users : i \in DOMAIN users' /\ users'[i] = users[i]
  PROVE  LoginIInv'
<1> USE LoginAssumption
<1> DEFINE n == Len(sessions) + 1
           new == [login |-> l, userId |-> logins[l].subject, issuedAt |-> loginNow,
                   expiresAt |-> loginNow + LOGIN_MAX_AGE, revoked |-> FALSE]
<1>1. LoginTypes BY LoginTypesHold
<1>2. sessions' = Append(sessions, new) BY DEF Social!issueNativeSession
<1>3. /\ new \in SessionRecord /\ new.login = l /\ new.userId = login.subject
      /\ new.issuedAt = loginNow
  BY <1>1 DEF LoginTypes, SessionRecord
<1> HIDE DEF new
<1>4. /\ sessions' \in Seq(SessionRecord)
      /\ DOMAIN sessions' = DOMAIN sessions \union {n} /\ n \notin DOMAIN sessions
      /\ sessions'[n] = new
      /\ \A i \in DOMAIN sessions : sessions'[i] = sessions[i]
  BY <1>1, <1>2, <1>3 DEF LoginTypes
<1>5. /\ logins' \in [Login -> LoginRecord] /\ logins'[l] = login
      /\ \A m \in Login : m # l => logins'[m] = logins[m]
  BY <1>1 DEF LoginTypes
<1> HIDE DEF n
<1>6. Social!TypeOK'
  BY <1>1, <1>4, <1>5 DEF LoginTypes, Social!TypeOK, LoginRecord, SessionRecord
<1>7. LoginsAreOfSubjects' BY <1>5 DEF LoginIInv, LoginsAreOfSubjects
<1>12. AnsweredAreKnown'
  <2> SUFFICES ASSUME NEW m \in Login, logins'[m].phase = "done"
               PROVE  \E i \in DOMAIN users' : users'[i] = logins'[m].subject
    BY DEF AnsweredAreKnown
  <2>1. CASE m = l BY <1>5, <2>1
  <2>2. CASE m # l
    <3>1. \E i \in DOMAIN users : users[i] = logins[m].subject
      BY <1>5, <2>2 DEF LoginIInv, AnsweredAreKnown
    <3> QED BY <1>5, <2>2, <3>1
  <2> QED BY <2>1, <2>2
<1>8. ASSUME NEW i \in DOMAIN sessions
      PROVE  /\ sessions[i].login \in Login
             /\ logins[sessions[i].login].phase = "done"
             /\ sessions[i].userId = logins[sessions[i].login].subject
             /\ \E j \in DOMAIN users : users[j] = logins[sessions[i].login].subject
             /\ sessions[i].issuedAt <= logins[sessions[i].login].issuedAt + HANDOFF_MAX_AGE
             /\ sessions[i].login = l => login.client = "web"
             /\ logins'[sessions[i].login].phase = "done"
             /\ logins'[sessions[i].login].client = logins[sessions[i].login].client
             /\ logins'[sessions[i].login].subject = logins[sessions[i].login].subject
             /\ logins'[sessions[i].login].issuedAt = logins[sessions[i].login].issuedAt
             /\ logins[sessions[i].login].client = "native" => logins'[sessions[i].login].consumed
  <2> DEFINE m == sessions[i].login
  <2>1. m \in Login
    <3>1. sessions[i] \in SessionRecord BY <1>1 DEF LoginTypes
    <3> QED BY <3>1 DEF SessionRecord
  <2>2. /\ logins[m].phase = "done" /\ sessions[i].userId = logins[m].subject
        /\ \E j \in DOMAIN users : users[j] = logins[m].subject
        /\ sessions[i].issuedAt <= logins[m].issuedAt + HANDOFF_MAX_AGE
    BY DEF LoginIInv, Social!LoginsAreWhole, Social!Known
  <2>3. logins[m].client = "native" => logins[m].consumed BY DEF LoginIInv, CodesAreUsedUp
  <2>4. m = l => login.client = "web"
    <3>1. login.client \in {"web", "native", "google"} BY DEF LoginRecord
    <3> QED BY <2>2, <2>3, <3>1
  <2>5. /\ logins'[m].phase = "done" /\ logins'[m].client = logins[m].client
        /\ logins'[m].subject = logins[m].subject /\ logins'[m].issuedAt = logins[m].issuedAt
        /\ logins[m].client = "native" => logins'[m].consumed
    BY <1>5, <2>1, <2>2, <2>3
  <2> QED BY <2>1, <2>2, <2>4, <2>5
<1>9. CodesAreUsedUp'
  <2> SUFFICES ASSUME NEW i \in DOMAIN sessions', logins'[sessions'[i].login].client = "native"
               PROVE  logins'[sessions'[i].login].consumed
    BY DEF CodesAreUsedUp
  <2>1. CASE i \in DOMAIN sessions BY <1>4, <1>8, <2>1
  <2>2. CASE i = n BY <1>3, <1>4, <1>5, <2>2
  <2> QED BY <1>4, <2>1, <2>2
<1>10. ASSUME NEW i \in DOMAIN sessions'
       PROVE  LET later == logins'[sessions'[i].login]
              IN /\ later.phase = "done" /\ sessions'[i].userId = later.subject
                 /\ \E j \in DOMAIN users' : users'[j] = later.subject
                 /\ sessions'[i].issuedAt <= later.issuedAt + HANDOFF_MAX_AGE
                 /\ later.client # "web" =>
                      \A j \in DOMAIN sessions' : i # j => sessions'[i].login # sessions'[j].login
  <2>1. CASE i \in DOMAIN sessions
    <3>1. sessions'[i] = sessions[i] BY <1>4, <2>1
    <3>2. logins'[sessions[i].login].client # "web" =>
            \A j \in DOMAIN sessions' : i # j => sessions[i].login # sessions'[j].login
      <4> SUFFICES ASSUME logins'[sessions[i].login].client # "web",
                          NEW j \in DOMAIN sessions', i # j
                   PROVE  sessions[i].login # sessions'[j].login
        OBVIOUS
      <4>1. logins[sessions[i].login].client # "web" BY <1>8, <2>1
      <4>2. CASE j \in DOMAIN sessions
        BY <1>4, <2>1, <4>1, <4>2 DEF LoginIInv, Social!LoginsAreWhole
      <4>3. CASE j = n BY <1>3, <1>4, <1>5, <1>8, <2>1, <4>3
      <4> QED BY <1>4, <4>2, <4>3
    <3>3. \E j \in DOMAIN users' : users'[j] = logins'[sessions[i].login].subject
      BY <1>8, <2>1
    <3> QED BY <1>8, <2>1, <3>1, <3>2, <3>3
  <2>2. CASE i = n
    <3>1. sessions'[i] = new /\ logins'[sessions'[i].login] = login BY <1>3, <1>4, <1>5, <2>2
    <3>2. login.client # "web" => \A j \in DOMAIN sessions' : i # j => l # sessions'[j].login
      BY <1>4, <1>8, <2>2
    <3> QED BY <1>3, <3>1, <3>2
  <2> QED BY <1>4, <2>1, <2>2
<1>11. Social!LoginsAreWhole' BY <1>10 DEF Social!LoginsAreWhole, Social!Known
<1> QED BY <1>6, <1>7, <1>9, <1>11, <1>12 DEF LoginIInv

(* A login goes on before it is answered, the cookie with it. *)
LEMMA LoginGoesOn ==
  ASSUME LoginIInv, NEW l \in Login, NEW login \in LoginRecord,
         logins[l].phase # "done", logins' = [logins EXCEPT ![l] = login],
         login.phase # "done", login.subject \in Subject,
         stateCookie' \in Login \union {NULL},
         UNCHANGED <<loginNow, users, sessions>>
  PROVE  LoginIInv'
<1>1. LoginTypes BY LoginTypesHold
<1>2. /\ logins' \in [Login -> LoginRecord] /\ logins'[l] = login
      /\ \A m \in Login : m # l => logins'[m] = logins[m]
  BY <1>1 DEF LoginTypes
<1>3. LoginsAreOfSubjects' BY <1>2 DEF LoginIInv, LoginsAreOfSubjects
<1>6. AnsweredAreKnown' BY <1>2 DEF LoginIInv, AnsweredAreKnown
<1>4. \A i, j \in DOMAIN users' : i # j => users'[i] # users'[j]
  BY DEF LoginIInv, Social!LoginsAreWhole
<1>5. \A i \in DOMAIN users : \E j \in DOMAIN users' : users'[j] = users[i]
  OBVIOUS
<1> QED BY <1>1, <1>2, <1>3, <1>4, <1>5, <1>6, LoginsKept DEF LoginTypes

LEMMA LoginSteps ==
  ASSUME LoginIInv, NEW l \in Login,
         \/ \E client \in {"web", "native", "google"}, subject \in Subject :
              Social!socialAuthStart(l, client, subject)
         \/ Social!socialAuthCallback(l) \/ Social!exchangeToken(l) \/ Social!CallbackFails(l)
  PROVE  LoginIInv'
<1>1. LoginTypes /\ LoginsAreOfSubjects BY LoginTypesHold DEF LoginIInv
<1>2. logins[l] \in LoginRecord /\ stateCookie \in Login \union {NULL}
  BY <1>1 DEF LoginTypes
<1>3. ASSUME NEW client \in {"web", "native", "google"}, NEW subject \in Subject,
             Social!socialAuthStart(l, client, subject)
      PROVE  LoginIInv'
  <2> DEFINE login == [phase |-> IF client = "google" THEN "profile" ELSE "opened",
                       client |-> client, subject |-> subject, issuedAt |-> loginNow,
                       consumed |-> FALSE]
  <2>1. login \in LoginRecord /\ login.phase # "done" /\ login.subject \in Subject
    BY <1>1 DEF LoginTypes, LoginRecord
  <2>2. /\ logins[l].phase # "done" /\ logins' = [logins EXCEPT ![l] = login]
        /\ stateCookie' \in Login \union {NULL} /\ UNCHANGED <<loginNow, users, sessions>>
    BY <1>2, <1>3 DEF Social!socialAuthStart, Social!Unopened
  <2> HIDE DEF login
  <2> QED BY <2>1, <2>2, LoginGoesOn
<1>4. ASSUME NEW phase_ \in {"exchange", "profile", "failed"}, Social!Step(l, phase_),
             logins[l].phase \in {"opened", "exchange", "profile"},
             stateCookie' \in Login \union {NULL}, UNCHANGED <<loginNow, users, sessions>>
      PROVE  LoginIInv'
  <2> DEFINE login == [logins[l] EXCEPT !.phase = phase_]
  <2>1. logins[l].subject \in Subject BY <1>1, <1>4 DEF LoginsAreOfSubjects
  <2>2. login \in LoginRecord /\ login.phase # "done" /\ login.subject \in Subject
    BY <1>2, <2>1 DEF LoginRecord
  <2>3. logins[l].phase # "done" /\ logins' = [logins EXCEPT ![l] = login]
    BY <1>4 DEF Social!Step
  <2> HIDE DEF login
  <2> QED BY <1>4, <2>2, <2>3, LoginGoesOn
<1>5. CASE Social!socialAuthCallback(l)
  BY <1>2, <1>4, <1>5 DEF Social!socialAuthCallback
<1>6. CASE Social!exchangeToken(l)
  BY <1>2, <1>4, <1>6 DEF Social!exchangeToken
<1>7. CASE Social!CallbackFails(l)
  BY <1>2, <1>4, <1>7 DEF Social!CallbackFails
<1> QED BY <1>3, <1>5, <1>6, <1>7

LEMMA LoginProfile ==
  ASSUME LoginIInv, NEW l \in Login, Social!ProfileArrives(l) PROVE LoginIInv'
<1> DEFINE id == logins[l].subject
           login == [logins[l] EXCEPT !.phase = "done", !.issuedAt = loginNow]
<1>1. LoginTypes /\ LoginsAreOfSubjects BY LoginTypesHold DEF LoginIInv
<1>2. logins[l] \in LoginRecord /\ loginNow \in 0..LoginHorizon BY <1>1 DEF LoginTypes
<1>3. /\ logins[l].phase = "profile" /\ users' = Social!upsertSocialUser(id)
      /\ stateCookie' = NULL /\ UNCHANGED <<loginNow, sessions>>
      /\ logins' = [logins EXCEPT ![l].phase = "done", ![l].issuedAt = loginNow]
  BY DEF Social!ProfileArrives
<1>4. id \in Subject BY <1>1, <1>3 DEF LoginsAreOfSubjects
<1>5. login \in LoginRecord /\ login.subject = id BY <1>2 DEF LoginRecord
<1>6. logins' = [logins EXCEPT ![l] = login] BY <1>1, <1>2, <1>3 DEF LoginTypes, LoginRecord
<1> HIDE DEF login
<1>7. /\ logins' \in [Login -> LoginRecord] /\ logins'[l] = login
      /\ \A m \in Login : m # l => logins'[m] = logins[m]
  BY <1>1, <1>5, <1>6 DEF LoginTypes
<1>8. LoginsAreOfSubjects' BY <1>1, <1>4, <1>5, <1>7 DEF LoginsAreOfSubjects
<1> HIDE DEF id
<1>9. /\ users' \in Seq(Subject)
      /\ \A i, j \in DOMAIN users' : i # j => users'[i] # users'[j]
      /\ \E i \in DOMAIN users' : users'[i] = id
      /\ \A i \in DOMAIN users : i \in DOMAIN users' /\ users'[i] = users[i]
  BY <1>3, <1>4, UpsertFacts
<1>12. AnsweredAreKnown'
  BY <1>5, <1>7, <1>9 DEF LoginIInv, AnsweredAreKnown
<1>10. \A i \in DOMAIN users : \E j \in DOMAIN users' : users'[j] = users[i] BY <1>9
<1>11. \A m \in Login : logins[m].phase = "done" => logins'[m] = logins[m] BY <1>3, <1>7
<1> QED BY <1>1, <1>3, <1>7, <1>8, <1>9, <1>10, <1>11, <1>12, LoginsKept DEF LoginTypes

LEMMA LoginGoogle ==
  ASSUME LoginIInv, NEW l \in Login, Social!googleSession(l) PROVE LoginIInv'
<1> DEFINE id == logins[l].subject
           login == [logins[l] EXCEPT !.phase = "done", !.issuedAt = loginNow]
<1>1. LoginTypes /\ LoginsAreOfSubjects BY LoginTypesHold DEF LoginIInv
<1>2. logins[l] \in LoginRecord /\ loginNow \in 0..LoginHorizon /\ loginNow \in Nat
  BY <1>1 DEF LoginTypes
<1>3. /\ logins[l].phase = "profile" /\ logins[l].client = "google"
      /\ users' = Social!upsertSocialUser(id)
      /\ Social!issueNativeSession(l)
      /\ UNCHANGED <<loginNow, stateCookie>>
      /\ logins' = [logins EXCEPT ![l].phase = "done", ![l].issuedAt = loginNow]
  BY DEF Social!googleSession
<1>4. id \in Subject BY <1>1, <1>3 DEF LoginsAreOfSubjects
<1>5. /\ login \in LoginRecord /\ login.subject = id /\ login.phase = "done"
      /\ login.client = "google" /\ login.issuedAt = loginNow
  BY <1>2, <1>3 DEF LoginRecord
<1>6. logins' = [logins EXCEPT ![l] = login] BY <1>1, <1>2, <1>3 DEF LoginTypes, LoginRecord
<1>10. login.subject = logins[l].subject BY <1>5
<1> HIDE DEF login, id
<1>7. /\ users' \in Seq(Subject)
      /\ \A i, j \in DOMAIN users' : i # j => users'[i] # users'[j]
      /\ \E i \in DOMAIN users' : users'[i] = id
      /\ \A i \in DOMAIN users : i \in DOMAIN users' /\ users'[i] = users[i]
  <2>1. users' = Social!upsertSocialUser(id) BY <1>3
  <2> QED BY <1>4, <2>1, UpsertFacts
<1>8. stateCookie' \in Login \union {NULL} BY <1>1, <1>3 DEF LoginTypes
<1>9. loginNow <= login.issuedAt + HANDOFF_MAX_AGE BY <1>2, <1>5, LoginAssumption
<1>11. /\ login \in LoginRecord /\ login.phase = "done" /\ login.subject \in Subject
       /\ login.client = logins[l].client /\ login.client = "google"
       /\ logins[l].phase # "done" /\ loginNow' = loginNow
       /\ Social!issueNativeSession(l)
       /\ \E i \in DOMAIN users' : users'[i] = login.subject
  BY <1>3, <1>4, <1>5, <1>7
<1> QED BY <1>6, <1>7, <1>8, <1>9, <1>10, <1>11, LoginIssued

LEMMA LoginExchanged ==
  ASSUME LoginIInv, NEW l \in Login,
         Social!consumeNativeAuthHandoff(l) \/ Social!socialAuthSession(l)
  PROVE  LoginIInv'
<1> USE LoginAssumption
<1> DEFINE id == logins[l].subject
           login == IF logins[l].client = "native" THEN [logins[l] EXCEPT !.consumed = TRUE]
                                                   ELSE logins[l]
<1>1. LoginTypes /\ LoginsAreOfSubjects BY LoginTypesHold DEF LoginIInv
<1>2. /\ logins[l] \in LoginRecord /\ loginNow \in Nat /\ logins[l].issuedAt \in Nat
      /\ logins \in [Login -> LoginRecord]
  BY <1>1 DEF LoginTypes
<1>3. /\ logins[l].phase = "done" /\ Social!issueNativeSession(l)
      /\ UNCHANGED <<loginNow, stateCookie, users>>
  BY DEF Social!consumeNativeAuthHandoff, Social!socialAuthSession
<1>4. /\ logins' = [logins EXCEPT ![l] = login]
      /\ logins[l].client = "native" => ~logins[l].consumed
      /\ logins[l].client # "google"
      /\ loginNow <= logins[l].issuedAt + HANDOFF_MAX_AGE
  <2>1. CASE Social!consumeNativeAuthHandoff(l)
    <3>1. /\ logins[l].client = "native" /\ ~logins[l].consumed
          /\ loginNow < logins[l].issuedAt + HANDOFF_MAX_AGE
          /\ logins' = [logins EXCEPT ![l].consumed = TRUE]
      BY <2>1 DEF Social!consumeNativeAuthHandoff, Social!MayConsume
    <3> QED BY <1>2, <3>1
  <2>2. CASE Social!socialAuthSession(l)
    <3>1. /\ logins[l].client = "web" /\ logins' = logins
          /\ loginNow - logins[l].issuedAt <= HANDOFF_MAX_AGE
      BY <2>2 DEF Social!socialAuthSession
    <3> QED BY <1>2, <3>1
  <2> QED BY <2>1, <2>2
<1>5. id \in Subject BY <1>1, <1>3 DEF LoginsAreOfSubjects
<1>6. /\ login \in LoginRecord /\ login.subject = id /\ login.phase = "done"
      /\ login.client = logins[l].client /\ login.issuedAt = logins[l].issuedAt
      /\ login.client = "native" => login.consumed
  BY <1>2, <1>3 DEF LoginRecord
<1>7. \E i \in DOMAIN users : users[i] = id
  BY <1>3 DEF LoginIInv, AnsweredAreKnown
<1>8. /\ stateCookie' \in Login \union {NULL} /\ users' \in Seq(Subject)
      /\ \A i, j \in DOMAIN users' : i # j => users'[i] # users'[j]
  BY <1>1, <1>3 DEF LoginTypes, LoginIInv, Social!LoginsAreWhole
<1>9. login.subject = logins[l].subject /\ users' = users BY <1>3, <1>6
<1> HIDE DEF login, id
<1> QED BY <1>3, <1>4, <1>5, <1>6, <1>7, <1>8, <1>9, LoginIssued

LEMMA LoginRest ==
  ASSUME LoginIInv, Social!Tick \/ \E i \in 1..MaxSessions : Social!nativeLogout(i)
  PROVE  LoginIInv'
<1>1. LoginTypes BY LoginTypesHold
<1>2. LoginsAreOfSubjects' /\ AnsweredAreKnown' /\ logins' = logins /\ users' = users
      /\ stateCookie' = stateCookie
  BY DEF LoginIInv, LoginsAreOfSubjects, AnsweredAreKnown, Social!Tick, Social!nativeLogout
<1>3. loginNow' \in 0..LoginHorizon
  BY <1>1, LoginAssumption DEF LoginTypes, Social!Tick, Social!nativeLogout
<1>4. /\ sessions' \in Seq(SessionRecord) /\ DOMAIN sessions' = DOMAIN sessions
      /\ \A i \in DOMAIN sessions :
           /\ sessions'[i].login = sessions[i].login
           /\ sessions'[i].userId = sessions[i].userId
           /\ sessions'[i].issuedAt = sessions[i].issuedAt
  <2>1. CASE Social!Tick BY <1>1, <2>1 DEF LoginTypes, Social!Tick
  <2>2. ASSUME NEW i \in 1..MaxSessions, Social!nativeLogout(i)
        PROVE  /\ sessions' \in Seq(SessionRecord) /\ DOMAIN sessions' = DOMAIN sessions
               /\ \A j \in DOMAIN sessions :
                    /\ sessions'[j].login = sessions[j].login
                    /\ sessions'[j].userId = sessions[j].userId
                    /\ sessions'[j].issuedAt = sessions[j].issuedAt
    <3> DEFINE revoked == [sessions[i] EXCEPT !.revoked = TRUE]
    <3>1. i \in DOMAIN sessions /\ sessions[i] \in SessionRecord
      BY <1>1, <2>2 DEF LoginTypes, Social!nativeLogout
    <3>2. sessions' = [sessions EXCEPT ![i] = revoked]
      BY <2>2 DEF Social!nativeLogout
    <3>3. /\ revoked \in SessionRecord /\ revoked.login = sessions[i].login
          /\ revoked.userId = sessions[i].userId /\ revoked.issuedAt = sessions[i].issuedAt
      BY <3>1 DEF SessionRecord
    <3> HIDE DEF revoked
    <3>4. sessions \in Seq(SessionRecord) BY <1>1 DEF LoginTypes
    <3>5. sessions' \in Seq(SessionRecord) /\ DOMAIN sessions' = DOMAIN sessions
      BY <3>1, <3>2, <3>3, <3>4
    <3>6. \A j \in DOMAIN sessions : sessions'[j] = IF j = i THEN revoked ELSE sessions[j]
      BY <3>1, <3>2
    <3> QED BY <3>3, <3>5, <3>6
  <2> QED BY <2>1, <2>2
<1>5. /\ \A i, j \in DOMAIN users' : i # j => users'[i] # users'[j]
      /\ \A i \in DOMAIN users : \E j \in DOMAIN users' : users'[j] = users[i]
  BY <1>2 DEF LoginIInv, Social!LoginsAreWhole
<1> QED BY <1>1, <1>2, <1>3, <1>4, <1>5, LoginsKept DEF LoginTypes

LEMMA LoginInit == Social!Init => LoginIInv
<1> SUFFICES ASSUME Social!Init PROVE LoginIInv
  OBVIOUS
<1> USE LoginAssumption DEF Social!Init, Social!Unopened
<1>1. Social!TypeOK
  <2>1. users \in Seq(Subject) BY EmptySequence
  <2>2. sessions \in Seq([login : Login, userId : Subject, issuedAt : 0..LoginHorizon,
                          expiresAt : Nat, revoked : BOOLEAN])
    BY EmptySequence
  <2> QED BY <2>1, <2>2 DEF Social!TypeOK
<1>2. LoginsAreOfSubjects /\ AnsweredAreKnown BY DEF LoginsAreOfSubjects, AnsweredAreKnown
<1>3. CodesAreUsedUp BY DEF CodesAreUsedUp
<1>4. Social!LoginsAreWhole BY DEF Social!LoginsAreWhole
<1> QED BY <1>1, <1>2, <1>3, <1>4 DEF LoginIInv

LEMMA LoginNext == ASSUME LoginIInv, [Social!Next]_loginVars PROVE LoginIInv'
<1>1. CASE UNCHANGED loginVars
  BY <1>1 DEF LoginIInv, Social!TypeOK, LoginsAreOfSubjects, CodesAreUsedUp, AnsweredAreKnown,
              Social!LoginsAreWhole, Social!Known, loginVars
<1> QED BY <1>1, LoginSteps, LoginProfile, LoginGoogle, LoginExchanged, LoginRest
           DEF Social!Next

-----------------------------------------------------------------------------
(* Identity verification.                                                  *)

Pending == [status : {"PENDING", "VERIFIED"}, userId : Account, started : BOOLEAN,
            identity : Nice!Identities \union {NULL}]

(* Only a verification that was begun waits for a result. *)
ResultsAreOfRecords ==
  \A c \in Callback : callbacks[c].phase = "result" =>
    verifications[callbacks[c].record].status # "NONE"

NiceIInv == Nice!TypeOK /\ ResultsAreOfRecords /\ Nice!OneAccountPerPerson

LEMMA NiceFinal ==
  ASSUME NiceIInv, NEW v \in Verification, NEW identity \in Nice!Identities,
         verifications[v].status # "NONE", Nice!finalizeVerification(v, identity)
  PROVE  /\ verifications' \in [Verification -> {[status |-> "NONE"]} \union Pending]
         /\ identities' \in [Account -> Nice!Identities \union {NULL}]
         /\ \A x \in Verification :
              verifications'[x].status = "NONE" <=> verifications[x].status = "NONE"
         /\ Nice!OneAccountPerPerson'
<1> DEFINE u == verifications[v].userId
<1>1. /\ verifications \in [Verification -> {[status |-> "NONE"]} \union Pending]
      /\ identities \in [Account -> Nice!Identities \union {NULL}]
  BY DEF NiceIInv, Nice!TypeOK, Pending
<1>2. verifications[v] \in Pending /\ u \in Account
  <2>1. verifications[v] \in Pending BY <1>1
  <2> QED BY <2>1 DEF Pending
<1>3. /\ verifications' = [verifications EXCEPT ![v].status = "VERIFIED", ![v].identity = identity]
      /\ identities' = [identities EXCEPT ![u] = identity]
      /\ \A other \in Account \ {u} : ~Nice!SameIdentity(identities[other], identity)
  BY DEF Nice!finalizeVerification, Nice!assertIdentityCanBeVerified
<1>4. identity # NULL BY IdentityAssumption DEF Nice!Identities
<1>5. /\ verifications'[v] \in Pending /\ verifications'[v].status = "VERIFIED"
      /\ verifications'[v].userId = u /\ verifications'[v].identity = identity
  BY <1>1, <1>2, <1>3 DEF Pending
<1>6. \A x \in Verification : x # v => verifications'[x] = verifications[x]
  BY <1>1, <1>3
<1> HIDE DEF u
<1>7. verifications' \in [Verification -> {[status |-> "NONE"]} \union Pending]
  BY <1>1, <1>3, <1>5, <1>6
<1>8. /\ identities' \in [Account -> Nice!Identities \union {NULL}]
      /\ identities'[u] = identity
      /\ \A w \in Account : w # u => identities'[w] = identities[w]
  BY <1>1, <1>2, <1>3
<1>9. \A x \in Verification :
        verifications'[x].status = "NONE" <=> verifications[x].status = "NONE"
  BY <1>5, <1>6
<1>10. ASSUME NEW a \in Account, NEW w \in Account, a # w, identities'[a] # NULL
       PROVE  ~Nice!SameIdentity(identities'[w], identities'[a])
  <2>1. CASE a = u BY <1>3, <1>8, <1>10, <2>1
  <2>2. CASE w = u
    BY <1>3, <1>8, <1>10, <2>2 DEF Nice!SameIdentity
  <2>3. CASE a # u /\ w # u
    BY <1>8, <1>10, <2>3 DEF NiceIInv, Nice!OneAccountPerPerson
  <2> QED BY <2>1, <2>2, <2>3
<1>11. ASSUME NEW x \in Verification, verifications'[x].status = "VERIFIED"
       PROVE  identities'[verifications'[x].userId] # NULL
  <2>1. CASE x = v BY <1>4, <1>5, <1>8, <2>1
  <2>2. CASE x # v
    <3>1. /\ verifications'[x] = verifications[x]
          /\ identities[verifications[x].userId] # NULL
      BY <1>6, <1>11, <2>2 DEF NiceIInv, Nice!OneAccountPerPerson
    <3>2. verifications[x].userId \in Account
      <4>1. verifications[x] \in Pending BY <1>1, <1>11, <3>1
      <4> QED BY <4>1 DEF Pending
    <3> QED BY <1>4, <1>8, <3>1, <3>2
  <2> QED BY <2>1, <2>2
<1>12. ASSUME NEW a \in Account, identities'[a] # NULL
       PROVE  \E x \in Verification : /\ verifications'[x].status = "VERIFIED"
                                      /\ verifications'[x].userId = a
                                      /\ verifications'[x].identity = identities'[a]
  <2>1. CASE a = u BY <1>5, <1>8, <2>1
  <2>2. CASE a # u
    <3>1. PICK x \in Verification : /\ verifications[x].status = "VERIFIED"
                                    /\ verifications[x].userId = a
                                    /\ verifications[x].identity = identities[a]
      BY <1>8, <1>12, <2>2 DEF NiceIInv, Nice!OneAccountPerPerson
    <3>2. x # v BY <2>2, <3>1 DEF u
    <3> QED BY <1>6, <1>8, <2>2, <3>1, <3>2
  <2> QED BY <2>1, <2>2
<1> QED BY <1>7, <1>8, <1>9, <1>10, <1>11, <1>12 DEF Nice!OneAccountPerPerson

(* A record that is begun or whose provider answers verifies nobody. *)
LEMMA NiceRecord ==
  ASSUME NiceIInv, NEW v \in Verification, NEW record \in Pending,
         verifications[v].status = "NONE" \/ record = [verifications[v] EXCEPT !.started = TRUE],
         verifications[v].status = "NONE" => record.status = "PENDING",
         verifications' = [verifications EXCEPT ![v] = record],
         UNCHANGED <<identities, callbacks>>
  PROVE  NiceIInv'
<1>1. /\ verifications \in [Verification -> {[status |-> "NONE"]} \union Pending]
      /\ Nice!TypeOK /\ ResultsAreOfRecords /\ Nice!OneAccountPerPerson
  BY DEF NiceIInv, Nice!TypeOK, Pending
<1>2. /\ verifications' \in [Verification -> {[status |-> "NONE"]} \union Pending]
      /\ verifications'[v] = record
      /\ \A x \in Verification : x # v => verifications'[x] = verifications[x]
  BY <1>1
<1>3. Nice!TypeOK' BY <1>1, <1>2 DEF Nice!TypeOK, Pending
<1>4. record.status # "NONE" BY DEF Pending
<1>5. verifications[v].status # "NONE" =>
        /\ verifications[v] \in Pending
        /\ record.status = verifications[v].status
        /\ record.userId = verifications[v].userId /\ record.identity = verifications[v].identity
  BY <1>1 DEF Pending
<1>6. \A x \in Verification :
        verifications'[x].status = "VERIFIED" <=> verifications[x].status = "VERIFIED"
  BY <1>2, <1>5
<1>7. \A x \in Verification : verifications[x].status = "VERIFIED" =>
        /\ verifications'[x].userId = verifications[x].userId
        /\ verifications'[x].identity = verifications[x].identity
  BY <1>2, <1>5
<1>8. ResultsAreOfRecords'
  <2> SUFFICES ASSUME NEW c \in Callback, callbacks[c].phase = "result"
               PROVE  verifications'[callbacks[c].record].status # "NONE"
    BY DEF ResultsAreOfRecords
  <2>1. verifications[callbacks[c].record].status # "NONE" BY <1>1 DEF ResultsAreOfRecords
  <2>2. callbacks[c].record \in Verification
    <3>1. callbacks[c] \in [phase : {"result"}, record : Verification]
      BY <1>1 DEF Nice!TypeOK, Nice!Idle
    <3> QED BY <3>1
  <2> QED BY <1>2, <1>4, <2>1, <2>2
<1>9. Nice!OneAccountPerPerson'
  BY <1>1, <1>6, <1>7 DEF Nice!OneAccountPerPerson, Nice!SameIdentity
<1> QED BY <1>3, <1>8, <1>9 DEF NiceIInv

LEMMA NiceStart ==
  ASSUME NiceIInv, NEW v \in Verification, NEW u \in Account, Nice!startNiceVerification(v, u)
  PROVE  NiceIInv'
<1> DEFINE record == [status |-> "PENDING", userId |-> u, started |-> FALSE, identity |-> NULL]
<1>1. record \in Pending /\ record.status = "PENDING" BY DEF Pending
<1>2. /\ verifications[v].status = "NONE" /\ verifications' = [verifications EXCEPT ![v] = record]
      /\ UNCHANGED <<identities, callbacks>>
  BY DEF Nice!startNiceVerification
<1> HIDE DEF record
<1> QED BY <1>1, <1>2, NiceRecord

LEMMA NiceStarted ==
  ASSUME NiceIInv, NEW v \in Verification, Nice!NiceAuthStarted(v)
  PROVE  NiceIInv'
<1> DEFINE record == [verifications[v] EXCEPT !.started = TRUE]
<1>1. verifications \in [Verification -> {[status |-> "NONE"]} \union Pending]
  BY DEF NiceIInv, Nice!TypeOK, Pending
<1>2. /\ verifications[v].status # "NONE" /\ verifications' = [verifications EXCEPT ![v] = record]
      /\ UNCHANGED <<identities, callbacks>>
  BY DEF Nice!NiceAuthStarted
<1>3. record \in Pending
  <2>1. verifications[v] \in Pending BY <1>1, <1>2
  <2> QED BY <2>1 DEF Pending
<1>4. record = [verifications[v] EXCEPT !.started = TRUE] OBVIOUS
<1> HIDE DEF record
<1> QED BY <1>2, <1>3, <1>4, NiceRecord

(* Callbacks come and go. *)
LEMMA NiceCallbacks ==
  ASSUME NiceIInv, NEW c \in Callback, NEW callback,
         \/ callback = [phase |-> "done"]
         \/ /\ callback \in [phase : {"result"}, record : Verification]
            /\ verifications[callback.record].status # "NONE",
         callbacks' = [callbacks EXCEPT ![c] = callback],
         UNCHANGED <<identities, verifications>>
  PROVE  NiceIInv'
<1>1. Nice!TypeOK' BY DEF NiceIInv, Nice!TypeOK
<1>2. callback.phase = "result" => verifications[callback.record].status # "NONE"
  OBVIOUS
<1>3. ResultsAreOfRecords' BY <1>2 DEF NiceIInv, ResultsAreOfRecords, Nice!TypeOK
<1>4. Nice!OneAccountPerPerson' BY DEF NiceIInv, Nice!OneAccountPerPerson
<1> QED BY <1>1, <1>3, <1>4 DEF NiceIInv

LEMMA NiceCallback ==
  ASSUME NiceIInv, NEW c \in Callback, NEW v \in Verification,
         Nice!completeNiceVerificationFromCallback(c, v)
  PROVE  NiceIInv'
<1> DEFINE callback == [phase |-> "result", record |-> v]
<1>1. /\ callback \in [phase : {"result"}, record : Verification]
      /\ verifications[callback.record].status # "NONE"
      /\ callbacks' = [callbacks EXCEPT ![c] = callback]
      /\ UNCHANGED <<identities, verifications>>
  BY DEF Nice!completeNiceVerificationFromCallback, Nice!findPendingRecord
<1> HIDE DEF callback
<1> QED BY <1>1, NiceCallbacks

LEMMA NiceRefused ==
  ASSUME NiceIInv, NEW c \in Callback, Nice!CallbackRefused(c)
  PROVE  NiceIInv'
<1> DEFINE callback == [phase |-> "done"]
<1>1. /\ callback = [phase |-> "done"] /\ callbacks' = [callbacks EXCEPT ![c] = callback]
      /\ UNCHANGED <<identities, verifications>>
  BY DEF Nice!CallbackRefused
<1> HIDE DEF callback
<1> QED BY <1>1, NiceCallbacks

LEMMA NiceVerified ==
  ASSUME NiceIInv, NEW c \in Callback, NEW identity \in Nice!Identities,
         Nice!NiceResult(c, identity)
  PROVE  NiceIInv'
<1> DEFINE v == callbacks[c].record
<1>1. Nice!TypeOK /\ ResultsAreOfRecords BY DEF NiceIInv
<1>2. /\ callbacks[c].phase = "result" /\ Nice!finalizeVerification(v, identity)
      /\ callbacks' = [callbacks EXCEPT ![c] = [phase |-> "done"]]
  BY DEF Nice!NiceResult
<1>3. v \in Verification /\ verifications[v].status # "NONE"
  <2>1. callbacks[c] \in [phase : {"result"}, record : Verification]
    BY <1>1, <1>2 DEF Nice!TypeOK, Nice!Idle
  <2> QED BY <1>1, <1>2, <2>1 DEF ResultsAreOfRecords
<1> HIDE DEF v
<1>4. /\ verifications' \in [Verification -> {[status |-> "NONE"]} \union Pending]
      /\ identities' \in [Account -> Nice!Identities \union {NULL}]
      /\ \A x \in Verification :
           verifications'[x].status = "NONE" <=> verifications[x].status = "NONE"
      /\ Nice!OneAccountPerPerson'
  BY <1>2, <1>3, NiceFinal
<1>5. /\ callbacks' \in [Callback -> {Nice!Idle, [phase |-> "done"]} \union
                                       [phase : {"result"}, record : Verification]]
      /\ \A x \in Callback : callbacks'[x].phase = "result" => callbacks'[x] = callbacks[x]
  BY <1>1, <1>2 DEF Nice!TypeOK
<1>6. Nice!TypeOK' BY <1>4, <1>5 DEF Nice!TypeOK, Pending
<1>7. ResultsAreOfRecords'
  <2> SUFFICES ASSUME NEW x \in Callback, callbacks'[x].phase = "result"
               PROVE  verifications'[callbacks'[x].record].status # "NONE"
    BY DEF ResultsAreOfRecords
  <2>1. callbacks'[x] \in [phase : {"result"}, record : Verification]
    BY <1>5 DEF Nice!Idle
  <2>2. callbacks'[x].record \in Verification BY <2>1
  <2>3. verifications[callbacks'[x].record].status # "NONE"
    BY <1>1, <1>5 DEF ResultsAreOfRecords
  <2> QED BY <1>4, <2>2, <2>3
<1> QED BY <1>4, <1>6, <1>7 DEF NiceIInv

LEMMA NiceMock ==
  ASSUME NiceIInv, NEW v \in Verification, NEW phone \in Phone,
         Nice!mockCompleteNiceVerification(v, phone)
  PROVE  NiceIInv'
<1> DEFINE identity == [phone |-> phone, person |-> phone]
<1>1. identity \in Nice!Identities BY DEF Nice!Identities
<1>2. verifications[v].status # "NONE" /\ Nice!finalizeVerification(v, identity)
      /\ callbacks' = callbacks
  BY DEF Nice!mockCompleteNiceVerification, Nice!findPendingRecord
<1> HIDE DEF identity
<1>3. /\ verifications' \in [Verification -> {[status |-> "NONE"]} \union Pending]
      /\ identities' \in [Account -> Nice!Identities \union {NULL}]
      /\ \A x \in Verification :
           verifications'[x].status = "NONE" <=> verifications[x].status = "NONE"
      /\ Nice!OneAccountPerPerson'
  BY <1>1, <1>2, NiceFinal
<1>4. Nice!TypeOK /\ ResultsAreOfRecords BY DEF NiceIInv
<1>5. Nice!TypeOK' BY <1>2, <1>3, <1>4 DEF Nice!TypeOK, Pending
<1>6. ResultsAreOfRecords'
  <2> SUFFICES ASSUME NEW x \in Callback, callbacks[x].phase = "result"
               PROVE  verifications'[callbacks[x].record].status # "NONE"
    BY <1>2 DEF ResultsAreOfRecords
  <2>1. callbacks[x] \in [phase : {"result"}, record : Verification]
    BY <1>4 DEF Nice!TypeOK, Nice!Idle
  <2>2. callbacks[x].record \in Verification BY <2>1
  <2> QED BY <1>3, <1>4, <2>2 DEF ResultsAreOfRecords
<1> QED BY <1>3, <1>5, <1>6 DEF NiceIInv

LEMMA NiceInit == Nice!Init => NiceIInv
<1> SUFFICES ASSUME Nice!Init PROVE NiceIInv
  OBVIOUS
<1>1. Nice!TypeOK BY DEF Nice!Init, Nice!TypeOK
<1>2. ResultsAreOfRecords BY DEF Nice!Init, ResultsAreOfRecords, Nice!Idle
<1>3. Nice!OneAccountPerPerson BY DEF Nice!Init, Nice!OneAccountPerPerson
<1> QED BY <1>1, <1>2, <1>3 DEF NiceIInv

LEMMA NiceNext == ASSUME NiceIInv, [Nice!Next]_identityVars PROVE NiceIInv'
<1>1. CASE UNCHANGED identityVars
  BY <1>1 DEF NiceIInv, Nice!TypeOK, ResultsAreOfRecords, Nice!OneAccountPerPerson,
              identityVars
<1> QED BY <1>1, NiceStart, NiceStarted, NiceMock, NiceCallback, NiceRefused, NiceVerified
           DEF Nice!Next

-----------------------------------------------------------------------------
(* The list of events a customer follows.                                  *)

Notice == [watch : Watch, type : Following!Type, channels : Channels,
           status : Following!Status, byOperator : BOOLEAN]
ListItem == [channels : Channels, notificationEnabled : BOOLEAN]

ListIInv == Following!TypeOK /\ Following!NoticesFollowTheList

(* A set of positions has a first one. *)
LEMMA FirstOfPositions ==
  ASSUME NEW S, S \subseteq Nat, S # {}
  PROVE  \E i \in S : \A j \in S : i <= j
<1> DEFINE Less == {p \in Nat \X Nat : p[1] < p[2]}
<1>1. IsWellFoundedOn(Less, Nat)
  BY NatLessThanWellFounded DEF OpToRel
<1>2. PICK i \in S : \A j \in S : <<j, i>> \notin Less
  <2> HIDE DEF Less
  <2> QED BY <1>1, WFMin
<1>3. \A j \in S : i <= j
  <2> SUFFICES ASSUME NEW j \in S PROVE i <= j
    OBVIOUS
  <2>1. i \in Nat /\ j \in Nat OBVIOUS
  <2>2. ~(j < i) BY <1>2, <2>1
  <2> QED BY <2>1, <2>2
<1> QED BY <1>3

(* What becomes of the notices that are there, and of the list. *)
KeepsNotices(old, new) ==
  /\ Len(old) <= Len(new)
  /\ \A i \in DOMAIN old :
       /\ new[i].watch = old[i].watch /\ new[i].type = old[i].type
       /\ old[i].status = "SENT" => new[i].status = "SENT"

LEMMA ScheduledAgainFacts ==
  ASSUME Following!TypeOK, NEW w \in Watch, NEW c \in Channels
  PROVE  LET again == Following!scheduledAgain(w, c)
         IN /\ again \in Seq(Notice) /\ Len(again) = Len(notificationJobs)
            /\ \A i \in DOMAIN notificationJobs :
                 LET job == notificationJobs[i]
                     first == \E type \in Following!ReminderTypes : Following!IsFirst(i, w, type)
                 IN again[i] = IF first
                      THEN [job EXCEPT !.channels = c,
                                       !.status = IF @ = "SENT" THEN @ ELSE "SCHEDULED"]
                      ELSE job
<1> DEFINE again == Following!scheduledAgain(w, c)
<1>1. notificationJobs \in Seq(Notice) BY DEF Following!TypeOK, Notice
<1>2. \A i \in DOMAIN notificationJobs : again[i] \in Notice
  <2> SUFFICES ASSUME NEW i \in DOMAIN notificationJobs PROVE again[i] \in Notice
    OBVIOUS
  <2> DEFINE job == notificationJobs[i]
             anew == [job EXCEPT !.channels = c,
                                 !.status = IF @ = "SENT" THEN @ ELSE "SCHEDULED"]
  <2>1. again[i] \in {job, anew} BY DEF Following!scheduledAgain
  <2>2. job \in Notice BY <1>1
  <2>3. anew \in Notice
    <3> HIDE DEF job
    <3> QED BY <2>2 DEF Notice, Following!Status
  <2> QED BY <2>1, <2>2, <2>3
<1>3. DOMAIN again = 1..Len(notificationJobs) /\ Len(notificationJobs) \in Nat
  BY <1>1 DEF Following!scheduledAgain
<1>4. again \in Seq(Notice) /\ Len(again) = Len(notificationJobs)
  <2>1. again = [i \in 1..Len(notificationJobs) |-> again[i]]
    BY <1>1, <1>3 DEF Following!scheduledAgain
  <2>2. DOMAIN notificationJobs = 1..Len(notificationJobs) BY <1>1
  <2> HIDE DEF again
  <2>3. again \in [1..Len(notificationJobs) -> Notice] BY <1>2, <2>1, <2>2
  <2> QED BY <1>3, <2>3, SeqDef, LenProperties
<1>5. \A i \in DOMAIN notificationJobs :
        LET job == notificationJobs[i]
            first == \E type \in Following!ReminderTypes : Following!IsFirst(i, w, type)
        IN again[i] = IF first
             THEN [job EXCEPT !.channels = c,
                              !.status = IF @ = "SENT" THEN @ ELSE "SCHEDULED"]
             ELSE job
  BY DEF Following!scheduledAgain
<1> QED BY <1>4, <1>5

LEMMA MissingFacts ==
  ASSUME NEW w \in Watch, NEW c \in Channels, NEW type \in Following!ReminderTypes
  PROVE  LET new == Following!missing(w, type, c)
         IN /\ new \in Seq(Notice)
            /\ Following!JobsOf(w, type) = {} => Len(new) = 1
            /\ Following!JobsOf(w, type) # {} => Len(new) = 0
            /\ \A i \in DOMAIN new :
                 new[i] = Following!Job(w, type, c, "SCHEDULED", FALSE)
<1> DEFINE job == Following!Job(w, type, c, "SCHEDULED", FALSE)
           new == Following!missing(w, type, c)
<1>1. job \in Notice
  BY DEF Following!Job, Notice, Following!Type, Following!Status
<1>2. new = IF Following!JobsOf(w, type) = {} THEN <<job>> ELSE <<>>
  BY DEF Following!missing
<1> HIDE DEF job, new
<1>3. <<job>> \in Seq(Notice) /\ Len(<<job>>) = 1 /\ DOMAIN <<job>> = {1} /\ <<job>>[1] = job
  BY <1>1
<1>4. <<>> \in Seq(Notice) /\ Len(<<>>) = 0 /\ DOMAIN <<>> = {}
  BY EmptySequence
<1>5. /\ new \in Seq(Notice)
      /\ Following!JobsOf(w, type) = {} => Len(new) = 1
      /\ Following!JobsOf(w, type) # {} => Len(new) = 0
      /\ \A i \in DOMAIN new : new[i] = job
  BY <1>2, <1>3, <1>4
<1> QED BY <1>5 DEF job, new

LEMMA ThreeInARow ==
  ASSUME NEW S, NEW r \in Seq(S), NEW t \in Seq(S), NEW u \in Seq(S)
  PROVE  LET all == r \o t \o u
         IN /\ all \in Seq(S) /\ Len(all) = Len(r) + Len(t) + Len(u)
            /\ \A i \in 1..Len(r) : all[i] = r[i]
            /\ \A i \in 1..Len(t) : all[Len(r) + i] = t[i]
            /\ \A i \in 1..Len(u) : all[Len(r) + Len(t) + i] = u[i]
            /\ \A i \in 1..Len(all) :
                 \/ i \in 1..Len(r)
                 \/ i - Len(r) \in 1..Len(t)
                 \/ i - Len(r) - Len(t) \in 1..Len(u)
<1> DEFINE first == r \o t
           all == first \o u
<1>1. first \in Seq(S) /\ Len(first) = Len(r) + Len(t)
  OBVIOUS
<1>2. /\ \A i \in 1..Len(r) : first[i] = r[i]
      /\ \A i \in 1..Len(t) : first[Len(r) + i] = t[i]
  OBVIOUS
<1>3. Len(r) \in Nat /\ Len(t) \in Nat /\ Len(u) \in Nat
  OBVIOUS
<1> HIDE DEF first
<1>4. all \in Seq(S) /\ Len(all) = Len(first) + Len(u)
  BY <1>1, ConcatProperties
<1>5. /\ \A i \in 1..Len(first) : all[i] = first[i]
      /\ \A i \in 1..Len(u) : all[Len(first) + i] = u[i]
  BY <1>1
<1> HIDE DEF all
<1>6. /\ \A i \in 1..Len(r) : all[i] = r[i]
      /\ \A i \in 1..Len(t) : all[Len(r) + i] = t[i]
      /\ \A i \in 1..Len(u) : all[Len(r) + Len(t) + i] = u[i]
  BY <1>1, <1>2, <1>3, <1>5
<1>7. \A i \in 1..Len(all) :
        \/ i \in 1..Len(r)
        \/ i - Len(r) \in 1..Len(t)
        \/ i - Len(r) - Len(t) \in 1..Len(u)
  BY <1>1, <1>3, <1>4
<1> QED BY <1>1, <1>4, <1>6, <1>7 DEF all, first

(* A reminder that is due to w by the channels c, or was sent. *)
Due(job, w, c) ==
  /\ job.watch = w
  /\ job.status = "SENT" \/ (job.status = "SCHEDULED" /\ job.channels = c)

LEMMA ScheduleFacts ==
  ASSUME Following!TypeOK, NEW w \in Watch, NEW c \in Channels
  PROVE  LET new == Following!scheduleWatchlistNotifications(w, c)
         IN /\ new \in Seq(Notice) /\ KeepsNotices(notificationJobs, new)
            /\ \A i \in DOMAIN notificationJobs :
                 notificationJobs[i].watch # w => new[i] = notificationJobs[i]
            /\ \A i \in DOMAIN new : new[i].watch = w \/ i \in DOMAIN notificationJobs
            /\ \A type \in Following!ReminderTypes :
                 \E i \in DOMAIN new : new[i].type = type /\ Due(new[i], w, c)
<1> DEFINE jobs == notificationJobs
           again == Following!scheduledAgain(w, c)
           d3 == Following!missing(w, "BOOKING_D3", c)
           day == Following!missing(w, "BOOKING_DAY_OF", c)
           new == again \o d3 \o day
<1>1. jobs \in Seq(Notice) BY DEF Following!TypeOK, Notice
<1>2. Following!ReminderTypes = {"BOOKING_D3", "BOOKING_DAY_OF"}
  BY DEF Following!ReminderTypes
<1>3. again \in Seq(Notice) /\ Len(again) = Len(jobs)
  BY ScheduledAgainFacts
<1>4. \A i \in DOMAIN jobs :
        again[i] = IF \E type \in Following!ReminderTypes : Following!IsFirst(i, w, type)
          THEN [jobs[i] EXCEPT !.channels = c,
                               !.status = IF @ = "SENT" THEN @ ELSE "SCHEDULED"]
          ELSE jobs[i]
  BY ScheduledAgainFacts
<1>5. /\ d3 \in Seq(Notice)
      /\ Following!JobsOf(w, "BOOKING_D3") = {} => Len(d3) = 1
      /\ \A i \in DOMAIN d3 : d3[i] = Following!Job(w, "BOOKING_D3", c, "SCHEDULED", FALSE)
  BY <1>2, MissingFacts
<1>6. /\ day \in Seq(Notice)
      /\ Following!JobsOf(w, "BOOKING_DAY_OF") = {} => Len(day) = 1
      /\ \A i \in DOMAIN day : day[i] = Following!Job(w, "BOOKING_DAY_OF", c, "SCHEDULED", FALSE)
  BY <1>2, MissingFacts
<1>7. /\ DOMAIN jobs = 1..Len(jobs) /\ DOMAIN d3 = 1..Len(d3) /\ DOMAIN day = 1..Len(day)
      /\ Len(jobs) \in Nat /\ Len(d3) \in Nat /\ Len(day) \in Nat
  BY <1>1, <1>5, <1>6
<1> HIDE DEF again, d3, day
<1>8. /\ new \in Seq(Notice) /\ Len(new) = Len(jobs) + Len(d3) + Len(day)
      /\ \A i \in DOMAIN jobs : new[i] = again[i]
      /\ \A i \in DOMAIN d3 : new[Len(jobs) + i] = d3[i]
      /\ \A i \in DOMAIN day : new[Len(jobs) + Len(d3) + i] = day[i]
      /\ \A i \in 1..Len(new) :
           \/ i \in DOMAIN jobs
           \/ i - Len(jobs) \in DOMAIN d3
           \/ i - Len(jobs) - Len(d3) \in DOMAIN day
  <2>1. again \in Seq(Notice) /\ d3 \in Seq(Notice) /\ day \in Seq(Notice)
    BY <1>3, <1>5, <1>6
  <2>2. /\ new \in Seq(Notice) /\ Len(new) = Len(again) + Len(d3) + Len(day)
        /\ \A i \in 1..Len(again) : new[i] = again[i]
        /\ \A i \in 1..Len(d3) : new[Len(again) + i] = d3[i]
        /\ \A i \in 1..Len(day) : new[Len(again) + Len(d3) + i] = day[i]
        /\ \A i \in 1..Len(new) :
             \/ i \in 1..Len(again)
             \/ i - Len(again) \in 1..Len(d3)
             \/ i - Len(again) - Len(d3) \in 1..Len(day)
    BY <2>1, ThreeInARow
  <2> HIDE DEF new
  <2> QED BY <1>3, <1>7, <2>2
<1>9. DOMAIN new = 1..Len(new) BY <1>8
<1> HIDE DEF new
<1>10. \A i \in DOMAIN jobs : Following!IsFirst(i, w, "BOOKING_D3")
                               \/ Following!IsFirst(i, w, "BOOKING_DAY_OF")
         => /\ jobs[i].watch = w
            /\ new[i] = [jobs[i] EXCEPT !.channels = c,
                                        !.status = IF @ = "SENT" THEN @ ELSE "SCHEDULED"]
  <2> SUFFICES ASSUME NEW i \in DOMAIN jobs, NEW type \in Following!ReminderTypes,
                      Following!IsFirst(i, w, type)
               PROVE  /\ jobs[i].watch = w
                      /\ again[i] = [jobs[i] EXCEPT !.channels = c,
                                       !.status = IF @ = "SENT" THEN @ ELSE "SCHEDULED"]
    BY <1>2, <1>8
  <2>1. jobs[i].watch = w BY DEF Following!IsFirst, Following!JobsOf
  <2> QED BY <1>4, <2>1
<1>11. \A i \in DOMAIN jobs : ~(Following!IsFirst(i, w, "BOOKING_D3")
                                \/ Following!IsFirst(i, w, "BOOKING_DAY_OF"))
         => new[i] = jobs[i]
  BY <1>2, <1>4, <1>8
<1>12. ASSUME NEW i \in DOMAIN jobs
       PROVE  /\ new[i].watch = jobs[i].watch /\ new[i].type = jobs[i].type
              /\ jobs[i].status = "SENT" => new[i].status = "SENT"
              /\ jobs[i].watch # w => new[i] = jobs[i]
  <2>1. jobs[i] \in Notice BY <1>1
  <2> QED BY <1>10, <1>11, <2>1 DEF Notice
<1>13. KeepsNotices(jobs, new) BY <1>7, <1>8, <1>12 DEF KeepsNotices
<1>14. \A i \in DOMAIN new : new[i].watch = w \/ i \in DOMAIN jobs
  <2> SUFFICES ASSUME NEW i \in DOMAIN new, i \notin DOMAIN jobs PROVE new[i].watch = w
    OBVIOUS
  <2>1. CASE i - Len(jobs) \in DOMAIN d3
    <3>1. new[Len(jobs) + (i - Len(jobs))] = d3[i - Len(jobs)] BY <1>8, <2>1
    <3>2. Len(jobs) + (i - Len(jobs)) = i BY <1>7, <1>9
    <3> QED BY <1>5, <2>1, <3>1, <3>2 DEF Following!Job
  <2>2. CASE i - Len(jobs) - Len(d3) \in DOMAIN day
    <3>1. new[Len(jobs) + Len(d3) + (i - Len(jobs) - Len(d3))] = day[i - Len(jobs) - Len(d3)]
      BY <1>8, <2>2
    <3>2. Len(jobs) + Len(d3) + (i - Len(jobs) - Len(d3)) = i BY <1>7, <1>8, <1>9
    <3> QED BY <1>6, <2>2, <3>1, <3>2 DEF Following!Job
  <2> QED BY <1>8, <1>9, <2>1, <2>2
<1>15. ASSUME NEW type \in Following!ReminderTypes
       PROVE  \E i \in DOMAIN new : new[i].type = type /\ Due(new[i], w, c)
  <2>1. CASE Following!JobsOf(w, type) # {}
    <3>1. Following!JobsOf(w, type) \subseteq Nat BY <1>7 DEF Following!JobsOf
    <3>2. PICK i \in Following!JobsOf(w, type) : \A j \in Following!JobsOf(w, type) : i <= j
      BY <2>1, <3>1, FirstOfPositions
    <3>3. i \in DOMAIN jobs /\ jobs[i].type = type /\ jobs[i] \in Notice
      BY <1>1, <3>2 DEF Following!JobsOf
    <3>4. Following!IsFirst(i, w, type) BY <3>2 DEF Following!IsFirst
    <3>5. new[i] = [jobs[i] EXCEPT !.channels = c,
                                   !.status = IF @ = "SENT" THEN @ ELSE "SCHEDULED"]
      BY <1>2, <1>10, <3>3, <3>4
    <3>6. Due(new[i], w, c) BY <1>2, <1>10, <3>3, <3>4, <3>5 DEF Due, Notice
    <3>7. i \in DOMAIN new BY <1>7, <1>8, <1>9, <3>3
    <3> QED BY <1>12, <3>3, <3>6, <3>7
  <2>2. CASE type = "BOOKING_D3" /\ Following!JobsOf(w, type) = {}
    <3>1. 1 \in DOMAIN d3 BY <1>5, <1>7, <2>2
    <3>2. Len(jobs) + 1 \in DOMAIN new BY <1>7, <1>8, <1>9, <3>1
    <3>3. new[Len(jobs) + 1] = Following!Job(w, type, c, "SCHEDULED", FALSE)
      BY <1>5, <1>8, <2>2, <3>1
    <3> QED BY <3>2, <3>3 DEF Following!Job, Due
  <2>3. CASE type = "BOOKING_DAY_OF" /\ Following!JobsOf(w, type) = {}
    <3>1. 1 \in DOMAIN day BY <1>6, <1>7, <2>3
    <3>2. Len(jobs) + Len(d3) + 1 \in DOMAIN new BY <1>7, <1>8, <1>9, <3>1
    <3>3. new[Len(jobs) + Len(d3) + 1] = Following!Job(w, type, c, "SCHEDULED", FALSE)
      BY <1>6, <1>8, <2>3, <3>1
    <3> QED BY <3>2, <3>3 DEF Following!Job, Due
  <2> QED BY <1>2, <2>1, <2>2, <2>3
<1>16. Following!scheduleWatchlistNotifications(w, c) = new
  BY DEF Following!scheduleWatchlistNotifications, new, again, d3, day
<1> QED BY <1>8, <1>12, <1>13, <1>14, <1>15, <1>16

LEMMA CancelFacts ==
  ASSUME Following!TypeOK, NEW w \in Watch
  PROVE  LET new == Following!cancelWatchlistNotifications(w)
         IN /\ new \in Seq(Notice) /\ KeepsNotices(notificationJobs, new)
            /\ DOMAIN new = DOMAIN notificationJobs
            /\ \A i \in DOMAIN new :
                 /\ notificationJobs[i].watch # w => new[i] = notificationJobs[i]
                 /\ new[i].status = "SCHEDULED" => new[i] = notificationJobs[i] /\ new[i].watch # w
<1> DEFINE jobs == notificationJobs
           new == Following!cancelWatchlistNotifications(w)
<1>1. jobs \in Seq(Notice) BY DEF Following!TypeOK, Notice
<1>2. DOMAIN jobs = 1..Len(jobs) /\ Len(jobs) \in Nat BY <1>1
<1>3. DOMAIN new = DOMAIN jobs /\ new = [i \in DOMAIN jobs |-> new[i]]
  BY DEF Following!cancelWatchlistNotifications
<1>4. ASSUME NEW i \in DOMAIN jobs
      PROVE  /\ new[i] \in Notice
             /\ new[i].watch = jobs[i].watch /\ new[i].type = jobs[i].type
             /\ jobs[i].status = "SENT" => new[i].status = "SENT"
             /\ jobs[i].watch # w => new[i] = jobs[i]
             /\ new[i].status = "SCHEDULED" => new[i] = jobs[i] /\ new[i].watch # w
  <2>1. new[i] = IF jobs[i].watch = w /\ jobs[i].status = "SCHEDULED"
                 THEN [jobs[i] EXCEPT !.status = "CANCELLED"] ELSE jobs[i]
    BY DEF Following!cancelWatchlistNotifications
  <2>2. jobs[i] \in Notice BY <1>1
  <2> QED BY <2>1, <2>2 DEF Notice, Following!Status
<1> HIDE DEF new
<1>5. new \in [1..Len(jobs) -> Notice] BY <1>2, <1>3, <1>4
<1>6. new \in Seq(Notice) /\ Len(new) = Len(jobs) BY <1>2, <1>5, SeqDef, LenProperties
<1>7. KeepsNotices(jobs, new) BY <1>2, <1>4, <1>6 DEF KeepsNotices
<1> QED BY <1>3, <1>4, <1>6, <1>7 DEF new

LEMMA ListUpsert ==
  ASSUME ListIInv, NEW w \in Watch, NEW c \in Channels, NEW enabled \in BOOLEAN,
         Following!upsertWatchlist(w, c, enabled)
  PROVE  ListIInv' /\ KeepsNotices(notificationJobs, notificationJobs')
<1> DEFINE jobs == notificationJobs
           item == [channels |-> c, notificationEnabled |-> enabled]
<1>1. Following!TypeOK /\ jobs \in Seq(Notice)
  BY DEF ListIInv, Following!TypeOK, Notice
<1>2. /\ watchlist \in [Watch -> {NULL} \union ListItem] /\ item \in ListItem
      /\ NULL \notin ListItem
  BY <1>1, WatchAssumption DEF Following!TypeOK, ListItem
<1>3. watchlist' = [watchlist EXCEPT ![w] = item]
  BY DEF Following!upsertWatchlist
<1>4. /\ watchlist' \in [Watch -> {NULL} \union ListItem] /\ watchlist'[w] = item
      /\ \A x \in Watch : x # w => watchlist'[x] = watchlist[x]
  BY <1>2, <1>3
<1>5. DOMAIN jobs = 1..Len(jobs) /\ Len(jobs) \in Nat BY <1>1
<1> HIDE DEF item
<1>6. /\ jobs' \in Seq(Notice) /\ KeepsNotices(jobs, jobs')
      /\ \A i \in DOMAIN jobs : jobs[i].watch # w => jobs'[i] = jobs[i]
      /\ \A i \in DOMAIN jobs' : jobs'[i].watch = w \/ i \in DOMAIN jobs
  <2>1. CASE enabled BY <1>1, <2>1, ScheduleFacts DEF Following!upsertWatchlist
  <2>2. CASE ~enabled
    <3>1. jobs' = Following!cancelWatchlistNotifications(w)
      BY <2>2 DEF Following!upsertWatchlist
    <3> QED BY <1>1, <3>1, CancelFacts
  <2> QED BY <2>1, <2>2
<1>7. Following!TypeOK' BY <1>4, <1>6 DEF Following!TypeOK, ListItem, Notice
<1>8. ASSUME NEW i \in DOMAIN jobs', jobs'[i].status = "SCHEDULED"
      PROVE  watchlist'[jobs'[i].watch] # NULL
  <2>1. CASE jobs'[i].watch = w BY <1>2, <1>4, <2>1
  <2>2. CASE jobs'[i].watch # w
    <3>1. i \in DOMAIN jobs /\ jobs[i].watch = jobs'[i].watch
      BY <1>6, <2>2 DEF KeepsNotices
    <3>2. jobs'[i] = jobs[i] BY <1>6, <2>2, <3>1
    <3>3. watchlist[jobs[i].watch] # NULL
      BY <1>8, <3>1, <3>2 DEF ListIInv, Following!NoticesFollowTheList
    <3>4. jobs[i].watch \in Watch
      <4>1. jobs[i] \in Notice BY <1>1, <3>1
      <4> QED BY <4>1 DEF Notice
    <3> QED BY <1>4, <2>2, <3>1, <3>3, <3>4
  <2> QED BY <2>1, <2>2
<1>9. ASSUME NEW x \in Watch, watchlist'[x] # NULL, watchlist'[x].notificationEnabled,
             NEW type \in Following!ReminderTypes
      PROVE  \E i \in DOMAIN jobs' :
               jobs'[i].type = type /\ Due(jobs'[i], x, watchlist'[x].channels)
  <2>1. CASE x = w
    <3>1. enabled /\ watchlist'[x].channels = c BY <1>4, <1>9, <2>1 DEF item
    <3>2. jobs' = Following!scheduleWatchlistNotifications(w, c)
      BY <3>1 DEF Following!upsertWatchlist
    <3> QED BY <1>1, <2>1, <3>1, <3>2, ScheduleFacts
  <2>2. CASE x # w
    <3>1. watchlist'[x] = watchlist[x] BY <1>4, <2>2
    <3>2. PICK i \in Following!JobsOf(x, type) :
            \/ jobs[i].status = "SENT"
            \/ jobs[i].status = "SCHEDULED" /\ jobs[i].channels = watchlist[x].channels
      BY <1>9, <3>1 DEF ListIInv, Following!NoticesFollowTheList
    <3>3. i \in DOMAIN jobs /\ jobs[i].watch = x /\ jobs[i].type = type
      BY <3>2 DEF Following!JobsOf
    <3>4. jobs'[i] = jobs[i] BY <1>6, <2>2, <3>3
    <3>5. i \in DOMAIN jobs' BY <1>5, <1>6, <3>3 DEF KeepsNotices
    <3> QED BY <3>1, <3>2, <3>3, <3>4, <3>5 DEF Due
  <2> QED BY <2>1, <2>2
<1>10. Following!NoticesFollowTheList'
  BY <1>8, <1>9 DEF Following!NoticesFollowTheList, Following!JobsOf, Due
<1> QED BY <1>6, <1>7, <1>10 DEF ListIInv

LEMMA ListRemove ==
  ASSUME ListIInv, NEW w \in Watch, Following!removeWatchlist(w)
  PROVE  ListIInv' /\ KeepsNotices(notificationJobs, notificationJobs')
<1> DEFINE jobs == notificationJobs
<1>1. Following!TypeOK /\ jobs \in Seq(Notice)
  BY DEF ListIInv, Following!TypeOK, Notice
<1>2. watchlist \in [Watch -> {NULL} \union ListItem]
  BY <1>1 DEF Following!TypeOK, ListItem
<1>3. /\ watchlist' \in [Watch -> {NULL} \union ListItem] /\ watchlist'[w] = NULL
      /\ \A x \in Watch : x # w => watchlist'[x] = watchlist[x]
  BY <1>2 DEF Following!removeWatchlist
<1>4. /\ jobs' \in Seq(Notice) /\ KeepsNotices(jobs, jobs') /\ DOMAIN jobs' = DOMAIN jobs
      /\ \A i \in DOMAIN jobs' :
           /\ jobs[i].watch # w => jobs'[i] = jobs[i]
           /\ jobs'[i].status = "SCHEDULED" => jobs'[i] = jobs[i] /\ jobs'[i].watch # w
  <2>1. jobs' = Following!cancelWatchlistNotifications(w) BY DEF Following!removeWatchlist
  <2> QED BY <1>1, <2>1, CancelFacts
<1>5. Following!TypeOK' BY <1>3, <1>4 DEF Following!TypeOK, ListItem, Notice
<1>6. ASSUME NEW i \in DOMAIN jobs', jobs'[i].status = "SCHEDULED"
      PROVE  watchlist'[jobs'[i].watch] # NULL
  <2>1. i \in DOMAIN jobs /\ jobs'[i] = jobs[i] /\ jobs[i].watch # w BY <1>4, <1>6
  <2>2. jobs[i].watch \in Watch
    <3>1. jobs[i] \in Notice BY <1>1, <2>1
    <3> QED BY <3>1 DEF Notice
  <2>3. watchlist[jobs[i].watch] # NULL
    BY <1>6, <2>1 DEF ListIInv, Following!NoticesFollowTheList
  <2> QED BY <1>3, <2>1, <2>2, <2>3
<1>7. ASSUME NEW x \in Watch, watchlist'[x] # NULL, watchlist'[x].notificationEnabled,
             NEW type \in Following!ReminderTypes
      PROVE  \E i \in DOMAIN jobs' :
               jobs'[i].type = type /\ Due(jobs'[i], x, watchlist'[x].channels)
  <2>1. x # w /\ watchlist'[x] = watchlist[x] BY <1>3, <1>7
  <2>2. PICK i \in Following!JobsOf(x, type) :
          \/ jobs[i].status = "SENT"
          \/ jobs[i].status = "SCHEDULED" /\ jobs[i].channels = watchlist[x].channels
    BY <1>7, <2>1 DEF ListIInv, Following!NoticesFollowTheList
  <2>3. i \in DOMAIN jobs /\ jobs[i].watch = x /\ jobs[i].type = type
    BY <2>2 DEF Following!JobsOf
  <2>4. jobs'[i] = jobs[i] BY <1>4, <2>1, <2>3
  <2> QED BY <1>4, <2>1, <2>2, <2>3, <2>4 DEF Due
<1>8. Following!NoticesFollowTheList'
  BY <1>6, <1>7 DEF Following!NoticesFollowTheList, Following!JobsOf, Due
<1> QED BY <1>4, <1>5, <1>8 DEF ListIInv

LEMMA ListNotify ==
  ASSUME ListIInv, NEW w \in Watch, NEW type \in Following!Type, NEW now \in BOOLEAN,
         Following!notifyWatchlist(w, type, now)
  PROVE  ListIInv' /\ KeepsNotices(notificationJobs, notificationJobs')
<1> DEFINE jobs == notificationJobs
           status == IF now THEN "SENT" ELSE "SCHEDULED"
           job == Following!Job(w, type, watchlist[w].channels, status, TRUE)
<1>1. Following!TypeOK /\ jobs \in Seq(Notice)
  BY DEF ListIInv, Following!TypeOK, Notice
<1>2. watchlist \in [Watch -> {NULL} \union ListItem]
  BY <1>1 DEF Following!TypeOK, ListItem
<1>3. watchlist' = watchlist /\ watchlist[w] # NULL /\ jobs' = Append(jobs, job)
  BY DEF Following!notifyWatchlist
<1>4. watchlist[w].channels \in Channels BY <1>2, <1>3 DEF ListItem
<1>5. job \in Notice /\ job.watch = w
  BY <1>4 DEF Following!Job, Notice, Following!Status
<1> HIDE DEF job
<1>6. /\ jobs' \in Seq(Notice) /\ Len(jobs') = Len(jobs) + 1 /\ Len(jobs) \in Nat
      /\ DOMAIN jobs = 1..Len(jobs) /\ DOMAIN jobs' = 1..Len(jobs) + 1
      /\ \A i \in DOMAIN jobs : jobs'[i] = jobs[i]
      /\ jobs'[Len(jobs) + 1] = job
  BY <1>1, <1>3, <1>5
<1>7. KeepsNotices(jobs, jobs') BY <1>6 DEF KeepsNotices
<1>8. Following!TypeOK' BY <1>2, <1>3, <1>6 DEF Following!TypeOK, ListItem, Notice
<1>9. ASSUME NEW i \in DOMAIN jobs', jobs'[i].status = "SCHEDULED"
      PROVE  watchlist'[jobs'[i].watch] # NULL
  <2>1. CASE i \in DOMAIN jobs
    BY <1>3, <1>6, <1>9, <2>1 DEF ListIInv, Following!NoticesFollowTheList
  <2>2. CASE i = Len(jobs) + 1 BY <1>3, <1>5, <1>6, <2>2
  <2> QED BY <1>6, <2>1, <2>2
<1>10. ASSUME NEW x \in Watch, watchlist'[x] # NULL, watchlist'[x].notificationEnabled,
              NEW kind \in Following!ReminderTypes
       PROVE  \E i \in DOMAIN jobs' :
                jobs'[i].type = kind /\ Due(jobs'[i], x, watchlist'[x].channels)
  <2>1. PICK i \in Following!JobsOf(x, kind) :
          \/ jobs[i].status = "SENT"
          \/ jobs[i].status = "SCHEDULED" /\ jobs[i].channels = watchlist[x].channels
    BY <1>3, <1>10 DEF ListIInv, Following!NoticesFollowTheList
  <2>2. i \in DOMAIN jobs /\ jobs[i].watch = x /\ jobs[i].type = kind
    BY <2>1 DEF Following!JobsOf
  <2>3. i \in DOMAIN jobs' /\ jobs'[i] = jobs[i] BY <1>6, <2>2
  <2> QED BY <1>3, <2>1, <2>2, <2>3 DEF Due
<1>11. Following!NoticesFollowTheList'
  BY <1>9, <1>10 DEF Following!NoticesFollowTheList, Following!JobsOf, Due
<1> QED BY <1>7, <1>8, <1>11 DEF ListIInv

LEMMA ListInit == Following!Init => ListIInv
<1> SUFFICES ASSUME Following!Init PROVE ListIInv
  OBVIOUS
<1>1. watchlist = [w \in Watch |-> NULL] /\ notificationJobs = <<>> BY DEF Following!Init
<1>2. Following!TypeOK BY <1>1, EmptySequence DEF Following!TypeOK
<1>3. Following!NoticesFollowTheList BY <1>1 DEF Following!NoticesFollowTheList
<1> QED BY <1>2, <1>3 DEF ListIInv

LEMMA ListNext ==
  ASSUME ListIInv, [Following!Next]_listVars
  PROVE  ListIInv' /\ KeepsNotices(notificationJobs, notificationJobs')
<1>1. CASE UNCHANGED listVars
  BY <1>1 DEF ListIInv, Following!TypeOK, Following!NoticesFollowTheList, Following!JobsOf,
              listVars, KeepsNotices
<1>2. ASSUME NEW w \in Watch, NEW c \in Channels, NEW enabled \in BOOLEAN,
             Following!upsertWatchlist(w, c, enabled)
      PROVE  ListIInv' /\ KeepsNotices(notificationJobs, notificationJobs')
  BY <1>2, ListUpsert
<1>3. ASSUME NEW w \in Watch, NEW enabled \in BOOLEAN,
             Following!putWatchlistNotification(w, enabled)
      PROVE  ListIInv' /\ KeepsNotices(notificationJobs, notificationJobs')
  <2>1. watchlist[w].channels \in Channels
    BY <1>3 DEF Following!putWatchlistNotification, ListIInv, Following!TypeOK
  <2> QED BY <1>3, <2>1, ListUpsert DEF Following!putWatchlistNotification
<1> QED BY <1>1, <1>2, <1>3, ListRemove, ListNotify DEF Following!Next

-----------------------------------------------------------------------------
(* The components run alone, so that a step of all of them is one of each. *)

LEMMA OfficeSteps ==
  [Next]_vars => /\ [Onboarding!Next]_sellerVars /\ [Social!Next]_loginVars
                 /\ [Nice!Next]_identityVars /\ [Following!Next]_listVars
<1> USE DEF vars, accountVars, designVars
<1>1. [Next]_vars => [Onboarding!Next]_sellerVars BY DEF Next
<1>2. [Next]_vars => [Social!Next]_loginVars BY DEF Next
<1>3. [Next]_vars => [Nice!Next]_identityVars BY DEF Next
<1>4. [Next]_vars => [Following!Next]_listVars BY DEF Next
<1> QED BY <1>1, <1>2, <1>3, <1>4

LEMMA EditSteps ==
  ASSUME NEW e \in Catalogue, [Next]_vars, component' = e
  PROVE  component = e /\ [Editing(e)!Next]_eventVars
<1>1. component = e BY DEF Next, vars
<1>2. component \notin Office BY <1>1, CatalogueAssumption
<1> QED BY <1>1, <1>2 DEF Next, vars, Office

Edits == \A e \in Catalogue : component = e => EditIInv(e)

LEMMA EditAlways == Spec => []Edits
<1>1. Init => Edits
  <2> SUFFICES ASSUME Init, NEW e \in Catalogue, component = e PROVE EditIInv(e)
    BY DEF Edits
  <2>1. Editing(e)!Init BY DEF Init, Edited
  <2> QED BY <2>1, EditInit
<1>2. Edits /\ [Next]_vars => Edits'
  <2> SUFFICES ASSUME Edits, [Next]_vars, NEW e \in Catalogue, component' = e
               PROVE  EditIInv(e)'
    BY DEF Edits
  <2> QED BY EditSteps, EditNext DEF Edits
<1> QED BY <1>1, <1>2, PTL DEF Spec

LEMMA SellerAlways == Spec => []SellerIInv
<1>1. Init => SellerIInv BY SellerInit DEF Init
<1>2. SellerIInv /\ [Next]_vars => SellerIInv' BY SellerNext, OfficeSteps
<1> QED BY <1>1, <1>2, PTL DEF Spec

LEMMA LoginAlways == Spec => []LoginIInv
<1>1. Init => LoginIInv BY LoginInit DEF Init
<1>2. LoginIInv /\ [Next]_vars => LoginIInv' BY LoginNext, OfficeSteps
<1> QED BY <1>1, <1>2, PTL DEF Spec

LEMMA NiceAlways == Spec => []NiceIInv
<1>1. Init => NiceIInv BY NiceInit DEF Init
<1>2. NiceIInv /\ [Next]_vars => NiceIInv' BY NiceNext, OfficeSteps
<1> QED BY <1>1, <1>2, PTL DEF Spec

LEMMA ListAlways == Spec => []ListIInv
<1>1. Init => ListIInv BY ListInit DEF Init
<1>2. ListIInv /\ [Next]_vars => ListIInv' BY ListNext, OfficeSteps
<1> QED BY <1>1, <1>2, PTL DEF Spec

(* backend/social-oauth.js:285 and identity.js:329: whatever callbacks     *)
(* interleave or repeat, a person has one account and one identity.        *)
THEOREM AccountsWhole == Spec => []AccountsAreWhole
<1>1. LoginIInv /\ NiceIInv => AccountsAreWhole BY DEF LoginIInv, NiceIInv, AccountsAreWhole
<1> QED BY <1>1, LoginAlways, NiceAlways, PTL

(* backend/dtos.js:147-152 and seller-events.js:5-6: of what the public    *)
(* sees only an entry that was added beside another of its id, by a draft  *)
(* that had waited, is unreviewed; admin.js:453 and 594: no edit takes a   *)
(* ticket from its owner, and a sold seat keeps its zone unless it was     *)
(* sold while an update that drops the zone waited; admin.js:408: who      *)
(* sells was reviewed, once and for all; engagement.js:64-88: notices      *)
(* follow what the customer chose.                                         *)
THEOREM DecisionsKept == Spec => DecisionsHold
<1> DEFINE Found == \A e \in Catalogue : component = e =>
                      Editing(e)!UnreviewedIsHidden /\ Editing(e)!SoldSeatsHaveZones
           Kept == \A e \in Catalogue : component = e => Editing(e)!KeepsTakenTickets
           Once == \A i \in DOMAIN notificationJobs :
                     /\ i \in DOMAIN notificationJobs'
                     /\ notificationJobs[i].status = "SENT" =>
                          notificationJobs'[i].status = "SENT"
<1>1. Spec => []Found
  <2>1. ASSUME Edits, NEW e \in Catalogue, component = e
        PROVE  Editing(e)!UnreviewedIsHidden /\ Editing(e)!SoldSeatsHaveZones
    BY <2>1 DEF Edits, EditIInv, TicketsHaveZones, Editing!SoldSeatsHaveZones
  <2>2. Edits => Found BY <2>1
  <2> QED BY <2>2, EditAlways, PTL
<1>2. Spec => [][Kept]_vars
  <2>1. Edits /\ [Next]_vars => [Kept]_vars
    <3> SUFFICES ASSUME Edits, Next, NEW e \in Catalogue, component = e
                 PROVE  Editing(e)!KeepsTakenTickets
      OBVIOUS
    <3>1. component' = e BY DEF Next
    <3> QED BY <3>1, EditSteps, EditNext DEF Edits
  <2> QED BY <2>1, EditAlways, PTL DEF Spec
<1>3. Spec => []Onboarding!SellersAreReviewed
  <2>1. SellerIInv => Onboarding!SellersAreReviewed BY DEF SellerIInv
  <2> QED BY <2>1, SellerAlways, PTL
<1>4. Spec => []Following!NoticesFollowTheList
  <2>1. ListIInv => Following!NoticesFollowTheList BY DEF ListIInv
  <2> QED BY <2>1, ListAlways, PTL
<1>5. Spec => [][Once]_listVars
  <2>1. ListIInv /\ [Next]_vars => [Once]_listVars
    <3> SUFFICES ASSUME ListIInv, [Next]_vars PROVE Once
      OBVIOUS
    <3>1. ListIInv' /\ KeepsNotices(notificationJobs, notificationJobs')
      BY ListNext, OfficeSteps
    <3>2. notificationJobs \in Seq(Notice) /\ notificationJobs' \in Seq(Notice)
      BY <3>1 DEF ListIInv, Following!TypeOK, Notice
    <3>3. /\ DOMAIN notificationJobs = 1..Len(notificationJobs)
          /\ DOMAIN notificationJobs' = 1..Len(notificationJobs')
          /\ Len(notificationJobs) \in Nat /\ Len(notificationJobs') \in Nat
      BY <3>2, LenProperties
    <3> QED BY <3>1, <3>3 DEF KeepsNotices
  <2> QED BY <2>1, ListAlways, PTL DEF Spec
<1>6. Spec => Following!SentOnce
  BY <1>5 DEF Following!SentOnce, Following!watchVars, listVars
<1>7. Spec => [][Decided]_sellerVars
  <2>1. SellerIInv /\ [Next]_vars => [Decided]_sellerVars
    BY OfficeSteps, SellerDecided
  <2> QED BY <2>1, SellerAlways, PTL DEF Spec
<1>8. Spec => Onboarding!ReviewsAreFinal
  BY <1>7 DEF Onboarding!ReviewsAreFinal, Onboarding!vars, sellerVars, Decided
<1> QED BY <1>1, <1>2, <1>3, <1>4, <1>6, <1>8, PTL DEF DecisionsHold
=============================================================================
