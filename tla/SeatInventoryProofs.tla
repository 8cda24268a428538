------------------------ MODULE SeatInventoryProofs ------------------------
(***************************************************************************)
(* Proofs about SeatInventory, for any seats, users, records and times to  *)
(* live: the records and the tickets agree, no seat is stranded, no claim  *)
(* outlasts its bound, what is paid for is got, and the handlers together  *)
(* implement SeatBook.                                                     *)
(***************************************************************************)
EXTENDS SeatInventory, TLAPS

-----------------------------------------------------------------------------
(* The inductive invariant *)

(* A record in use belongs to a user; a draft came from a converted hold.  *)
RecordsHaveOrigins ==
  /\ \A h \in HoldId : seatHolds[h].status # "NONE" => seatHolds[h].userId \in User
  /\ \A d \in DraftId :
       IF reservationDrafts[d].status = "NONE"
       THEN reservationDrafts[d].holdId = NULL
       ELSE /\ reservationDrafts[d].userId \in User
            /\ reservationDrafts[d].holdId \in HoldId
            /\ seatHolds[reservationDrafts[d].holdId].status = "CONVERTED"

(* Each extension moves a hold's end by less than HOLD_EXTENSION, as it is *)
(* granted only before that end.                                           *)
HoldTimeBounded ==
  \A h \in HoldId : seatHolds[h].status # "NONE" =>
    seatHolds[h].expiresAt
      <= seatHolds[h].createdAt + HOLD_TTL + seatHolds[h].extensionsUsed * HOLD_EXTENSION

IInv ==
  /\ TypeOK
  /\ ClaimsKeepTheirSeats
  /\ SeatsNameLiveClaims
  /\ RecordsHaveOrigins
  /\ HoldTimeBounded
  /\ ClaimTimeBounded
  /\ ConvertedClaimsArePaidFor

-----------------------------------------------------------------------------
LEMMA ConstantTypes ==
  /\ HOLD_TTL \in Nat \ {0} /\ HOLD_EXTENSION \in Nat \ {0} /\ DRAFT_TTL \in Nat \ {0}
  /\ HOLD_MAX_EXTENSIONS \in Nat
  /\ NULL \notin User /\ NULL \notin HoldId /\ NULL \notin DraftId
  BY ConstantsAssumption

LEMMA InitIInv == Init => IInv
  <1> SUFFICES ASSUME Init PROVE IInv
    OBVIOUS
  <1> USE ConstantsAssumption
  <1>1. TypeOK
    BY DEF Init, TypeOK, OnSale, NoHold, NoDraft, Ticket, Hold, Draft,
       TicketStatus, HoldStatus, DraftStatus
  <1>2. /\ \A s \in Seat : tickets[s] = OnSale
        /\ \A h \in HoldId : seatHolds[h] = NoHold
        /\ \A d \in DraftId : reservationDrafts[d] = NoDraft
    BY DEF Init
  <1>3. QED
    BY <1>1, <1>2 DEF IInv, ClaimsKeepTheirSeats, SeatsNameLiveClaims, RecordsHaveOrigins,
       HoldTimeBounded, ClaimTimeBounded, ConvertedClaimsArePaidFor, OnSale, NoHold, NoDraft

-----------------------------------------------------------------------------
(* Releasing seats *)

(* releaseHeldTickets frees exactly the seats held by the holds of H. *)
LEMMA Released ==
  ASSUME IInv, NEW H \in SUBSET HoldId, \A h \in H : seatHolds[h].status = "ACTIVE",
         NEW s \in Seat
  PROVE  LET r == releaseHeldTickets(H)[s]
         IN IF tickets[s].status = "HELD" /\ tickets[s].heldBy \in H
            THEN /\ r.status = "ON_SALE" /\ r.heldBy = NULL /\ r.holdExpiresAt = 0
                 /\ r.ownerId = tickets[s].ownerId
                 /\ r.reservationId = tickets[s].reservationId
                 /\ r.reservationExpiresAt = tickets[s].reservationExpiresAt
            ELSE r = tickets[s]
  <1>1. tickets[s] \in Ticket
    BY DEF IInv, TypeOK
  <1>2. tickets[s].status = "HELD" => \E h \in HoldId : tickets[s].heldBy = h /\ s \in seatHolds[h].ticketIds
    BY DEF IInv, SeatsNameLiveClaims
  <1>3. QED
    BY <1>1, <1>2 DEF releaseHeldTickets, Ticket

LEMMA ReleasedType ==
  ASSUME TypeOK, NEW H
  PROVE  releaseHeldTickets(H) \in [Seat -> Ticket]
  <1> SUFFICES ASSUME NEW s \in Seat PROVE releaseHeldTickets(H)[s] \in Ticket
    BY DEF releaseHeldTickets
  <1>1. tickets[s] \in Ticket
    BY DEF TypeOK
  <1>2. QED
    BY <1>1, ConstantsAssumption DEF releaseHeldTickets, Ticket, TicketStatus

LEMMA EndedType ==
  ASSUME TypeOK, NEW H, NEW status \in HoldStatus
  PROVE  /\ EndHolds(H, status) \in [HoldId -> Hold]
         /\ \A h \in HoldId :
              LET e == EndHolds(H, status)[h]
              IN IF h \in H
                 THEN /\ e.status = status
                      /\ e.userId = seatHolds[h].userId /\ e.ticketIds = seatHolds[h].ticketIds
                      /\ e.createdAt = seatHolds[h].createdAt
                      /\ e.expiresAt = seatHolds[h].expiresAt
                      /\ e.extensionsUsed = seatHolds[h].extensionsUsed
                 ELSE e = seatHolds[h]
  <1>1. \A h \in HoldId : seatHolds[h] \in Hold
    BY DEF TypeOK
  <1>2. QED
    BY <1>1 DEF EndHolds, Hold

-----------------------------------------------------------------------------
(* Steps of holds *)

(* Ending active holds and freeing their seats, whatever the reason. *)
LEMMA EndHoldsStep ==
  ASSUME IInv, NEW H \in SUBSET HoldId, NEW status \in {"EXPIRED", "RELEASED"},
         \A h \in H : seatHolds[h].status = "ACTIVE",
         tickets' = releaseHeldTickets(H), seatHolds' = EndHolds(H, status),
         UNCHANGED <<now, bookable, reservationDrafts>>
  PROVE  IInv'
  <1> USE ConstantsAssumption
  <1>1. TypeOK /\ status \in HoldStatus
    BY DEF IInv, HoldStatus
  <1>2. TypeOK'
    BY <1>1, ReleasedType, EndedType DEF TypeOK
  <1>3. \A s \in Seat :
          IF tickets[s].status = "HELD" /\ tickets[s].heldBy \in H
          THEN /\ tickets'[s].status = "ON_SALE" /\ tickets'[s].heldBy = NULL
               /\ tickets'[s].ownerId = tickets[s].ownerId
               /\ tickets'[s].reservationId = tickets[s].reservationId
          ELSE tickets'[s] = tickets[s]
    BY Released
  <1>4. \A h \in HoldId :
          IF h \in H
          THEN /\ seatHolds'[h].status = status
               /\ seatHolds'[h].userId = seatHolds[h].userId
               /\ seatHolds'[h].ticketIds = seatHolds[h].ticketIds
               /\ seatHolds'[h].createdAt = seatHolds[h].createdAt
               /\ seatHolds'[h].expiresAt = seatHolds[h].expiresAt
               /\ seatHolds'[h].extensionsUsed = seatHolds[h].extensionsUsed
          ELSE seatHolds'[h] = seatHolds[h]
    BY <1>1, EndedType
  <1>5. ClaimsKeepTheirSeats'
    <2>1. ASSUME NEW h \in HoldId, seatHolds'[h].status = "ACTIVE", NEW s \in seatHolds'[h].ticketIds
          PROVE  /\ tickets'[s].status = "HELD" /\ tickets'[s].heldBy = h
                 /\ tickets'[s].holdExpiresAt = seatHolds'[h].expiresAt
      <3>1. h \notin H /\ seatHolds'[h] = seatHolds[h]
        BY <1>4, <2>1
      <3>2. s \in Seat
        BY <2>1, <3>1 DEF IInv, TypeOK, Hold
      <3>3. QED
        BY <1>3, <2>1, <3>1, <3>2 DEF IInv, ClaimsKeepTheirSeats
    <2>2. ASSUME NEW d \in DraftId, reservationDrafts[d].status = "PENDING_PAYMENT",
                 NEW s \in reservationDrafts[d].ticketIds
          PROVE  tickets'[s] = tickets[s]
      <3>1. s \in Seat
        BY <2>2 DEF IInv, TypeOK, Draft
      <3>2. tickets[s].status = "RESERVED"
        BY <2>2 DEF IInv, ClaimsKeepTheirSeats
      <3>3. QED
        BY <1>3, <3>1, <3>2
    <2>3. QED
      BY <2>1, <2>2 DEF IInv, ClaimsKeepTheirSeats
  <1>6. SeatsNameLiveClaims'
    <2> SUFFICES ASSUME NEW s \in Seat
                 PROVE  /\ IF tickets'[s].status = "HELD"
                           THEN \E h \in HoldId : /\ tickets'[s].heldBy = h
                                                  /\ seatHolds'[h].status = "ACTIVE"
                                                  /\ s \in seatHolds'[h].ticketIds
                           ELSE tickets'[s].heldBy = NULL
                        /\ IF tickets'[s].status = "RESERVED"
                           THEN \E d \in DraftId : /\ tickets'[s].reservationId = d
                                                   /\ reservationDrafts[d].status = "PENDING_PAYMENT"
                                                   /\ s \in reservationDrafts[d].ticketIds
                           ELSE tickets'[s].reservationId = NULL
                        /\ tickets'[s].status = "OWNED" <=> tickets'[s].ownerId # NULL
      BY DEF SeatsNameLiveClaims
    <2>1. CASE tickets[s].status = "HELD" /\ tickets[s].heldBy \in H
      BY <1>3, <2>1 DEF IInv, SeatsNameLiveClaims
    <2>2. CASE ~(tickets[s].status = "HELD" /\ tickets[s].heldBy \in H)
      BY <1>3, <1>4, <2>2 DEF IInv, SeatsNameLiveClaims
    <2>3. QED
      BY <2>1, <2>2
  <1>7. RecordsHaveOrigins'
    BY <1>4 DEF IInv, RecordsHaveOrigins
  <1>8. HoldTimeBounded'
    BY <1>4 DEF IInv, HoldTimeBounded
  <1>9. ClaimTimeBounded'
    BY <1>4 DEF IInv, ClaimTimeBounded, RecordsHaveOrigins
  <1>10. ConvertedClaimsArePaidFor'
    <2>1. \A s \in Seat : tickets[s].ownerId = tickets'[s].ownerId
      BY <1>3
    <2>2. \A d \in DraftId : reservationDrafts[d].ticketIds \subseteq Seat
      BY DEF IInv, TypeOK, Draft
    <2>3. \A h \in HoldId : seatHolds[h].ticketIds \subseteq Seat
      BY DEF IInv, TypeOK, Hold
    <2>4. \A h \in HoldId : seatHolds'[h].status = "CONVERTED" => seatHolds'[h] = seatHolds[h]
      BY <1>4
    <2>5. QED
      BY <2>1, <2>2, <2>3, <2>4 DEF IInv, ConvertedClaimsArePaidFor
  <1>11. QED
    BY <1>2, <1>5, <1>6, <1>7, <1>8, <1>9, <1>10 DEF IInv

(* A hold that is made after the due ones are gone takes only seats that   *)
(* no live record names.                                                   *)
LEMMA CreateStep ==
  ASSUME IInv, NEW u \in User, NEW S \in SUBSET Seat, createSeatHold(u, S)
  PROVE  IInv'
  <1> USE ConstantTypes
  <1> DEFINE due == holdsToReconcile(u)
             seats == releaseHeldTickets(due)
             holds == EndHolds(due, "EXPIRED")
  <1>1. due \in SUBSET HoldId /\ \A h \in due : seatHolds[h].status = "ACTIVE"
    BY DEF holdsToReconcile, DueHold
  <1>2. CASE seatHolds' = holds /\ tickets' = seats
    BY <1>1, <1>2, EndHoldsStep DEF createSeatHold
  <1>3. CASE ~(seatHolds' = holds /\ tickets' = seats)
    <2>1. PICK h \in HoldId :
            /\ seatHolds[h].status = "NONE"
            /\ seatHolds' = [holds EXCEPT ![h] =
                 [status |-> "ACTIVE", userId |-> u, ticketIds |-> S, createdAt |-> now,
                  expiresAt |-> now + HOLD_TTL, extensionsUsed |-> 0]]
            /\ tickets' = [s \in Seat |->
                 IF s \in S
                 THEN [seats[s] EXCEPT !.status = "HELD", !.heldBy = h,
                                       !.holdExpiresAt = now + HOLD_TTL]
                 ELSE seats[s]]
            /\ \A s \in S : seats[s].status = "ON_SALE"
      BY <1>3 DEF createSeatHold
    <2>2. UNCHANGED <<now, bookable, reservationDrafts>>
      BY DEF createSeatHold
    <2>16. seats \in [Seat -> Ticket] /\ holds \in [HoldId -> Hold]
      BY ReleasedType, EndedType DEF IInv, HoldStatus
    <2>3. \A s \in Seat :
            IF tickets[s].status = "HELD" /\ tickets[s].heldBy \in due
            THEN /\ seats[s].status = "ON_SALE" /\ seats[s].heldBy = NULL
                 /\ seats[s].ownerId = tickets[s].ownerId
                 /\ seats[s].reservationId = tickets[s].reservationId
            ELSE seats[s] = tickets[s]
      BY <1>1, Released
    <2>4. \A g \in HoldId :
               IF g \in due
               THEN /\ holds[g].status = "EXPIRED"
                    /\ holds[g].userId = seatHolds[g].userId
                    /\ holds[g].ticketIds = seatHolds[g].ticketIds
                    /\ holds[g].createdAt = seatHolds[g].createdAt
                    /\ holds[g].expiresAt = seatHolds[g].expiresAt
                    /\ holds[g].extensionsUsed = seatHolds[g].extensionsUsed
               ELSE holds[g] = seatHolds[g]
      BY <1>1, EndedType DEF IInv, HoldStatus
    <2> HIDE DEF seats, holds
    <2>5. /\ h \notin due
          /\ seatHolds'[h] = [status |-> "ACTIVE", userId |-> u, ticketIds |-> S,
                              createdAt |-> now, expiresAt |-> now + HOLD_TTL,
                              extensionsUsed |-> 0]
          /\ \A g \in HoldId \ {h} : seatHolds'[g] = holds[g]
      BY <1>1, <2>1, <2>16
    <2>17. \A s \in Seat : tickets'[s] = IF s \in S
                 THEN [seats[s] EXCEPT !.status = "HELD", !.heldBy = h,
                                       !.holdExpiresAt = now + HOLD_TTL]
                 ELSE seats[s]
      BY <2>1
    <2>18. now \in Nat /\ tickets' = [s \in Seat |-> tickets'[s]]
      BY <2>1 DEF IInv, TypeOK
    <2>6. \A s \in Seat :
            IF s \in S
            THEN /\ tickets'[s].status = "HELD" /\ tickets'[s].heldBy = h
                 /\ tickets'[s].holdExpiresAt = now + HOLD_TTL
                 /\ tickets'[s].ownerId = seats[s].ownerId
                 /\ tickets'[s].reservationId = seats[s].reservationId
            ELSE tickets'[s] = seats[s]
      BY <2>16, <2>17 DEF Ticket
    <2>7. \A s \in S : tickets[s].status \notin {"RESERVED", "OWNED"} /\ tickets[s].ownerId = NULL
      BY <2>1, <2>3 DEF IInv, SeatsNameLiveClaims
    <2>8. TypeOK'
      <3>1. tickets' \in [Seat -> Ticket]
        <4>1. ASSUME NEW s \in Seat PROVE tickets'[s] \in Ticket
          <5>1. seats[s] \in Ticket /\ now + HOLD_TTL \in Nat
            BY <2>16, <2>18
          <5>2. s \in S => [seats[s] EXCEPT !.status = "HELD", !.heldBy = h,
                                           !.holdExpiresAt = now + HOLD_TTL] \in Ticket
            BY <5>1 DEF Ticket, TicketStatus
          <5>3. QED
            BY <2>17, <5>1, <5>2
        <4>2. QED
          BY <2>18, <4>1
      <3>2. seatHolds' \in [HoldId -> Hold]
        <4>1. [status |-> "ACTIVE", userId |-> u, ticketIds |-> S, createdAt |-> now,
               expiresAt |-> now + HOLD_TTL, extensionsUsed |-> 0] \in Hold
          BY <2>18 DEF Hold, HoldStatus
        <4>2. QED
          BY <2>1, <2>16, <4>1
      <3>3. QED
        BY <2>2, <3>1, <3>2 DEF IInv, TypeOK
    <2>9. ClaimsKeepTheirSeats'
      <3>1. ASSUME NEW g \in HoldId, seatHolds'[g].status = "ACTIVE",
                   NEW s \in seatHolds'[g].ticketIds
            PROVE  /\ tickets'[s].status = "HELD" /\ tickets'[s].heldBy = g
                   /\ tickets'[s].holdExpiresAt = seatHolds'[g].expiresAt
        <4>1. CASE g = h
          BY <2>5, <2>6, <3>1, <4>1
        <4>2. CASE g # h
          <5>1. g \notin due /\ seatHolds'[g] = seatHolds[g]
            BY <2>4, <2>5, <3>1, <4>2
          <5>2. s \in Seat
            BY <3>1, <5>1 DEF IInv, TypeOK, Hold
          <5>3. /\ tickets[s].status = "HELD" /\ tickets[s].heldBy = g
                /\ tickets[s].holdExpiresAt = seatHolds[g].expiresAt
            BY <3>1, <5>1 DEF IInv, ClaimsKeepTheirSeats
          <5>4. seats[s] = tickets[s] /\ s \notin S
            BY <2>1, <2>3, <5>1, <5>2, <5>3
          <5>5. QED
            BY <2>6, <5>1, <5>2, <5>3, <5>4
        <4>3. QED
          BY <4>1, <4>2
      <3>2. ASSUME NEW d \in DraftId, reservationDrafts[d].status = "PENDING_PAYMENT",
                   NEW s \in reservationDrafts[d].ticketIds
            PROVE  tickets'[s] = tickets[s]
        <4>1. s \in Seat
          BY <3>2 DEF IInv, TypeOK, Draft
        <4>2. tickets[s].status = "RESERVED"
          BY <3>2 DEF IInv, ClaimsKeepTheirSeats
        <4>3. QED
          BY <2>3, <2>6, <2>7, <4>1, <4>2
      <3>3. QED
        BY <2>2, <3>1, <3>2 DEF IInv, ClaimsKeepTheirSeats
    <2>10. SeatsNameLiveClaims'
      <3> SUFFICES ASSUME NEW s \in Seat
                   PROVE  /\ IF tickets'[s].status = "HELD"
                             THEN \E g \in HoldId : /\ tickets'[s].heldBy = g
                                                    /\ seatHolds'[g].status = "ACTIVE"
                                                    /\ s \in seatHolds'[g].ticketIds
                             ELSE tickets'[s].heldBy = NULL
                          /\ IF tickets'[s].status = "RESERVED"
                             THEN \E d \in DraftId : /\ tickets'[s].reservationId = d
                                                     /\ reservationDrafts[d].status = "PENDING_PAYMENT"
                                                     /\ s \in reservationDrafts[d].ticketIds
                             ELSE tickets'[s].reservationId = NULL
                          /\ tickets'[s].status = "OWNED" <=> tickets'[s].ownerId # NULL
        BY <2>2 DEF SeatsNameLiveClaims
      <3>1. CASE s \in S
        BY <2>3, <2>5, <2>6, <2>7, <3>1 DEF IInv, SeatsNameLiveClaims
      <3>2. CASE s \notin S /\ tickets[s].status = "HELD" /\ tickets[s].heldBy \in due
        BY <2>3, <2>6, <3>2 DEF IInv, SeatsNameLiveClaims
      <3>3. CASE s \notin S /\ ~(tickets[s].status = "HELD" /\ tickets[s].heldBy \in due)
        <4>1. tickets'[s] = tickets[s]
          BY <2>3, <2>6, <3>3
        <4>2. \A g \in HoldId : g \notin due /\ seatHolds[g].status = "ACTIVE"
                                 => seatHolds'[g] = seatHolds[g]
          BY <2>1, <2>4, <2>5
        <4>3. QED
          BY <3>3, <4>1, <4>2 DEF IInv, SeatsNameLiveClaims
      <3>4. QED
        BY <3>1, <3>2, <3>3
    <2>21. seatHolds[h].status = "NONE"
      BY <2>1
    <2>22. \A g \in due : g \in HoldId /\ seatHolds[g].status = "ACTIVE"
      BY <1>1
    <2> HIDE DEF due
    <2>19. /\ \A g \in HoldId \ {h} :
                /\ seatHolds'[g].status = "NONE" <=> seatHolds[g].status = "NONE"
                /\ seatHolds[g].status = "CONVERTED" => seatHolds'[g].status = "CONVERTED"
                /\ seatHolds'[g].userId = seatHolds[g].userId
                /\ seatHolds'[g].createdAt = seatHolds[g].createdAt
                /\ seatHolds'[g].expiresAt = seatHolds[g].expiresAt
                /\ seatHolds'[g].extensionsUsed = seatHolds[g].extensionsUsed
           /\ seatHolds[h].status = "NONE"
           /\ seatHolds'[h].userId = u /\ seatHolds'[h].createdAt = now
           /\ seatHolds'[h].expiresAt = now + HOLD_TTL /\ seatHolds'[h].extensionsUsed = 0
      BY <2>4, <2>5, <2>21, <2>22
    <2>20. \A d \in DraftId : reservationDrafts[d].status # "NONE"
                              => reservationDrafts[d].holdId \in HoldId \ {h}
      BY <2>19 DEF IInv, RecordsHaveOrigins
    <2>11. RecordsHaveOrigins'
      BY <2>2, <2>19, <2>20 DEF IInv, RecordsHaveOrigins
    <2>12. HoldTimeBounded'
      BY <2>18, <2>19 DEF IInv, HoldTimeBounded
    <2>13. ClaimTimeBounded'
      BY <2>2, <2>19, <2>20 DEF IInv, ClaimTimeBounded
    <2>14. ConvertedClaimsArePaidFor'
      <3>1. \A s \in Seat : tickets[s].ownerId = tickets'[s].ownerId
        BY <2>3, <2>6
      <3>2. \A d \in DraftId : reservationDrafts[d].ticketIds \subseteq Seat
        BY DEF IInv, TypeOK, Draft
      <3>3. \A g \in HoldId : seatHolds[g].ticketIds \subseteq Seat
        BY DEF IInv, TypeOK, Hold
      <3>4. \A g \in HoldId : seatHolds'[g].status = "CONVERTED" => seatHolds'[g] = seatHolds[g]
        BY <2>4, <2>5
      <3>5. QED
        BY <2>2, <3>1, <3>2, <3>3, <3>4 DEF IInv, ConvertedClaimsArePaidFor
    <2>15. QED
      BY <2>8, <2>9, <2>10, <2>11, <2>12, <2>13, <2>14 DEF IInv
  <1>4. QED
    BY <1>2, <1>3

LEMMA ExtendStep ==
  ASSUME IInv, NEW u \in User, NEW h \in HoldId, OwnActiveHold(u, h), mayExtend(h),
         ProlongHold(h, now + HOLD_EXTENSION),
         UNCHANGED <<now, bookable, reservationDrafts>>
  PROVE  IInv'
  <1> USE ConstantTypes
  <1> DEFINE until == now + HOLD_EXTENSION
  <1>1. /\ now \in Nat /\ until \in Nat
        /\ \A s \in Seat : tickets[s] \in Ticket
        /\ \A g \in HoldId : seatHolds[g] \in Hold
        /\ \A d \in DraftId : reservationDrafts[d] \in Draft
    BY DEF IInv, TypeOK
  <1>2. seatHolds[h].status = "ACTIVE" /\ seatHolds[h].expiresAt > now
    BY <1>1 DEF OwnActiveHold, DueHold, Hold
  <1>3. /\ seatHolds' = [seatHolds EXCEPT ![h].expiresAt = until, ![h].extensionsUsed = @ + 1]
        /\ tickets' = [s \in Seat |-> IF s \in seatHolds[h].ticketIds
                                      THEN [tickets[s] EXCEPT !.holdExpiresAt = until]
                                      ELSE tickets[s]]
    BY DEF ProlongHold
  <1>4. seatHolds[h].extensionsUsed + 1 \in 0..HOLD_MAX_EXTENSIONS
    BY <1>1 DEF mayExtend, Hold
  <1> HIDE DEF until
  <1>5. TypeOK'
    <2>1. tickets' \in [Seat -> Ticket]
      BY <1>1, <1>3 DEF Ticket
    <2>2. seatHolds' \in [HoldId -> Hold]
      BY <1>1, <1>3, <1>4 DEF IInv, TypeOK, Hold
    <2>3. QED
      BY <2>1, <2>2 DEF IInv, TypeOK
  <1>6. /\ \A g \in HoldId \ {h} : seatHolds'[g] = seatHolds[g]
        /\ seatHolds'[h].status = "ACTIVE" /\ seatHolds'[h].expiresAt = until
        /\ seatHolds'[h].userId = seatHolds[h].userId
        /\ seatHolds'[h].ticketIds = seatHolds[h].ticketIds
        /\ seatHolds'[h].createdAt = seatHolds[h].createdAt
        /\ seatHolds'[h].extensionsUsed = seatHolds[h].extensionsUsed + 1
    BY <1>1, <1>2, <1>3 DEF IInv, TypeOK, Hold
  <1>7. \A s \in Seat :
          /\ IF s \in seatHolds[h].ticketIds THEN tickets'[s].holdExpiresAt = until
                                             ELSE tickets'[s] = tickets[s]
          /\ tickets'[s].status = tickets[s].status
          /\ tickets'[s].ownerId = tickets[s].ownerId
          /\ tickets'[s].heldBy = tickets[s].heldBy
          /\ tickets'[s].reservationId = tickets[s].reservationId
          /\ tickets'[s].reservationExpiresAt = tickets[s].reservationExpiresAt
    BY <1>1, <1>3 DEF Ticket
  <1>8. \A s \in seatHolds[h].ticketIds : /\ s \in Seat /\ tickets[s].status = "HELD"
                                         /\ tickets[s].heldBy = h
    BY <1>1, <1>2 DEF IInv, ClaimsKeepTheirSeats, Hold
  <1>9. ClaimsKeepTheirSeats'
    <2>1. ASSUME NEW g \in HoldId, seatHolds'[g].status = "ACTIVE",
                 NEW s \in seatHolds'[g].ticketIds
          PROVE  /\ tickets'[s].status = "HELD" /\ tickets'[s].heldBy = g
                 /\ tickets'[s].holdExpiresAt = seatHolds'[g].expiresAt
      <3>1. CASE g = h
        BY <1>6, <1>7, <1>8, <2>1, <3>1
      <3>2. CASE g # h
        <4>1. s \in Seat /\ tickets[s].heldBy = g /\ tickets[s].status = "HELD"
              /\ tickets[s].holdExpiresAt = seatHolds[g].expiresAt
          BY <1>1, <1>6, <2>1, <3>2 DEF IInv, ClaimsKeepTheirSeats, Hold
        <4>2. QED
          BY <1>6, <1>7, <1>8, <3>2, <4>1
      <3>3. QED
        BY <3>1, <3>2
    <2>2. ASSUME NEW d \in DraftId, reservationDrafts[d].status = "PENDING_PAYMENT",
                 NEW s \in reservationDrafts[d].ticketIds
          PROVE  /\ tickets'[s].status = "RESERVED" /\ tickets'[s].reservationId = d
                 /\ tickets'[s].reservationExpiresAt = reservationDrafts[d].expiresAt
      BY <1>1, <1>7, <2>2 DEF IInv, ClaimsKeepTheirSeats, Draft
    <2>3. QED
      BY <2>1, <2>2 DEF ClaimsKeepTheirSeats
  <1>10. SeatsNameLiveClaims'
    <2>1. \A g \in HoldId : /\ seatHolds'[g].ticketIds = seatHolds[g].ticketIds
                            /\ seatHolds'[g].status = seatHolds[g].status
      BY <1>2, <1>6
    <2>2. QED
      BY <1>7, <2>1 DEF IInv, SeatsNameLiveClaims
  <1>11. RecordsHaveOrigins'
    BY <1>2, <1>6 DEF IInv, RecordsHaveOrigins
  <1>12. HoldTimeBounded'
    <2>1. seatHolds[h].expiresAt
            <= seatHolds[h].createdAt + HOLD_TTL + seatHolds[h].extensionsUsed * HOLD_EXTENSION
      BY <1>2 DEF IInv, HoldTimeBounded
    <2>2. (seatHolds[h].extensionsUsed + 1) * HOLD_EXTENSION
            = seatHolds[h].extensionsUsed * HOLD_EXTENSION + HOLD_EXTENSION
      BY <1>1 DEF Hold
    <2>3. until < seatHolds[h].expiresAt + HOLD_EXTENSION
      BY <1>1, <1>2 DEF Hold, until
    <2>4. until <= seatHolds[h].createdAt + HOLD_TTL
                     + (seatHolds[h].extensionsUsed + 1) * HOLD_EXTENSION
      <3> DEFINE used == seatHolds[h].extensionsUsed * HOLD_EXTENSION
      <3>1. used \in Nat
        BY <1>1 DEF Hold
      <3> HIDE DEF used
      <3>2. seatHolds[h].expiresAt <= seatHolds[h].createdAt + HOLD_TTL + used
        BY <2>1 DEF used
      <3>3. until <= seatHolds[h].createdAt + HOLD_TTL + (used + HOLD_EXTENSION)
        BY <1>1, <2>3, <3>1, <3>2 DEF Hold
      <3>4. QED
        BY <2>2, <3>3 DEF used
    <2>5. QED
      BY <1>6, <2>4 DEF IInv, HoldTimeBounded
  <1>13. ClaimTimeBounded'
    BY <1>6 DEF IInv, ClaimTimeBounded, RecordsHaveOrigins
  <1>14. ConvertedClaimsArePaidFor'
    <2>1. \A g \in HoldId : seatHolds'[g].status = "CONVERTED" => seatHolds'[g] = seatHolds[g]
      BY <1>6
    <2>2. QED
      BY <1>1, <1>7, <2>1 DEF IInv, ConvertedClaimsArePaidFor, Hold, Draft
  <1>15. QED
    BY <1>5, <1>9, <1>10, <1>11, <1>12, <1>13, <1>14 DEF IInv

-----------------------------------------------------------------------------
(* Steps of drafts *)

(* A draft inherits the seats of its hold, and a bound on how long it can  *)
(* keep them from the moment the hold was made.                            *)
LEMMA MakeDraftStep ==
  ASSUME IInv, NEW u \in User, NEW h \in HoldId, OwnActiveHold(u, h),
         NEW d \in DraftId, reservationDrafts[d].status = "NONE",
         MakeDraft(u, h, d)
  PROVE  IInv'
  <1> USE ConstantTypes
  <1> DEFINE until == now + DRAFT_TTL
  <1>1. /\ now \in Nat /\ until \in Nat
        /\ \A s \in Seat : tickets[s] \in Ticket
        /\ \A g \in HoldId : seatHolds[g] \in Hold
        /\ \A e \in DraftId : reservationDrafts[e] \in Draft
    BY DEF IInv, TypeOK
  <1>2. /\ seatHolds[h].status = "ACTIVE" /\ seatHolds[h].expiresAt > now
        /\ seatHolds[h].userId = u
    BY <1>1 DEF OwnActiveHold, DueHold, Hold
  <1>3. /\ seatHolds' \in [HoldId -> Hold]
        /\ \A g \in HoldId \ {h} : seatHolds'[g] = seatHolds[g]
        /\ seatHolds'[h].status = "CONVERTED"
        /\ seatHolds'[h].userId = seatHolds[h].userId
        /\ seatHolds'[h].ticketIds = seatHolds[h].ticketIds
        /\ seatHolds'[h].createdAt = seatHolds[h].createdAt
        /\ seatHolds'[h].expiresAt = seatHolds[h].expiresAt
        /\ seatHolds'[h].extensionsUsed = seatHolds[h].extensionsUsed
    <2>1. TypeOK /\ "CONVERTED" \in HoldStatus /\ seatHolds' = EndHolds({h}, "CONVERTED")
      BY DEF IInv, HoldStatus, MakeDraft
    <2>2. QED
      BY <2>1, EndedType
  <1>4. /\ \A e \in DraftId \ {d} : reservationDrafts'[e] = reservationDrafts[e]
        /\ reservationDrafts'[d] =
             [status |-> "PENDING_PAYMENT", userId |-> u, holdId |-> h,
              ticketIds |-> seatHolds[h].ticketIds, expiresAt |-> until]
    BY DEF IInv, TypeOK, MakeDraft
  <1>5. reservationDrafts' \in [DraftId -> Draft]
    <2>1. [status |-> "PENDING_PAYMENT", userId |-> u, holdId |-> h,
           ticketIds |-> seatHolds[h].ticketIds, expiresAt |-> until] \in Draft
      BY <1>1 DEF Draft, DraftStatus, Hold
    <2>2. QED
      BY <2>1 DEF IInv, TypeOK, MakeDraft
  <1>6. \A s \in Seat :
          IF s \in seatHolds[h].ticketIds
          THEN /\ tickets'[s].status = "RESERVED" /\ tickets'[s].heldBy = NULL
               /\ tickets'[s].reservationId = d /\ tickets'[s].reservationExpiresAt = until
               /\ tickets'[s].ownerId = tickets[s].ownerId
          ELSE tickets'[s] = tickets[s]
    BY <1>1 DEF Ticket, MakeDraft
  <1>7. tickets' \in [Seat -> Ticket]
    <2>1. ASSUME NEW s \in Seat
          PROVE  [tickets[s] EXCEPT !.status = "RESERVED", !.heldBy = NULL, !.holdExpiresAt = 0,
                    !.reservationId = d, !.reservationExpiresAt = now + DRAFT_TTL] \in Ticket
      BY <1>1 DEF Ticket, TicketStatus
    <2>2. QED
      BY <1>1, <2>1 DEF MakeDraft
  <1>8. TypeOK'
    BY <1>3, <1>5, <1>7 DEF IInv, TypeOK, MakeDraft
  <1>9. \A s \in seatHolds[h].ticketIds : /\ s \in Seat /\ tickets[s].status = "HELD"
                                         /\ tickets[s].heldBy = h
    BY <1>1, <1>2 DEF IInv, ClaimsKeepTheirSeats, Hold
  <1> HIDE DEF until
  <1>10. ClaimsKeepTheirSeats'
    <2>1. ASSUME NEW g \in HoldId, seatHolds'[g].status = "ACTIVE",
                 NEW s \in seatHolds'[g].ticketIds
          PROVE  /\ tickets'[s].status = "HELD" /\ tickets'[s].heldBy = g
                 /\ tickets'[s].holdExpiresAt = seatHolds'[g].expiresAt
      <3>1. g # h /\ seatHolds'[g] = seatHolds[g]
        BY <1>3, <2>1
      <3>2. /\ s \in Seat /\ tickets[s].heldBy = g /\ tickets[s].status = "HELD"
            /\ tickets[s].holdExpiresAt = seatHolds[g].expiresAt
        BY <1>1, <2>1, <3>1 DEF IInv, ClaimsKeepTheirSeats, Hold
      <3>3. s \notin seatHolds[h].ticketIds
        BY <1>9, <3>1, <3>2
      <3>4. QED
        BY <1>6, <3>1, <3>2, <3>3
    <2>2. ASSUME NEW e \in DraftId, reservationDrafts'[e].status = "PENDING_PAYMENT",
                 NEW s \in reservationDrafts'[e].ticketIds
          PROVE  /\ tickets'[s].status = "RESERVED" /\ tickets'[s].reservationId = e
                 /\ tickets'[s].reservationExpiresAt = reservationDrafts'[e].expiresAt
      <3>1. CASE e = d
        BY <1>4, <1>6, <1>9, <2>2, <3>1
      <3>2. CASE e # d
        <4>1. /\ s \in Seat /\ tickets[s].status = "RESERVED" /\ tickets[s].reservationId = e
              /\ tickets[s].reservationExpiresAt = reservationDrafts[e].expiresAt
          BY <1>1, <1>4, <2>2, <3>2 DEF IInv, ClaimsKeepTheirSeats, Draft
        <4>2. s \notin seatHolds[h].ticketIds
          BY <1>9, <4>1
        <4>3. QED
          BY <1>4, <1>6, <3>2, <4>1, <4>2
      <3>3. QED
        BY <3>1, <3>2
    <2>3. QED
      BY <2>1, <2>2 DEF ClaimsKeepTheirSeats
  <1>11. SeatsNameLiveClaims'
    <2> SUFFICES ASSUME NEW s \in Seat
                 PROVE  /\ IF tickets'[s].status = "HELD"
                           THEN \E g \in HoldId : /\ tickets'[s].heldBy = g
                                                  /\ seatHolds'[g].status = "ACTIVE"
                                                  /\ s \in seatHolds'[g].ticketIds
                           ELSE tickets'[s].heldBy = NULL
                        /\ IF tickets'[s].status = "RESERVED"
                           THEN \E e \in DraftId : /\ tickets'[s].reservationId = e
                                                   /\ reservationDrafts'[e].status = "PENDING_PAYMENT"
                                                   /\ s \in reservationDrafts'[e].ticketIds
                           ELSE tickets'[s].reservationId = NULL
                        /\ tickets'[s].status = "OWNED" <=> tickets'[s].ownerId # NULL
      BY DEF SeatsNameLiveClaims
    <2>1. CASE s \in seatHolds[h].ticketIds
      <3>1. tickets[s].ownerId = NULL
        BY <1>9, <2>1 DEF IInv, SeatsNameLiveClaims
      <3>2. QED
        BY <1>4, <1>6, <2>1, <3>1
    <2>2. CASE s \notin seatHolds[h].ticketIds
      <3>1. tickets'[s] = tickets[s]
        BY <1>6, <2>2
      <3>2. \A g \in HoldId : s \in seatHolds[g].ticketIds => seatHolds'[g] = seatHolds[g]
        BY <1>3, <2>2
      <3>3. \A e \in DraftId : reservationDrafts[e].status = "PENDING_PAYMENT"
                               => reservationDrafts'[e] = reservationDrafts[e]
        BY <1>4
      <3>4. QED
        BY <3>1, <3>2, <3>3 DEF IInv, SeatsNameLiveClaims
    <2>3. QED
      BY <2>1, <2>2
  <1>12. RecordsHaveOrigins'
    BY <1>2, <1>3, <1>4 DEF IInv, RecordsHaveOrigins
  <1>13. HoldTimeBounded'
    BY <1>2, <1>3 DEF IInv, HoldTimeBounded
  <1>14. ClaimTimeBounded'
    <2>1. until < seatHolds[h].createdAt + LongestClaim
      <3> DEFINE used == seatHolds[h].extensionsUsed * HOLD_EXTENSION
                 most == HOLD_MAX_EXTENSIONS * HOLD_EXTENSION
      <3>1. used \in Nat /\ most \in Nat /\ used <= most
        <4>1. seatHolds[h].extensionsUsed \in Nat
                /\ seatHolds[h].extensionsUsed <= HOLD_MAX_EXTENSIONS
          BY <1>1 DEF Hold
        <4>2. QED
          BY <4>1
      <3>2. seatHolds[h].expiresAt <= seatHolds[h].createdAt + HOLD_TTL + used
        BY <1>2 DEF IInv, HoldTimeBounded
      <3>3. LongestClaim = HOLD_TTL + most + DRAFT_TTL
        BY DEF LongestClaim
      <3> HIDE DEF used, most
      <3>4. QED
        BY <1>1, <1>2, <3>1, <3>2, <3>3 DEF Hold, until
    <2>2. QED
      BY <1>3, <1>4, <2>1 DEF IInv, ClaimTimeBounded, RecordsHaveOrigins
  <1>15. ConvertedClaimsArePaidFor'
    <2>1. \A s \in Seat : tickets'[s].ownerId = tickets[s].ownerId
      BY <1>6
    <2>2. \A e \in DraftId : reservationDrafts'[e].status = "CONFIRMED"
                             => reservationDrafts'[e] = reservationDrafts[e]
      BY <1>4
    <2>3. \A e \in DraftId : reservationDrafts[e].holdId \in HoldId
                             => reservationDrafts'[e] = reservationDrafts[e]
      BY <1>4 DEF IInv, RecordsHaveOrigins
    <2>4. \A g \in HoldId \ {h} : seatHolds'[g] = seatHolds[g]
      BY <1>3
    <2>5. /\ reservationDrafts'[d].holdId = h
          /\ reservationDrafts'[d].userId = seatHolds'[h].userId
          /\ reservationDrafts'[d].ticketIds = seatHolds'[h].ticketIds
      BY <1>2, <1>3, <1>4
    <2>6. QED
      BY <1>1, <2>1, <2>2, <2>3, <2>4, <2>5 DEF IInv, ConvertedClaimsArePaidFor, Hold, Draft
  <1>16. QED
    BY <1>8, <1>10, <1>11, <1>12, <1>13, <1>14, <1>15 DEF IInv

(* Ending a pending draft frees exactly the seats reserved by it. *)
LEMMA EndDraftStep ==
  ASSUME IInv, NEW d \in DraftId, reservationDrafts[d].status = "PENDING_PAYMENT",
         NEW status \in {"EXPIRED", "CANCELLED"}, EndDraft(d, status)
  PROVE  IInv'
  <1> USE ConstantTypes
  <1>1. /\ \A s \in Seat : tickets[s] \in Ticket
        /\ \A g \in HoldId : seatHolds[g] \in Hold
        /\ \A e \in DraftId : reservationDrafts[e] \in Draft
        /\ UNCHANGED <<now, bookable, seatHolds>>
    BY DEF IInv, TypeOK, EndDraft
  <1>2. /\ reservationDrafts'[d].status = status
        /\ reservationDrafts'[d].userId = reservationDrafts[d].userId
        /\ reservationDrafts'[d].holdId = reservationDrafts[d].holdId
        /\ reservationDrafts'[d].ticketIds = reservationDrafts[d].ticketIds
        /\ reservationDrafts'[d].expiresAt = reservationDrafts[d].expiresAt
        /\ \A e \in DraftId \ {d} : reservationDrafts'[e] = reservationDrafts[e]
    BY DEF IInv, TypeOK, EndDraft, Draft
  <1>3. \A s \in Seat : tickets[s].status = "RESERVED" /\ tickets[s].reservationId = d
                        => s \in reservationDrafts[d].ticketIds
    BY DEF IInv, SeatsNameLiveClaims
  <1>4. \A s \in Seat :
          IF tickets[s].status = "RESERVED" /\ tickets[s].reservationId = d
          THEN /\ tickets'[s].status = "ON_SALE" /\ tickets'[s].reservationId = NULL
               /\ tickets'[s].heldBy = tickets[s].heldBy
               /\ tickets'[s].ownerId = tickets[s].ownerId
          ELSE tickets'[s] = tickets[s]
    BY <1>1, <1>3 DEF EndDraft, Ticket
  <1>5. TypeOK'
    <2>1. tickets' \in [Seat -> Ticket]
      <3>1. ASSUME NEW s \in Seat
            PROVE  [tickets[s] EXCEPT !.status = "ON_SALE", !.reservationId = NULL,
                                      !.reservationExpiresAt = 0] \in Ticket
        BY <1>1 DEF Ticket, TicketStatus
      <3>2. QED
        BY <1>1, <3>1 DEF EndDraft
    <2>2. reservationDrafts' \in [DraftId -> Draft]
      <3>1. [reservationDrafts[d] EXCEPT !.status = status] \in Draft
        BY <1>1 DEF Draft, DraftStatus
      <3>2. QED
        BY <3>1 DEF EndDraft, IInv, TypeOK
    <2>3. QED
      BY <1>1, <2>1, <2>2 DEF IInv, TypeOK
  <1>6. ClaimsKeepTheirSeats'
    <2>1. ASSUME NEW g \in HoldId, seatHolds[g].status = "ACTIVE", NEW s \in seatHolds[g].ticketIds
          PROVE  tickets'[s] = tickets[s]
      <3>1. s \in Seat /\ tickets[s].status = "HELD"
        BY <1>1, <2>1 DEF IInv, ClaimsKeepTheirSeats, Hold
      <3>2. QED
        BY <1>4, <3>1
    <2>2. ASSUME NEW e \in DraftId, reservationDrafts'[e].status = "PENDING_PAYMENT",
                 NEW s \in reservationDrafts'[e].ticketIds
          PROVE  /\ tickets'[s].status = "RESERVED" /\ tickets'[s].reservationId = e
                 /\ tickets'[s].reservationExpiresAt = reservationDrafts'[e].expiresAt
      <3>1. e # d /\ reservationDrafts'[e] = reservationDrafts[e]
        BY <1>2, <2>2
      <3>2. /\ s \in Seat /\ tickets[s].status = "RESERVED" /\ tickets[s].reservationId = e
            /\ tickets[s].reservationExpiresAt = reservationDrafts[e].expiresAt
        BY <1>1, <2>2, <3>1 DEF IInv, ClaimsKeepTheirSeats, Draft
      <3>3. QED
        BY <1>4, <3>1, <3>2
    <2>3. QED
      BY <1>1, <2>1, <2>2 DEF IInv, ClaimsKeepTheirSeats
  <1>7. SeatsNameLiveClaims'
    <2> SUFFICES ASSUME NEW s \in Seat
                 PROVE  /\ IF tickets'[s].status = "HELD"
                           THEN \E g \in HoldId : /\ tickets'[s].heldBy = g
                                                  /\ seatHolds[g].status = "ACTIVE"
                                                  /\ s \in seatHolds[g].ticketIds
                           ELSE tickets'[s].heldBy = NULL
                        /\ IF tickets'[s].status = "RESERVED"
                           THEN \E e \in DraftId : /\ tickets'[s].reservationId = e
                                                   /\ reservationDrafts'[e].status = "PENDING_PAYMENT"
                                                   /\ s \in reservationDrafts'[e].ticketIds
                           ELSE tickets'[s].reservationId = NULL
                        /\ tickets'[s].status = "OWNED" <=> tickets'[s].ownerId # NULL
      BY <1>1 DEF SeatsNameLiveClaims
    <2>1. CASE tickets[s].status = "RESERVED" /\ tickets[s].reservationId = d
      BY <1>4, <2>1 DEF IInv, SeatsNameLiveClaims
    <2>2. CASE ~(tickets[s].status = "RESERVED" /\ tickets[s].reservationId = d)
      BY <1>2, <1>4, <2>2 DEF IInv, SeatsNameLiveClaims
    <2>3. QED
      BY <2>1, <2>2
  <1>8. RecordsHaveOrigins'
    BY <1>1, <1>2 DEF IInv, RecordsHaveOrigins
  <1>9. HoldTimeBounded'
    BY <1>1 DEF IInv, HoldTimeBounded
  <1>10. ClaimTimeBounded'
    BY <1>1, <1>2 DEF IInv, ClaimTimeBounded
  <1>11. ConvertedClaimsArePaidFor'
    <2>1. \A s \in Seat : tickets'[s].ownerId = tickets[s].ownerId
      BY <1>4
    <2>2. \A e \in DraftId : reservationDrafts'[e].status = "CONFIRMED"
                             => reservationDrafts'[e] = reservationDrafts[e]
      BY <1>2
    <2>3. \A e \in DraftId : /\ reservationDrafts'[e].holdId = reservationDrafts[e].holdId
                             /\ reservationDrafts'[e].userId = reservationDrafts[e].userId
                             /\ reservationDrafts'[e].ticketIds = reservationDrafts[e].ticketIds
      BY <1>2
    <2>4. QED
      BY <1>1, <2>1, <2>2, <2>3 DEF IInv, ConvertedClaimsArePaidFor, Hold, Draft
  <1>12. QED
    BY <1>5, <1>6, <1>7, <1>8, <1>9, <1>10, <1>11 DEF IInv

-----------------------------------------------------------------------------
(* Sales *)

(* What all three ways to sell seats have in common: S goes to u, together *)
(* with the live holds H and drafts D of u that claim nothing else.        *)
SellClaimed(u, S, H, D) ==
  /\ H \in SUBSET HoldId /\ D \in SUBSET DraftId
  /\ \A h \in H : /\ seatHolds[h].status = "ACTIVE" /\ seatHolds[h].userId = u
                  /\ seatHolds[h].ticketIds \subseteq S
  /\ \A d \in D : /\ reservationDrafts[d].status = "PENDING_PAYMENT"
                  /\ reservationDrafts[d].userId = u
                  /\ reservationDrafts[d].ticketIds \subseteq S
  /\ \A s \in S : \/ tickets[s].status = "ON_SALE"
                  \/ tickets[s].status = "HELD" /\ tickets[s].heldBy \in H
                  \/ tickets[s].status = "RESERVED" /\ tickets[s].reservationId \in D
  /\ seatHolds' = EndHolds(H, "CONVERTED")
  /\ reservationDrafts' =
       [d \in DraftId |-> IF d \in D THEN [reservationDrafts[d] EXCEPT !.status = "CONFIRMED"]
                                     ELSE reservationDrafts[d]]
  /\ Sell(S, u)
  /\ UNCHANGED <<now, bookable>>

LEMMA SellStep ==
  ASSUME IInv, NEW u \in User, NEW S \in SUBSET Seat, NEW H, NEW D, SellClaimed(u, S, H, D)
  PROVE  IInv'
  <1> USE ConstantTypes
  <1>1. /\ \A s \in Seat : tickets[s] \in Ticket
        /\ \A g \in HoldId : seatHolds[g] \in Hold
        /\ \A e \in DraftId : reservationDrafts[e] \in Draft
        /\ UNCHANGED <<now, bookable>>
    BY DEF IInv, TypeOK, SellClaimed
  <1>2. /\ \A h \in H : /\ h \in HoldId /\ seatHolds[h].status = "ACTIVE"
                        /\ seatHolds[h].userId = u /\ seatHolds[h].ticketIds \subseteq S
        /\ \A d \in D : /\ d \in DraftId /\ reservationDrafts[d].status = "PENDING_PAYMENT"
                        /\ reservationDrafts[d].userId = u
                        /\ reservationDrafts[d].ticketIds \subseteq S
        /\ \A s \in S : \/ tickets[s].status = "ON_SALE"
                        \/ tickets[s].status = "HELD" /\ tickets[s].heldBy \in H
                        \/ tickets[s].status = "RESERVED" /\ tickets[s].reservationId \in D
    BY DEF SellClaimed
  <1>3. /\ seatHolds' \in [HoldId -> Hold]
        /\ \A h \in HoldId :
             IF h \in H
             THEN /\ seatHolds'[h].status = "CONVERTED"
                  /\ seatHolds'[h].userId = seatHolds[h].userId
                  /\ seatHolds'[h].ticketIds = seatHolds[h].ticketIds
                  /\ seatHolds'[h].createdAt = seatHolds[h].createdAt
                  /\ seatHolds'[h].expiresAt = seatHolds[h].expiresAt
                  /\ seatHolds'[h].extensionsUsed = seatHolds[h].extensionsUsed
             ELSE seatHolds'[h] = seatHolds[h]
    <2>1. TypeOK /\ "CONVERTED" \in HoldStatus /\ seatHolds' = EndHolds(H, "CONVERTED")
      BY DEF IInv, HoldStatus, SellClaimed
    <2>2. QED
      BY <2>1, EndedType
  <1>4. \A d \in DraftId :
          IF d \in D
          THEN /\ reservationDrafts'[d].status = "CONFIRMED"
               /\ reservationDrafts'[d].userId = reservationDrafts[d].userId
               /\ reservationDrafts'[d].holdId = reservationDrafts[d].holdId
               /\ reservationDrafts'[d].ticketIds = reservationDrafts[d].ticketIds
               /\ reservationDrafts'[d].expiresAt = reservationDrafts[d].expiresAt
          ELSE reservationDrafts'[d] = reservationDrafts[d]
    BY <1>1 DEF SellClaimed, Draft
  <1>5. reservationDrafts' \in [DraftId -> Draft]
    <2>1. \A d \in DraftId : [reservationDrafts[d] EXCEPT !.status = "CONFIRMED"] \in Draft
      BY <1>1 DEF Draft, DraftStatus
    <2>2. QED
      BY <1>1, <2>1 DEF SellClaimed
  <1>6. \A s \in Seat :
          IF s \in S
          THEN /\ tickets'[s].status = "OWNED" /\ tickets'[s].ownerId = u
               /\ tickets'[s].heldBy = NULL /\ tickets'[s].reservationId = NULL
          ELSE tickets'[s] = tickets[s]
    BY DEF SellClaimed, Sell, OnSale
  <1>7. tickets' \in [Seat -> Ticket]
    <2>1. [OnSale EXCEPT !.status = "OWNED", !.ownerId = u] \in Ticket
      BY DEF OnSale, Ticket, TicketStatus
    <2>2. QED
      BY <1>1, <2>1 DEF SellClaimed, Sell
  <1>8. TypeOK'
    BY <1>1, <1>3, <1>5, <1>7 DEF IInv, TypeOK
  <1>9. ClaimsKeepTheirSeats'
    <2>1. ASSUME NEW g \in HoldId, seatHolds'[g].status = "ACTIVE",
                 NEW s \in seatHolds'[g].ticketIds
          PROVE  /\ tickets'[s].status = "HELD" /\ tickets'[s].heldBy = g
                 /\ tickets'[s].holdExpiresAt = seatHolds'[g].expiresAt
      <3>1. g \notin H /\ seatHolds'[g] = seatHolds[g]
        BY <1>3, <2>1
      <3>2. /\ s \in Seat /\ tickets[s].heldBy = g /\ tickets[s].status = "HELD"
            /\ tickets[s].holdExpiresAt = seatHolds[g].expiresAt
        BY <1>1, <2>1, <3>1 DEF IInv, ClaimsKeepTheirSeats, Hold
      <3>3. s \notin S
        BY <1>2, <3>1, <3>2
      <3>4. QED
        BY <1>6, <3>1, <3>2, <3>3
    <2>2. ASSUME NEW e \in DraftId, reservationDrafts'[e].status = "PENDING_PAYMENT",
                 NEW s \in reservationDrafts'[e].ticketIds
          PROVE  /\ tickets'[s].status = "RESERVED" /\ tickets'[s].reservationId = e
                 /\ tickets'[s].reservationExpiresAt = reservationDrafts'[e].expiresAt
      <3>1. e \notin D /\ reservationDrafts'[e] = reservationDrafts[e]
        BY <1>4, <2>2
      <3>2. /\ s \in Seat /\ tickets[s].status = "RESERVED" /\ tickets[s].reservationId = e
            /\ tickets[s].reservationExpiresAt = reservationDrafts[e].expiresAt
        BY <1>1, <2>2, <3>1 DEF IInv, ClaimsKeepTheirSeats, Draft
      <3>3. s \notin S
        BY <1>2, <3>1, <3>2
      <3>4. QED
        BY <1>6, <3>1, <3>2, <3>3
    <2>3. QED
      BY <2>1, <2>2 DEF ClaimsKeepTheirSeats
  <1>10. SeatsNameLiveClaims'
    <2> SUFFICES ASSUME NEW s \in Seat
                 PROVE  /\ IF tickets'[s].status = "HELD"
                           THEN \E g \in HoldId : /\ tickets'[s].heldBy = g
                                                  /\ seatHolds'[g].status = "ACTIVE"
                                                  /\ s \in seatHolds'[g].ticketIds
                           ELSE tickets'[s].heldBy = NULL
                        /\ IF tickets'[s].status = "RESERVED"
                           THEN \E e \in DraftId : /\ tickets'[s].reservationId = e
                                                   /\ reservationDrafts'[e].status = "PENDING_PAYMENT"
                                                   /\ s \in reservationDrafts'[e].ticketIds
                           ELSE tickets'[s].reservationId = NULL
                        /\ tickets'[s].status = "OWNED" <=> tickets'[s].ownerId # NULL
      BY DEF SeatsNameLiveClaims
    <2>1. CASE s \in S
      BY <1>6, <2>1
    <2>2. CASE s \notin S
      <3>1. tickets'[s] = tickets[s]
        BY <1>6, <2>2
      <3>2. \A g \in HoldId : s \in seatHolds[g].ticketIds => seatHolds'[g] = seatHolds[g]
        BY <1>2, <1>3, <2>2
      <3>3. \A e \in DraftId : s \in reservationDrafts[e].ticketIds
                               => reservationDrafts'[e] = reservationDrafts[e]
        BY <1>2, <1>4, <2>2
      <3>4. QED
        BY <3>1, <3>2, <3>3 DEF IInv, SeatsNameLiveClaims
    <2>3. QED
      BY <2>1, <2>2
  <1>11. RecordsHaveOrigins'
    BY <1>2, <1>3, <1>4 DEF IInv, RecordsHaveOrigins
  <1>12. HoldTimeBounded'
    BY <1>2, <1>3 DEF IInv, HoldTimeBounded
  <1>13. ClaimTimeBounded'
    BY <1>2, <1>3, <1>4 DEF IInv, ClaimTimeBounded, RecordsHaveOrigins
  <1>14. ConvertedClaimsArePaidFor'
    <2>1. \A s \in Seat : tickets[s].ownerId \in User => tickets'[s].ownerId = tickets[s].ownerId
      <3>1. \A s \in Seat : tickets[s].ownerId \in User => s \notin S
        BY <1>2 DEF IInv, SeatsNameLiveClaims
      <3>2. QED
        BY <1>6, <3>1
    <2>2. ASSUME NEW d \in DraftId, reservationDrafts'[d].status = "CONFIRMED",
                 NEW s \in reservationDrafts'[d].ticketIds
          PROVE  tickets'[s].ownerId = reservationDrafts'[d].userId
      <3>1. CASE d \in D
        BY <1>2, <1>4, <1>6, <2>2, <3>1
      <3>2. CASE d \notin D
        <4>1. /\ reservationDrafts'[d] = reservationDrafts[d] /\ s \in Seat
              /\ tickets[s].ownerId = reservationDrafts[d].userId
              /\ reservationDrafts[d].userId \in User
          BY <1>1, <1>4, <2>2, <3>2 DEF IInv, ConvertedClaimsArePaidFor, RecordsHaveOrigins, Draft
        <4>2. QED
          BY <2>1, <4>1
      <3>3. QED
        BY <3>1, <3>2
    <2>3. ASSUME NEW h \in HoldId, seatHolds'[h].status = "CONVERTED"
          PROVE  \/ \E d \in DraftId : /\ reservationDrafts'[d].holdId = h
                                       /\ reservationDrafts'[d].userId = seatHolds'[h].userId
                                       /\ reservationDrafts'[d].ticketIds = seatHolds'[h].ticketIds
                 \/ \A s \in seatHolds'[h].ticketIds : tickets'[s].ownerId = seatHolds'[h].userId
      <3>1. CASE h \in H
        BY <1>2, <1>3, <1>6, <2>3, <3>1
      <3>2. CASE h \notin H
        <4>1. seatHolds'[h] = seatHolds[h] /\ seatHolds[h].userId \in User
          BY <1>3, <2>3, <3>2 DEF IInv, RecordsHaveOrigins
        <4>2. CASE \A s \in seatHolds[h].ticketIds : tickets[s].ownerId = seatHolds[h].userId
          <5>1. seatHolds[h].ticketIds \subseteq Seat
            BY <1>1 DEF Hold
          <5>2. QED
            BY <2>1, <4>1, <4>2, <5>1
        <4>3. CASE \E d \in DraftId : /\ reservationDrafts[d].holdId = h
                                      /\ reservationDrafts[d].userId = seatHolds[h].userId
                                      /\ reservationDrafts[d].ticketIds = seatHolds[h].ticketIds
          BY <1>4, <4>1, <4>3
        <4>4. QED
          BY <2>3, <4>1, <4>2, <4>3 DEF IInv, ConvertedClaimsArePaidFor
      <3>3. QED
        BY <3>1, <3>2
    <2>4. QED
      BY <2>2, <2>3 DEF ConvertedClaimsArePaidFor
  <1>15. QED
    BY <1>8, <1>9, <1>10, <1>11, <1>12, <1>13, <1>14 DEF IInv

-----------------------------------------------------------------------------
(* The handlers *)

LEMMA GetHoldStep ==
  ASSUME IInv, NEW u \in User, NEW h \in HoldId, getSeatHold(u, h)
  PROVE  IInv'
  <1>1. /\ seatHolds[h].status = "ACTIVE"
        /\ tickets' = releaseHeldTickets({h}) /\ seatHolds' = EndHolds({h}, "EXPIRED")
        /\ UNCHANGED <<now, bookable, reservationDrafts>>
    BY DEF getSeatHold, ReconcileHold, DueHold
  <1>2. QED
    BY <1>1, EndHoldsStep

LEMMA ReleaseStep ==
  ASSUME IInv, NEW u \in User, NEW h \in HoldId, releaseSeatHold(u, h)
  PROVE  IInv'
  <1>1. CASE getSeatHold(u, h)
    BY <1>1, GetHoldStep
  <1>2. CASE ~getSeatHold(u, h)
    <2>1. /\ seatHolds[h].status = "ACTIVE"
          /\ tickets' = releaseHeldTickets({h}) /\ seatHolds' = EndHolds({h}, "RELEASED")
          /\ UNCHANGED <<now, bookable, reservationDrafts>>
      BY <1>2 DEF releaseSeatHold, OwnActiveHold
    <2>2. QED
      BY <2>1, EndHoldsStep
  <1>3. QED
    BY <1>1, <1>2

LEMMA HoldStepPreserves ==
  ASSUME IInv, NEW u \in User, HoldStep(u)
  PROVE  IInv'
  <1>1. CASE \E S \in SUBSET Seat : createSeatHold(u, S)
    BY <1>1, CreateStep
  <1>2. CASE \E h \in HoldId : getSeatHold(u, h)
    BY <1>2, GetHoldStep
  <1>3. CASE \E h \in HoldId : extendSeatHold(u, h)
    BY <1>3, GetHoldStep, ExtendStep DEF extendSeatHold
  <1>4. CASE \E h \in HoldId : releaseSeatHold(u, h)
    BY <1>4, ReleaseStep
  <1>5. QED
    BY <1>1, <1>2, <1>3, <1>4 DEF HoldStep

LEMMA DraftStepsPreserve ==
  ASSUME IInv, NEW u \in User, DraftStep(u)
  PROVE  IInv'
  <1>1. CASE \E h \in HoldId : createReservationDraft(u, h)
    BY <1>1, GetHoldStep, MakeDraftStep DEF createReservationDraft
  <1>2. ASSUME NEW d \in DraftId, getReservationDraft(u, d)
        PROVE  IInv'
    <2>1. reservationDrafts[d].status = "PENDING_PAYMENT" /\ EndDraft(d, "EXPIRED")
      BY <1>2 DEF getReservationDraft, DueDraft
    <2>2. QED
      BY <2>1, EndDraftStep
  <1>3. ASSUME NEW d \in DraftId, cancelReservationDraft(u, d), ~getReservationDraft(u, d)
        PROVE  IInv'
    <2>1. reservationDrafts[d].status = "PENDING_PAYMENT" /\ EndDraft(d, "CANCELLED")
      BY <1>3 DEF cancelReservationDraft
    <2>2. QED
      BY <2>1, EndDraftStep
  <1>4. QED
    BY <1>1, <1>2, <1>3 DEF DraftStep

(* Each purchase is an instance of SellClaimed. *)
LEMMA BuyIsSale ==
  ASSUME NEW u \in User, NEW s \in Seat, buyPrimary(u, s)
  PROVE  SellClaimed(u, {s}, PayableHolds(u, s), PayableDrafts(u, s))
  BY DEF buyPrimary, SellClaimed, PayableHolds, PayableDrafts, OwnActiveHold

LEMMA OpenSeatsAreSold ==
  ASSUME IInv, NEW u \in User, NEW S \in SUBSET Seat,
         buyPrimaryGroup(u, S) \/ approveGroupBookingRequest(u, S)
  PROVE  SellClaimed(u, S, {}, {})
  <1>1. /\ \A s \in S : tickets[s].status = "ON_SALE"
        /\ Sell(S, u) /\ UNCHANGED <<now, bookable, seatHolds, reservationDrafts>>
    BY DEF buyPrimaryGroup, approveGroupBookingRequest
  <1>2. seatHolds = EndHolds({}, "CONVERTED")
    BY DEF IInv, TypeOK, EndHolds
  <1>3. reservationDrafts = [d \in DraftId |-> reservationDrafts[d]]
    BY DEF IInv, TypeOK
  <1>4. QED
    BY <1>1, <1>2, <1>3 DEF SellClaimed

LEMMA PurchaseStepPreserves ==
  ASSUME IInv, NEW u \in User, PurchaseStep(u)
  PROVE  IInv'
  <1>1. ASSUME NEW s \in Seat, buyPrimary(u, s)
        PROVE  IInv'
    BY <1>1, BuyIsSale, SellStep
  <1>2. ASSUME NEW S \in SUBSET Seat, buyPrimaryGroup(u, S) \/ approveGroupBookingRequest(u, S)
        PROVE  IInv'
    BY <1>2, OpenSeatsAreSold, SellStep
  <1>3. QED
    BY <1>1, <1>2 DEF PurchaseStep

(* The operator touches only seats that nobody has. *)
LEMMA StatusesPreserve ==
  ASSUME IInv, NEW B \in SUBSET Seat, NEW U \in SUBSET Seat, updateTicketStatuses(B, U)
  PROVE  IInv'
  <1> USE ConstantTypes
  <1>1. /\ \A s \in Seat : tickets[s] \in Ticket
        /\ \A h \in HoldId : seatHolds[h] \in Hold
        /\ \A d \in DraftId : reservationDrafts[d] \in Draft
        /\ UNCHANGED <<now, bookable, seatHolds, reservationDrafts>>
    BY DEF IInv, TypeOK, updateTicketStatuses
  <1>2. \A s \in B \union U : /\ tickets[s].ownerId = NULL
                              /\ tickets[s].status \in {"ON_SALE", "ADMIN_HOLD"}
    BY DEF updateTicketStatuses
  <1>3. \A s \in Seat :
          /\ IF s \in B \union U THEN tickets'[s].status \in {"ON_SALE", "ADMIN_HOLD"}
                                 ELSE tickets'[s] = tickets[s]
          /\ tickets'[s].ownerId = tickets[s].ownerId
          /\ tickets'[s].heldBy = tickets[s].heldBy
          /\ tickets'[s].reservationId = tickets[s].reservationId
    BY <1>1 DEF updateTicketStatuses, Ticket
  <1>4. tickets' \in [Seat -> Ticket]
    <2>1. \A s \in Seat, v \in {"ON_SALE", "ADMIN_HOLD"} :
            [tickets[s] EXCEPT !.status = v] \in Ticket
      BY <1>1 DEF Ticket, TicketStatus
    <2>2. QED
      BY <1>1, <2>1 DEF updateTicketStatuses
  <1>5. TypeOK'
    BY <1>1, <1>4 DEF IInv, TypeOK
  <1>6. ClaimsKeepTheirSeats'
    <2>1. \A s \in Seat : tickets[s].status \in {"HELD", "RESERVED"} => tickets'[s] = tickets[s]
      BY <1>2, <1>3
    <2>2. QED
      BY <1>1, <2>1 DEF IInv, ClaimsKeepTheirSeats, Hold, Draft
  <1>7. SeatsNameLiveClaims'
    BY <1>1, <1>2, <1>3 DEF IInv, SeatsNameLiveClaims
  <1>8. ConvertedClaimsArePaidFor'
    BY <1>1, <1>3 DEF IInv, ConvertedClaimsArePaidFor, Hold, Draft
  <1>9. QED
    BY <1>1, <1>5, <1>6, <1>7, <1>8
       DEF IInv, RecordsHaveOrigins, HoldTimeBounded, ClaimTimeBounded

(* The clock, the sale switch and a request that changes nothing. *)
LEMMA OtherStepsPreserve ==
  ASSUME IInv, UNCHANGED <<tickets, seatHolds, reservationDrafts>>,
         now' \in Nat, bookable' \in BOOLEAN
  PROVE  IInv'
  BY DEF IInv, TypeOK, ClaimsKeepTheirSeats, SeatsNameLiveClaims, RecordsHaveOrigins,
     HoldTimeBounded, ClaimTimeBounded, ConvertedClaimsArePaidFor

LEMMA NextIInv == IInv /\ [Next]_vars => IInv'
  <1> SUFFICES ASSUME IInv, [Next]_vars PROVE IInv'
    OBVIOUS
  <1>1. now \in Nat /\ bookable \in BOOLEAN
    BY DEF IInv, TypeOK
  <1>2. CASE Tick
    BY <1>1, <1>2, OtherStepsPreserve DEF Tick
  <1>3. ASSUME NEW u \in User, HoldStep(u) PROVE IInv'
    BY <1>3, HoldStepPreserves
  <1>4. ASSUME NEW u \in User, DraftStep(u) PROVE IInv'
    BY <1>4, DraftStepsPreserve
  <1>5. ASSUME NEW u \in User, PurchaseStep(u) PROVE IInv'
    BY <1>5, PurchaseStepPreserves
  <1>6. ASSUME NEW B \in SUBSET Seat, NEW U \in SUBSET Seat, updateTicketStatuses(B, U)
        PROVE  IInv'
    BY <1>6, StatusesPreserve
  <1>7. ASSUME NEW state \in BOOLEAN, updateEventSale(state) PROVE IInv'
    BY <1>1, <1>7, OtherStepsPreserve DEF updateEventSale
  <1>8. CASE UNCHANGED vars
    BY <1>1, <1>8, OtherStepsPreserve DEF vars
  <1>9. QED
    BY <1>2, <1>3, <1>4, <1>5, <1>6, <1>7, <1>8 DEF Next, OperatorStep

-----------------------------------------------------------------------------
(* What holds in every reachable state *)

(* The inductive invariant, from which the theorems below follow. *)
THEOREM SpecIInv == Spec => []IInv
  BY InitIInv, NextIInv, PTL DEF Spec

(* Every record keeps its shape whatever handlers run, and no hold is      *)
(* extended more often than HOLD_MAX_EXTENSIONS.                           *)
THEOREM TypeCorrect == Spec => []TypeOK
  <1>1. IInv => TypeOK
    BY DEF IInv
  <1>2. QED
    BY <1>1, SpecIInv, PTL

(* Live holds and drafts keep every seat they list (booking-holds.js       *)
(* against commerce.js, group-booking.js and admin.js).                    *)
THEOREM ClaimsKept == Spec => []ClaimsKeepTheirSeats
  <1>1. IInv => ClaimsKeepTheirSeats
    BY DEF IInv
  <1>2. QED
    BY <1>1, SpecIInv, PTL

(* A seat kept from sale is kept by a live record that lists it, so that   *)
(* ending the record gives it back.                                        *)
THEOREM SeatsNotStranded == Spec => []SeatsNameLiveClaims
  <1>1. IInv => SeatsNameLiveClaims
    BY DEF IInv
  <1>2. QED
    BY <1>1, SpecIInv, PTL

(* Hold, extensions and draft together are payable for less than           *)
(* LongestClaim, in whatever order and however often they are called.      *)
THEOREM ClaimsBounded == Spec => []ClaimTimeBounded
  <1>1. IInv => ClaimTimeBounded
    BY DEF IInv
  <1>2. QED
    BY <1>1, SpecIInv, PTL

(* A confirmed draft's seats, and those of a hold bought directly, belong  *)
(* to its user for good.                                                   *)
THEOREM PaidForIsGot == Spec => []ConvertedClaimsArePaidFor
  <1>1. IInv => ConvertedClaimsArePaidFor
    BY DEF IInv
  <1>2. QED
    BY <1>1, SpecIInv, PTL
-----------------------------------------------------------------------------
(* The seat book *)

(* What the book says of a seat, by the status of its ticket. *)
EntryFits(s) ==
  /\ tickets[s].status \in TicketStatus
  /\ tickets[s].status = "ON_SALE" => BookEntry(s) = Book!Open
  /\ tickets[s].status = "ADMIN_HOLD" => BookEntry(s) = Book!Blocked
  /\ tickets[s].status = "OWNED" => BookEntry(s) = Book!Sold(tickets[s].ownerId)
  /\ tickets[s].status = "HELD" =>
       LET h == tickets[s].heldBy
       IN /\ h \in HoldId /\ seatHolds[h].status = "ACTIVE" /\ s \in seatHolds[h].ticketIds
          /\ BookEntry(s) = Book!Entry("claimed", seatHolds[h].userId, seatHolds[h].expiresAt)
  /\ tickets[s].status = "RESERVED" =>
       LET d == tickets[s].reservationId
       IN /\ d \in DraftId /\ reservationDrafts[d].status = "PENDING_PAYMENT"
          /\ s \in reservationDrafts[d].ticketIds
          /\ BookEntry(s) = Book!Entry("claimed", reservationDrafts[d].userId,
                                       reservationDrafts[d].expiresAt)
EntriesFit == \A s \in Seat : EntryFits(s)

LEMMA IInvFits == IInv => EntriesFit
  <1> SUFFICES ASSUME IInv, NEW s \in Seat PROVE EntryFits(s)
    BY DEF EntriesFit
  <1>1. /\ tickets[s] \in Ticket
        /\ \A h \in HoldId : seatHolds[h] \in Hold
        /\ \A d \in DraftId : reservationDrafts[d] \in Draft
    BY DEF IInv, TypeOK
  <1>2. tickets[s].status \in TicketStatus
    BY <1>1 DEF Ticket
  <1>3. CASE tickets[s].status \in {"ON_SALE", "ADMIN_HOLD", "OWNED"}
    <2>1. tickets[s].status # "OWNED" => tickets[s].ownerId = NULL
      BY DEF IInv, SeatsNameLiveClaims
    <2>2. QED
      BY <1>2, <1>3, <2>1
         DEF EntryFits, BookEntry, BookState, Book!Open, Book!Blocked, Book!Sold, Book!Entry
  <1>4. CASE tickets[s].status = "HELD"
    <2>1. PICK h \in HoldId : /\ tickets[s].heldBy = h /\ seatHolds[h].status = "ACTIVE"
                              /\ s \in seatHolds[h].ticketIds
      BY <1>4 DEF IInv, SeatsNameLiveClaims
    <2>2. tickets[s].holdExpiresAt = seatHolds[h].expiresAt
      BY <2>1 DEF IInv, ClaimsKeepTheirSeats
    <2>3. QED
      BY <1>2, <1>4, <2>1, <2>2 DEF EntryFits, BookEntry, BookState, Book!Entry
  <1>5. CASE tickets[s].status = "RESERVED"
    <2>1. PICK d \in DraftId : /\ tickets[s].reservationId = d
                               /\ reservationDrafts[d].status = "PENDING_PAYMENT"
                               /\ s \in reservationDrafts[d].ticketIds
      BY <1>5 DEF IInv, SeatsNameLiveClaims
    <2>2. tickets[s].reservationExpiresAt = reservationDrafts[d].expiresAt
      BY <2>1 DEF IInv, ClaimsKeepTheirSeats
    <2>3. QED
      BY <1>2, <1>5, <2>1, <2>2 DEF EntryFits, BookEntry, BookState, Book!Entry
  <1>6. QED
    BY <1>2, <1>3, <1>4, <1>5 DEF TicketStatus

LEMMA NextFits == IInv' => EntriesFit'
  BY IInvFits, PTL

(* A seat whose ticket is untouched keeps its entry: a record that keeps a *)
(* seat keeps its user.                                                    *)
LEMMA SameEntry ==
  ASSUME IInv, NEW s \in Seat, tickets'[s] = tickets[s],
         \A h \in HoldId : seatHolds[h].status = "ACTIVE"
                             => seatHolds'[h].userId = seatHolds[h].userId,
         \A d \in DraftId : reservationDrafts[d].status = "PENDING_PAYMENT"
                              => reservationDrafts'[d].userId = reservationDrafts[d].userId
  PROVE  BookEntry(s)' = BookEntry(s)
  <1>1. EntryFits(s)
    BY IInvFits DEF EntriesFit
  <1>2. QED
    BY <1>1 DEF EntryFits, BookEntry

(* How a step of the book is told from the entries of single seats. *)
LEMMA BookWritten ==
  ASSUME NEW S \in SUBSET Seat, NEW e, NEW L \in SUBSET Seat, now' = now,
         \A s \in S : BookEntry(s)' = e,
         \A s \in L \ S : BookEntry(s)' = Book!Open,
         \A s \in Seat \ (S \union L) : BookEntry(s)' = BookEntry(s)
  PROVE  Book!Write(S, e, L)
  BY DEF Book!Write

LEMMA NothingWritten ==
  ASSUME NEW e, Book!Write({}, e, {})
  PROVE  Book!Next
  <1>1. Book!Write({}, Book!Open, {})
    BY DEF Book!Write
  <1>2. Book!Clear
    BY <1>1 DEF Book!Clear
  <1>3. QED
    BY <1>2 DEF Book!Next

LEMMA LongestClaimBounds ==
  /\ LongestClaim \in Nat /\ HOLD_TTL <= LongestClaim /\ DRAFT_TTL <= LongestClaim
  /\ HOLD_MAX_EXTENSIONS # 0 => HOLD_EXTENSION <= LongestClaim
  <1> USE ConstantTypes
  <1>1. HOLD_MAX_EXTENSIONS * HOLD_EXTENSION \in Nat
    OBVIOUS
  <1>2. HOLD_MAX_EXTENSIONS # 0 => HOLD_EXTENSION <= HOLD_MAX_EXTENSIONS * HOLD_EXTENSION
    OBVIOUS
  <1> DEFINE extensions == HOLD_MAX_EXTENSIONS * HOLD_EXTENSION
  <1>3. extensions \in Nat /\ LongestClaim = HOLD_TTL + extensions + DRAFT_TTL
    BY <1>1 DEF LongestClaim
  <1> HIDE DEF extensions
  <1>4. QED
    BY <1>2, <1>3 DEF extensions

-----------------------------------------------------------------------------
(* Past claims may be cleared by anybody: those of due holds are.          *)
LEMMA ClearsBook ==
  ASSUME IInv, IInv', NEW H \in SUBSET HoldId, \A h \in H : DueHold(h),
         tickets' = releaseHeldTickets(H), seatHolds' = EndHolds(H, "EXPIRED"),
         UNCHANGED <<now, reservationDrafts>>
  PROVE  Book!Clear
  <1> DEFINE L == {s \in Seat : tickets[s].status = "HELD" /\ tickets[s].heldBy \in H}
  <1>1. EntriesFit /\ EntriesFit'
    BY IInvFits, NextFits
  <1>2. \A h \in H : seatHolds[h].status = "ACTIVE" /\ seatHolds[h].expiresAt <= now
    BY DEF DueHold
  <1>3. L \in SUBSET Book!Lapsed
    <2> SUFFICES ASSUME NEW s \in L PROVE s \in Book!Lapsed
      OBVIOUS
    <2>1. BookEntry(s) = Book!Entry("claimed", seatHolds[tickets[s].heldBy].userId,
                                    seatHolds[tickets[s].heldBy].expiresAt)
      BY <1>1 DEF EntriesFit, EntryFits
    <2>2. QED
      BY <1>2, <2>1 DEF Book!Lapsed, Book!Entry
  <1>4. \A s \in L : BookEntry(s)' = Book!Open
    <2> SUFFICES ASSUME NEW s \in L PROVE BookEntry(s)' = Book!Open
      OBVIOUS
    <2>1. tickets'[s].status = "ON_SALE"
      BY <1>2, Released
    <2>2. QED
      BY <1>1, <2>1 DEF EntriesFit, EntryFits
  <1>5. \A s \in Seat \ L : BookEntry(s)' = BookEntry(s)
    <2> SUFFICES ASSUME NEW s \in Seat \ L PROVE BookEntry(s)' = BookEntry(s)
      OBVIOUS
    <2>1. tickets'[s] = tickets[s]
      BY <1>2, Released
    <2>2. \A h \in HoldId : seatHolds'[h].userId = seatHolds[h].userId
      BY EndedType DEF IInv, HoldStatus
    <2>3. QED
      BY <2>1, <2>2, SameEntry
  <1>6. Book!Write({}, Book!Open, L)
    BY <1>4, <1>5, BookWritten
  <1>7. QED
    BY <1>3, <1>6 DEF Book!Clear

LEMMA ReconcileClears ==
  ASSUME IInv, IInv', NEW u \in User, NEW h \in HoldId, getSeatHold(u, h)
  PROVE  Book!Clear
  <1>1. /\ DueHold(h) /\ tickets' = releaseHeldTickets({h}) /\ seatHolds' = EndHolds({h}, "EXPIRED")
        /\ UNCHANGED <<now, reservationDrafts>>
    BY DEF getSeatHold, ReconcileHold
  <1>2. QED
    BY <1>1, ClearsBook

(* A hold is a claim to all its seats; the past claims in its way go.      *)
LEMMA HoldClaims ==
  ASSUME IInv, IInv', NEW u \in User, NEW S \in SUBSET Seat, createSeatHold(u, S)
  PROVE  Book!Clear \/ Book!Claim(u, S)
  <1> USE ConstantTypes
  <1> DEFINE due == holdsToReconcile(u)
             seats == releaseHeldTickets(due)
             holds == EndHolds(due, "EXPIRED")
             L == {s \in Seat : tickets[s].status = "HELD" /\ tickets[s].heldBy \in due}
  <1>1. due \in SUBSET HoldId /\ \A h \in due : DueHold(h)
    BY DEF holdsToReconcile
  <1>2. UNCHANGED <<now, bookable, reservationDrafts>>
    BY DEF createSeatHold
  <1>3. CASE seatHolds' = holds /\ tickets' = seats
    BY <1>1, <1>2, <1>3, ClearsBook
  <1>4. CASE ~(seatHolds' = holds /\ tickets' = seats)
    <2>1. PICK h \in HoldId :
            /\ seatHolds[h].status = "NONE"
            /\ seatHolds' = [holds EXCEPT ![h] =
                 [status |-> "ACTIVE", userId |-> u, ticketIds |-> S, createdAt |-> now,
                  expiresAt |-> now + HOLD_TTL, extensionsUsed |-> 0]]
            /\ tickets' = [s \in Seat |->
                 IF s \in S
                 THEN [seats[s] EXCEPT !.status = "HELD", !.heldBy = h,
                                       !.holdExpiresAt = now + HOLD_TTL]
                 ELSE seats[s]]
            /\ \A s \in S : seats[s].status = "ON_SALE"
      BY <1>4 DEF createSeatHold
    <2>2. \A g \in due : seatHolds[g].status = "ACTIVE" /\ seatHolds[g].expiresAt <= now
      BY <1>1 DEF DueHold
    <2>3. seats \in [Seat -> Ticket] /\ holds \in [HoldId -> Hold]
      BY ReleasedType, EndedType DEF IInv, HoldStatus
    <2>4. \A s \in Seat : IF s \in L THEN seats[s].status = "ON_SALE" ELSE seats[s] = tickets[s]
      BY <1>1, <2>2, Released
    <2>5. \A g \in HoldId : holds[g].userId = seatHolds[g].userId
      BY EndedType DEF IInv, HoldStatus
    <2>6. EntriesFit /\ EntriesFit'
      BY IInvFits, NextFits
    <2> HIDE DEF seats, holds, due
    <2>7. /\ seatHolds'[h].userId = u /\ seatHolds'[h].expiresAt = now + HOLD_TTL
          /\ \A g \in HoldId \ {h} : seatHolds'[g].userId = seatHolds[g].userId
      BY <2>1, <2>3, <2>5
    <2>8. \A s \in S : BookEntry(s)' = Book!Entry("claimed", u, now + HOLD_TTL)
      <3> SUFFICES ASSUME NEW s \in S
                   PROVE  BookEntry(s)' = Book!Entry("claimed", u, now + HOLD_TTL)
        OBVIOUS
      <3>1. tickets'[s].status = "HELD" /\ tickets'[s].heldBy = h
        BY <2>1, <2>3 DEF Ticket
      <3>2. QED
        BY <2>6, <2>7, <3>1 DEF EntriesFit, EntryFits, Book!Entry
    <2>9. \A s \in L \ S : BookEntry(s)' = Book!Open
      <3> SUFFICES ASSUME NEW s \in L \ S PROVE BookEntry(s)' = Book!Open
        OBVIOUS
      <3>1. tickets'[s].status = "ON_SALE"
        BY <2>1, <2>4
      <3>2. QED
        BY <2>6, <3>1 DEF EntriesFit, EntryFits
    <2>10. \A s \in Seat \ (S \union L) : BookEntry(s)' = BookEntry(s)
      <3> SUFFICES ASSUME NEW s \in Seat \ (S \union L) PROVE BookEntry(s)' = BookEntry(s)
        OBVIOUS
      <3>1. tickets'[s] = tickets[s]
        BY <2>1, <2>4
      <3>2. \A g \in HoldId : seatHolds[g].status = "ACTIVE"
                                => seatHolds'[g].userId = seatHolds[g].userId
        BY <2>1, <2>7
      <3>3. QED
        BY <1>2, <3>1, <3>2, SameEntry
    <2>11. Book!Write(S, Book!Entry("claimed", u, now + HOLD_TTL), L)
      BY <1>2, <2>8, <2>9, <2>10, BookWritten
    <2>12. L \in SUBSET Book!Lapsed
      <3> SUFFICES ASSUME NEW s \in L PROVE s \in Book!Lapsed
        OBVIOUS
      <3>1. BookEntry(s) = Book!Entry("claimed", seatHolds[tickets[s].heldBy].userId,
                                      seatHolds[tickets[s].heldBy].expiresAt)
        BY <2>6 DEF EntriesFit, EntryFits
      <3>2. QED
        BY <2>2, <3>1 DEF Book!Lapsed, Book!Entry
    <2>13. \A s \in S : BookEntry(s) = Book!Open \/ s \in L
      <3>1. \A s \in S : s \in L \/ tickets[s].status = "ON_SALE"
        BY <2>1, <2>4
      <3>2. QED
        BY <2>6, <3>1 DEF EntriesFit, EntryFits
    <2>14. now + HOLD_TTL \in Book!Soon
      BY LongestClaimBounds DEF IInv, TypeOK, Book!Soon
    <2>15. QED
      BY <2>11, <2>12, <2>13, <2>14 DEF Book!Claim
  <1>5. QED
    BY <1>3, <1>4

-----------------------------------------------------------------------------
(* A live hold is a claim of its user to all its seats. *)
LEMMA HoldIsClaim ==
  ASSUME IInv, NEW u \in User, NEW h \in HoldId, OwnActiveHold(u, h)
  PROVE  /\ seatHolds[h].ticketIds \in SUBSET Seat
         /\ seatHolds[h].ticketIds \subseteq Book!ClaimedBy(u)
         /\ \A s \in Seat : s \in seatHolds[h].ticketIds
                              <=> tickets[s].status = "HELD" /\ tickets[s].heldBy = h
  <1>1. /\ seatHolds[h].status = "ACTIVE" /\ seatHolds[h].userId = u
        /\ seatHolds[h].expiresAt > now /\ seatHolds[h] \in Hold
    BY DEF IInv, TypeOK, OwnActiveHold, DueHold, Hold
  <1>2. \A s \in seatHolds[h].ticketIds :
          s \in Seat /\ tickets[s].status = "HELD" /\ tickets[s].heldBy = h
    BY <1>1 DEF IInv, ClaimsKeepTheirSeats, Hold
  <1>3. EntriesFit
    BY IInvFits
  <1>4. ASSUME NEW s \in seatHolds[h].ticketIds PROVE s \in Book!ClaimedBy(u)
    <2>1. BookEntry(s) = Book!Entry("claimed", u, seatHolds[h].expiresAt)
      BY <1>1, <1>2, <1>3 DEF EntriesFit, EntryFits
    <2>2. QED
      BY <1>1, <1>2, <2>1 DEF Book!ClaimedBy, Book!Entry
  <1>5. QED
    BY <1>2, <1>3, <1>4 DEF EntriesFit, EntryFits

LEMMA ExtensionProlongs ==
  ASSUME IInv, IInv', NEW u \in User, NEW h \in HoldId, OwnActiveHold(u, h), mayExtend(h),
         ProlongHold(h, now + HOLD_EXTENSION), UNCHANGED <<now, bookable, reservationDrafts>>
  PROVE  Book!Prolong(u, seatHolds[h].ticketIds)
  <1> USE ConstantTypes
  <1> DEFINE S == seatHolds[h].ticketIds
             until == now + HOLD_EXTENSION
  <1>1. /\ S \in SUBSET Seat /\ S \subseteq Book!ClaimedBy(u)
        /\ \A s \in S : tickets[s].status = "HELD" /\ tickets[s].heldBy = h
    BY HoldIsClaim
  <1>2. /\ now \in Nat /\ seatHolds \in [HoldId -> Hold] /\ tickets \in [Seat -> Ticket]
        /\ seatHolds[h].userId = u
    BY DEF IInv, TypeOK, OwnActiveHold
  <1>3. /\ seatHolds'[h].userId = u /\ seatHolds'[h].expiresAt = until
        /\ \A g \in HoldId : seatHolds'[g].userId = seatHolds[g].userId
    BY <1>2 DEF ProlongHold, Hold
  <1>4. EntriesFit'
    BY NextFits
  <1>5. \A s \in S : BookEntry(s)' = Book!Entry("claimed", u, until)
    <2> SUFFICES ASSUME NEW s \in S PROVE BookEntry(s)' = Book!Entry("claimed", u, until)
      OBVIOUS
    <2>1. tickets'[s].status = "HELD" /\ tickets'[s].heldBy = h
      BY <1>1, <1>2 DEF ProlongHold, Ticket
    <2>2. QED
      BY <1>1, <1>3, <1>4, <2>1 DEF EntriesFit, EntryFits
  <1>6. \A s \in Seat \ S : BookEntry(s)' = BookEntry(s)
    <2> SUFFICES ASSUME NEW s \in Seat \ S PROVE BookEntry(s)' = BookEntry(s)
      OBVIOUS
    <2>1. tickets'[s] = tickets[s]
      BY DEF ProlongHold
    <2>2. QED
      BY <1>3, <2>1, SameEntry
  <1>7. Book!Write(S, Book!Entry("claimed", u, until), {})
    BY <1>1, <1>5, <1>6, BookWritten
  <1>8. until \in Book!Soon
    <2>1. HOLD_MAX_EXTENSIONS # 0
      BY <1>2 DEF mayExtend, Hold
    <2>2. QED
      BY <1>2, <2>1, LongestClaimBounds DEF Book!Soon
  <1>9. QED
    BY <1>1, <1>7, <1>8 DEF Book!Prolong

LEMMA DraftProlongs ==
  ASSUME IInv, IInv', NEW u \in User, NEW h \in HoldId, OwnActiveHold(u, h),
         NEW d \in DraftId, reservationDrafts[d].status = "NONE", MakeDraft(u, h, d)
  PROVE  Book!Prolong(u, seatHolds[h].ticketIds)
  <1> USE ConstantTypes
  <1> DEFINE S == seatHolds[h].ticketIds
             until == now + DRAFT_TTL
  <1>1. /\ S \in SUBSET Seat /\ S \subseteq Book!ClaimedBy(u)
    BY HoldIsClaim
  <1>2. /\ now \in Nat /\ tickets \in [Seat -> Ticket]
        /\ reservationDrafts \in [DraftId -> Draft]
    BY DEF IInv, TypeOK
  <1>3. \A g \in HoldId : seatHolds'[g].userId = seatHolds[g].userId
    <2>1. TypeOK /\ "CONVERTED" \in HoldStatus /\ seatHolds' = EndHolds({h}, "CONVERTED")
      BY DEF IInv, HoldStatus, MakeDraft
    <2>2. QED
      BY <2>1, EndedType
  <1>4. /\ reservationDrafts'[d].userId = u /\ reservationDrafts'[d].expiresAt = until
        /\ \A e \in DraftId : reservationDrafts[e].status = "PENDING_PAYMENT"
                                => reservationDrafts'[e] = reservationDrafts[e]
    BY <1>2 DEF MakeDraft
  <1>5. EntriesFit'
    BY NextFits
  <1>6. \A s \in S : BookEntry(s)' = Book!Entry("claimed", u, until)
    <2> SUFFICES ASSUME NEW s \in S PROVE BookEntry(s)' = Book!Entry("claimed", u, until)
      OBVIOUS
    <2>1. tickets'[s].status = "RESERVED" /\ tickets'[s].reservationId = d
      BY <1>1, <1>2 DEF MakeDraft, Ticket
    <2>2. QED
      BY <1>1, <1>4, <1>5, <2>1 DEF EntriesFit, EntryFits
  <1>7. \A s \in Seat \ S : BookEntry(s)' = BookEntry(s)
    <2> SUFFICES ASSUME NEW s \in Seat \ S PROVE BookEntry(s)' = BookEntry(s)
      OBVIOUS
    <2>1. tickets'[s] = tickets[s]
      BY DEF MakeDraft
    <2>2. QED
      BY <1>3, <1>4, <2>1, SameEntry
  <1>8. Book!Write(S, Book!Entry("claimed", u, until), {})
    BY <1>1, <1>6, <1>7, BookWritten DEF MakeDraft
  <1>9. until \in Book!Soon
    BY <1>2, LongestClaimBounds DEF Book!Soon
  <1>10. QED
    BY <1>1, <1>8, <1>9 DEF Book!Prolong

LEMMA ReleaseGivesUp ==
  ASSUME IInv, IInv', NEW u \in User, NEW h \in HoldId, OwnActiveHold(u, h),
         tickets' = releaseHeldTickets({h}), seatHolds' = EndHolds({h}, "RELEASED"),
         UNCHANGED <<now, bookable, reservationDrafts>>
  PROVE  Book!GiveUp(u, seatHolds[h].ticketIds)
  <1> DEFINE S == seatHolds[h].ticketIds
  <1>1. /\ S \in SUBSET Seat /\ S \subseteq Book!ClaimedBy(u)
        /\ \A s \in Seat : s \in S <=> tickets[s].status = "HELD" /\ tickets[s].heldBy = h
    BY HoldIsClaim
  <1>2. \A s \in Seat : IF s \in S THEN tickets'[s].status = "ON_SALE"
                                   ELSE tickets'[s] = tickets[s]
    <2>1. \A g \in {h} : seatHolds[g].status = "ACTIVE"
      BY DEF OwnActiveHold
    <2>2. QED
      BY <1>1, <2>1, Released
  <1>3. \A g \in HoldId : seatHolds'[g].userId = seatHolds[g].userId
    BY EndedType DEF IInv, HoldStatus
  <1>4. \A s \in S : BookEntry(s)' = Book!Open
    BY <1>1, <1>2, NextFits DEF EntriesFit, EntryFits
  <1>5. \A s \in Seat \ S : BookEntry(s)' = BookEntry(s)
    BY <1>2, <1>3, SameEntry
  <1>6. Book!Write(S, Book!Open, {})
    BY <1>1, <1>4, <1>5, BookWritten
  <1>7. QED
    BY <1>1, <1>6 DEF Book!GiveUp

(* The end of a draft that its user asks for: in time it gives the seats   *)
(* up, later it clears them.                                               *)
LEMMA DraftEnds ==
  ASSUME IInv, IInv', NEW d \in DraftId, reservationDrafts[d].status = "PENDING_PAYMENT",
         NEW status \in {"EXPIRED", "CANCELLED"}, EndDraft(d, status)
  PROVE  LET S == reservationDrafts[d].ticketIds
         IN /\ S \in SUBSET Seat
            /\ \A s \in S : BookEntry(s) = Book!Entry("claimed", reservationDrafts[d].userId,
                                                      reservationDrafts[d].expiresAt)
            /\ Book!Write({}, Book!Open, S)
            /\ Book!Write(S, Book!Open, {})
  <1> DEFINE S == reservationDrafts[d].ticketIds
  <1>1. /\ tickets \in [Seat -> Ticket] /\ reservationDrafts \in [DraftId -> Draft]
        /\ S \in SUBSET Seat
    BY DEF IInv, TypeOK, Draft
  <1>2. \A s \in S : tickets[s].status = "RESERVED" /\ tickets[s].reservationId = d
    BY DEF IInv, ClaimsKeepTheirSeats
  <1>3. \A s \in S : BookEntry(s) = Book!Entry("claimed", reservationDrafts[d].userId,
                                               reservationDrafts[d].expiresAt)
    BY <1>1, <1>2, IInvFits DEF EntriesFit, EntryFits
  <1>4. \A s \in Seat : IF s \in S THEN tickets'[s].status = "ON_SALE"
                                   ELSE tickets'[s] = tickets[s]
    BY <1>1, <1>2 DEF EndDraft, Ticket
  <1>5. \A e \in DraftId : reservationDrafts'[e].userId = reservationDrafts[e].userId
    BY <1>1 DEF EndDraft, Draft
  <1>6. \A s \in S : BookEntry(s)' = Book!Open
    BY <1>1, <1>4, NextFits DEF EntriesFit, EntryFits
  <1>7. UNCHANGED <<now, seatHolds>>
    BY DEF EndDraft
  <1>8. \A s \in Seat \ S : BookEntry(s)' = BookEntry(s)
    BY <1>4, <1>5, <1>7, SameEntry
  <1>9. Book!Write({}, Book!Open, S)
    BY <1>1, <1>6, <1>7, <1>8, BookWritten
  <1>10. Book!Write(S, Book!Open, {})
    BY <1>1, <1>6, <1>7, <1>8, BookWritten
  <1>11. QED
    BY <1>1, <1>3, <1>9, <1>10

LEMMA DueDraftClears ==
  ASSUME IInv, IInv', NEW u \in User, NEW d \in DraftId, getReservationDraft(u, d)
  PROVE  Book!Clear
  <1> DEFINE S == reservationDrafts[d].ticketIds
  <1>1. /\ reservationDrafts[d].status = "PENDING_PAYMENT" /\ reservationDrafts[d].expiresAt <= now
        /\ EndDraft(d, "EXPIRED")
    BY DEF getReservationDraft, DueDraft
  <1>2. /\ S \in SUBSET Seat
        /\ \A s \in S : BookEntry(s) = Book!Entry("claimed", reservationDrafts[d].userId,
                                                  reservationDrafts[d].expiresAt)
        /\ Book!Write({}, Book!Open, S)
    BY <1>1, DraftEnds
  <1>3. S \in SUBSET Book!Lapsed
    BY <1>1, <1>2 DEF Book!Lapsed, Book!Entry
  <1>4. QED
    BY <1>2, <1>3 DEF Book!Clear

LEMMA CancelGivesUp ==
  ASSUME IInv, IInv', NEW u \in User, NEW d \in DraftId, reservationDrafts[d].userId = u,
         reservationDrafts[d].status = "PENDING_PAYMENT", ~DueDraft(d),
         EndDraft(d, "CANCELLED")
  PROVE  Book!GiveUp(u, reservationDrafts[d].ticketIds)
  <1> DEFINE S == reservationDrafts[d].ticketIds
  <1>1. reservationDrafts[d].expiresAt > now
    BY DEF IInv, TypeOK, Draft, DueDraft
  <1>2. /\ S \in SUBSET Seat
        /\ \A s \in S : BookEntry(s) = Book!Entry("claimed", u, reservationDrafts[d].expiresAt)
        /\ Book!Write(S, Book!Open, {})
    BY DraftEnds
  <1>3. S \subseteq Book!ClaimedBy(u)
    BY <1>1, <1>2 DEF Book!ClaimedBy, Book!Entry
  <1>4. QED
    BY <1>2, <1>3 DEF Book!GiveUp

(* Seats are sold when they are open or claimed, in time, by their buyer.  *)
LEMMA SaleSells ==
  ASSUME IInv, IInv', NEW u \in User, NEW S \in SUBSET Seat, NEW H, NEW D,
         SellClaimed(u, S, H, D),
         \A h \in H : ~DueHold(h), \A d \in D : ~DueDraft(d)
  PROVE  Book!Sell(u, S)
  <1>1. /\ \A h \in H : /\ h \in HoldId /\ seatHolds[h].userId = u
                        /\ seatHolds[h].expiresAt > now
        /\ \A d \in D : /\ d \in DraftId /\ reservationDrafts[d].userId = u
                        /\ reservationDrafts[d].expiresAt > now
    BY DEF IInv, TypeOK, Hold, Draft, SellClaimed, DueHold, DueDraft
  <1>2. \A s \in S : \/ tickets[s].status = "ON_SALE"
                     \/ tickets[s].status = "HELD" /\ tickets[s].heldBy \in H
                     \/ tickets[s].status = "RESERVED" /\ tickets[s].reservationId \in D
    BY DEF SellClaimed
  <1>3. \A s \in S : BookEntry(s) = Book!Open \/ s \in Book!ClaimedBy(u)
    <2> SUFFICES ASSUME NEW s \in S PROVE BookEntry(s) = Book!Open \/ s \in Book!ClaimedBy(u)
      OBVIOUS
    <2>1. EntryFits(s)
      BY IInvFits DEF EntriesFit
    <2>2. CASE tickets[s].status = "ON_SALE"
      BY <2>1, <2>2 DEF EntryFits
    <2>3. CASE tickets[s].status = "HELD" /\ tickets[s].heldBy \in H
      BY <1>1, <2>1, <2>3 DEF EntryFits, Book!ClaimedBy, Book!Entry
    <2>4. CASE tickets[s].status = "RESERVED" /\ tickets[s].reservationId \in D
      BY <1>1, <2>1, <2>4 DEF EntryFits, Book!ClaimedBy, Book!Entry
    <2>5. QED
      BY <1>2, <2>2, <2>3, <2>4
  <1>4. \A s \in Seat : IF s \in S
                        THEN tickets'[s].status = "OWNED" /\ tickets'[s].ownerId = u
                        ELSE tickets'[s] = tickets[s]
    BY DEF SellClaimed, Sell, OnSale
  <1>5. /\ \A h \in HoldId : seatHolds'[h].userId = seatHolds[h].userId
        /\ \A d \in DraftId : reservationDrafts'[d].userId = reservationDrafts[d].userId
        /\ now' = now
    <2>1. TypeOK /\ "CONVERTED" \in HoldStatus /\ seatHolds' = EndHolds(H, "CONVERTED")
      BY DEF IInv, HoldStatus, SellClaimed
    <2>2. \A d \in DraftId : reservationDrafts'[d].userId = reservationDrafts[d].userId
      BY DEF IInv, TypeOK, Draft, SellClaimed
    <2>3. QED
      BY <2>1, <2>2, EndedType DEF SellClaimed
  <1>6. \A s \in S : BookEntry(s)' = Book!Sold(u)
    BY <1>4, NextFits DEF EntriesFit, EntryFits
  <1>7. \A s \in Seat \ S : BookEntry(s)' = BookEntry(s)
    BY <1>4, <1>5, SameEntry
  <1>8. Book!Write(S, Book!Sold(u), {})
    BY <1>5, <1>6, <1>7, BookWritten
  <1>9. QED
    BY <1>3, <1>8 DEF Book!Sell

LEMMA StatusesArrange ==
  ASSUME IInv, IInv', NEW B \in SUBSET Seat, NEW U \in SUBSET Seat, updateTicketStatuses(B, U)
  PROVE  Book!Arrange(B \ U, U)
  <1>1. /\ \A s \in Seat : tickets[s] \in Ticket
        /\ UNCHANGED <<now, seatHolds, reservationDrafts>>
    BY DEF IInv, TypeOK, updateTicketStatuses
  <1>2. \A s \in B \union U : tickets[s].status \in {"ON_SALE", "ADMIN_HOLD"}
    BY DEF updateTicketStatuses
  <1>3. \A s \in B \union U : BookEntry(s) \in {Book!Open, Book!Blocked}
    BY <1>2, IInvFits DEF EntriesFit, EntryFits
  <1>4. \A s \in Seat : IF s \in U THEN tickets'[s].status = "ON_SALE"
                        ELSE IF s \in B THEN tickets'[s].status = "ADMIN_HOLD"
                        ELSE tickets'[s] = tickets[s]
    BY <1>1 DEF updateTicketStatuses, Ticket
  <1>5. \A s \in Seat : BookEntry(s)' = IF s \in B \ U THEN Book!Blocked
                                        ELSE IF s \in U THEN Book!Open ELSE BookEntry(s)
    <2> SUFFICES ASSUME NEW s \in Seat
                 PROVE  BookEntry(s)' = IF s \in B \ U THEN Book!Blocked
                                        ELSE IF s \in U THEN Book!Open ELSE BookEntry(s)
      OBVIOUS
    <2>1. CASE s \in B \union U
      BY <1>4, <2>1, NextFits DEF EntriesFit, EntryFits
    <2>2. CASE s \notin B \union U
      BY <1>1, <1>4, <2>2, SameEntry
    <2>3. QED
      BY <2>1, <2>2
  <1>6. QED
    BY <1>1, <1>3, <1>5 DEF Book!Arrange

-----------------------------------------------------------------------------
(* The handlers of one user *)

(* A step of the book on the seats of S; on none it is a step that clears  *)
(* nothing.                                                                *)
LEMMA BookActs ==
  ASSUME NEW u \in User, NEW S \in SUBSET Seat,
         Book!Claim(u, S) \/ Book!Prolong(u, S) \/ Book!GiveUp(u, S) \/ Book!Sell(u, S)
  PROVE  [Book!Next]_Book!vars
  <1>1. CASE S # {}
    <2>1. S \in (SUBSET Seat) \ {{}}
      BY <1>1
    <2>2. \E v \in User, T \in (SUBSET Seat) \ {{}} :
            Book!Claim(v, T) \/ Book!Prolong(v, T) \/ Book!GiveUp(v, T) \/ Book!Sell(v, T)
      BY <2>1
    <2>3. QED
      BY <2>2 DEF Book!Next
  <1>2. CASE S = {} /\ ~Book!Claim(u, S)
    <2>1. \E e : Book!Write({}, e, {})
      BY <1>2 DEF Book!Prolong, Book!GiveUp, Book!Sell
    <2>2. QED
      BY <2>1, NothingWritten
  <1>3. CASE S = {} /\ Book!Claim(u, S)
    <2>1. \E L \in SUBSET Book!Lapsed : \E e : Book!Write({}, e, L)
      BY <1>3 DEF Book!Claim
    <2>2. PICK L \in SUBSET Book!Lapsed : Book!Write({}, Book!Open, L)
      BY <2>1 DEF Book!Write
    <2>3. QED
      BY <2>2 DEF Book!Next, Book!Clear
  <1>4. QED
    BY <1>1, <1>2, <1>3

LEMMA HoldHandlersKeepTheBook ==
  ASSUME IInv, IInv', NEW u \in User, HoldStep(u)
  PROVE  [Book!Next]_Book!vars
  <1>1. ASSUME NEW S \in SUBSET Seat, createSeatHold(u, S)
        PROVE  [Book!Next]_Book!vars
    BY <1>1, HoldClaims, BookActs DEF Book!Next
  <1>2. ASSUME NEW h \in HoldId, getSeatHold(u, h)
        PROVE  [Book!Next]_Book!vars
    BY <1>2, ReconcileClears DEF Book!Next
  <1>3. ASSUME NEW h \in HoldId, extendSeatHold(u, h), ~getSeatHold(u, h)
        PROVE  [Book!Next]_Book!vars
    <2>1. Book!Prolong(u, seatHolds[h].ticketIds) /\ OwnActiveHold(u, h)
      BY <1>3, ExtensionProlongs DEF extendSeatHold
    <2>2. QED
      BY <2>1, HoldIsClaim, BookActs
  <1>4. ASSUME NEW h \in HoldId, releaseSeatHold(u, h), ~getSeatHold(u, h)
        PROVE  [Book!Next]_Book!vars
    <2>1. Book!GiveUp(u, seatHolds[h].ticketIds) /\ OwnActiveHold(u, h)
      BY <1>4, ReleaseGivesUp DEF releaseSeatHold
    <2>2. QED
      BY <2>1, HoldIsClaim, BookActs
  <1>5. QED
    BY <1>1, <1>2, <1>3, <1>4 DEF HoldStep

LEMMA DraftHandlersKeepTheBook ==
  ASSUME IInv, IInv', NEW u \in User, DraftStep(u)
  PROVE  [Book!Next]_Book!vars
  <1>1. ASSUME NEW h \in HoldId, createReservationDraft(u, h)
        PROVE  [Book!Next]_Book!vars
    <2>1. CASE getSeatHold(u, h)
      BY <2>1, ReconcileClears DEF Book!Next
    <2>2. CASE ~getSeatHold(u, h)
      <3>1. Book!Prolong(u, seatHolds[h].ticketIds) /\ OwnActiveHold(u, h)
        BY <1>1, <2>2, DraftProlongs DEF createReservationDraft
      <3>2. QED
        BY <3>1, HoldIsClaim, BookActs
    <2>3. QED
      BY <2>1, <2>2
  <1>2. ASSUME NEW d \in DraftId, getReservationDraft(u, d)
        PROVE  [Book!Next]_Book!vars
    BY <1>2, DueDraftClears DEF Book!Next
  <1>3. ASSUME NEW d \in DraftId, cancelReservationDraft(u, d), ~getReservationDraft(u, d)
        PROVE  [Book!Next]_Book!vars
    <2>1. Book!GiveUp(u, reservationDrafts[d].ticketIds)
      BY <1>3, CancelGivesUp DEF cancelReservationDraft
    <2>2. reservationDrafts[d].ticketIds \in SUBSET Seat
      BY DEF IInv, TypeOK, Draft
    <2>3. QED
      BY <2>1, <2>2, BookActs
  <1>4. QED
    BY <1>1, <1>2, <1>3 DEF DraftStep

LEMMA PurchasesKeepTheBook ==
  ASSUME IInv, IInv', NEW u \in User, PurchaseStep(u)
  PROVE  [Book!Next]_Book!vars
  <1>1. ASSUME NEW s \in Seat, buyPrimary(u, s)
        PROVE  [Book!Next]_Book!vars
    <2>1. /\ \A h \in PayableHolds(u, s) : ~DueHold(h)
          /\ \A d \in PayableDrafts(u, s) : ~DueDraft(d)
      BY DEF PayableHolds, PayableDrafts, OwnActiveHold
    <2>2. Book!Sell(u, {s})
      BY <1>1, <2>1, BuyIsSale, SaleSells
    <2>3. QED
      BY <2>2, BookActs
  <1>2. ASSUME NEW S \in SUBSET Seat, buyPrimaryGroup(u, S) \/ approveGroupBookingRequest(u, S)
        PROVE  [Book!Next]_Book!vars
    BY <1>2, OpenSeatsAreSold, SaleSells, BookActs
  <1>3. QED
    BY <1>1, <1>2 DEF PurchaseStep

LEMMA NextKeepsTheBook == IInv /\ IInv' /\ [Next]_vars => [Book!Next]_Book!vars
  <1> SUFFICES ASSUME IInv, IInv', [Next]_vars PROVE [Book!Next]_Book!vars
    OBVIOUS
  <1>1. ASSUME UNCHANGED <<tickets, seatHolds, reservationDrafts>>
        PROVE  \A s \in Seat : BookEntry(s)' = BookEntry(s)
    BY <1>1, SameEntry
  <1>2. CASE Tick
    BY <1>1, <1>2 DEF Tick, Book!Next, Book!Tick
  <1>3. ASSUME NEW u \in User, HoldStep(u) \/ DraftStep(u) \/ PurchaseStep(u)
        PROVE  [Book!Next]_Book!vars
    BY <1>3, HoldHandlersKeepTheBook, DraftHandlersKeepTheBook, PurchasesKeepTheBook
  <1>4. ASSUME NEW B \in SUBSET Seat, NEW U \in SUBSET Seat, updateTicketStatuses(B, U)
        PROVE  [Book!Next]_Book!vars
    BY <1>4, StatusesArrange DEF Book!Next
  <1>5. ASSUME NEW state \in BOOLEAN, updateEventSale(state)
        PROVE  [Book!Next]_Book!vars
    BY <1>1, <1>5 DEF updateEventSale, Book!vars
  <1>6. CASE UNCHANGED vars
    BY <1>1, <1>6 DEF vars, Book!vars
  <1>7. QED
    BY <1>2, <1>3, <1>4, <1>5, <1>6 DEF Next, OperatorStep

(* Holds, drafts, purchases, allotments and the operator's switches        *)
(* together implement the seat book: claims are all or none, last at most  *)
(* LongestClaim, are used by their user and in time only, are cleared only *)
(* when past, and nobody undoes a sale.                                    *)
THEOREM SeatBookImplemented == Spec => ImplementsSeatBook
  <1>1. Init => Book!Init
    <2> SUFFICES ASSUME Init PROVE Book!Init
      OBVIOUS
    <2>1. EntriesFit
      BY InitIInv, IInvFits
    <2>2. \A s \in Seat : BookEntry(s) = Book!Open
      BY <2>1 DEF Init, OnSale, EntriesFit, EntryFits
    <2>3. QED
      BY <2>2 DEF Init, Book!Init
  <1>2. IInv /\ IInv' /\ [Next]_vars => [Book!Next]_Book!vars
    BY NextKeepsTheBook
  <1>3. QED
    BY <1>1, <1>2, SpecIInv, PTL DEF Spec, ImplementsSeatBook, Book!Spec
=============================================================================
