--------------------------- MODULE BookingSession ---------------------------
(***************************************************************************)
(* The mobile booking session (backend/booking-session.js) on the records  *)
(* it shares with backend/booking-holds.js.  Both keep their holds in      *)
(* db.seatHolds and give them the same statuses, but mean different        *)
(* things: a "booking" hold makes its tickets HELD and lists them in       *)
(* ticketIds, a "session" hold has one ticketId, leaves the ticket as it   *)
(* is and counts bookingInventoryRevision up, so that clients notice.      *)
(* Every handler finds a hold by its id and owner alone, whichever module  *)
(* made it.                                                                *)
(*                                                                         *)
(* Handlers are synchronous.  A request that is refused keeps what it had  *)
(* already written, expiries above all, and so does one that throws a      *)
(* TypeError half-way because the other module's record lacks a field.     *)
(***************************************************************************)
EXTENDS Naturals, Sequences, FiniteSetsExt

CONSTANTS
  Seat, User,
  QUEUE_TTL, HOLD_TTL, HOLD_EXTENSION,
  MaxHolds,             \* bound: holds ever made
  MaxExpiry,            \* bound: how far a hold is renewed
  Horizon               \* bound: where the clock of the model stops

VARIABLES
  now,                  \* currentTimeMs()
  tickets,              \* db.tickets: status and heldBy (0 is null)
  seatHolds,            \* db.seatHolds, in the order they were made
  bookingQueues,        \* the latest of db.bookingQueues of each user
  sessionDrafts,        \* db.reservationDrafts made here, by their hold
  seen                  \* what each client was last shown by seats(), and whether
                        \* bookingInventoryRevision is still the one it was shown

vars == <<now, tickets, seatHolds, bookingQueues, sessionDrafts, seen>>

Hold ==
  [kind : {"session", "booking"}, userId : User, seats : SUBSET Seat,
   status : {"ACTIVE", "EXPIRED", "RELEASED", "CONVERTED"},
   expiresAt : Nat, extensionsUsed : 0..1]

(* The revision is a number that only grows and is only compared for        *)
(* equality: a view is current until the number is counted up.             *)
Outdated == [current |-> FALSE, selectable |-> {}]

Init ==
  /\ now = 0
  /\ tickets = [s \in Seat |-> [status |-> "ON_SALE", heldBy |-> 0]]
  /\ seatHolds = <<>>
  /\ bookingQueues = [u \in User |-> [status |-> "EXPIRED", expiresAt |-> 0]]
  /\ sessionDrafts = [h \in 1..MaxHolds |-> [status |-> "NONE", expiresAt |-> 0]]
  /\ seen = [u \in User |-> Outdated]

Tick ==
  /\ now < Horizon
  /\ now' = now + 1
  /\ UNCHANGED <<tickets, seatHolds, bookingQueues, sessionDrafts, seen>>

Due(h) == seatHolds[h].status = "ACTIVE" /\ seatHolds[h].expiresAt <= now
DueHolds == {h \in DOMAIN seatHolds : Due(h)}
OwnHold(u, h) == h \in DOMAIN seatHolds /\ seatHolds[h].userId = u
IsSession(h) == seatHolds[h].kind = "session"

WithStatus(H, status) ==
  [h \in DOMAIN seatHolds |-> IF h \in H THEN [seatHolds[h] EXCEPT !.status = status]
                                        ELSE seatHolds[h]]

-----------------------------------------------------------------------------
(* booking-session.js *)

(* expire(): every due hold of the database, whoever made it, and nothing  *)
(* of its tickets.  The expiry of an ended queue is not read again.        *)
ExpiredQueues ==
  [u \in User |-> IF bookingQueues[u].expiresAt <= now
                  THEN [status |-> "EXPIRED", expiresAt |-> 0] ELSE bookingQueues[u]]
ExpiredHolds == WithStatus(DueHolds, "EXPIRED")
SeenAfterExpiry == IF DueHolds = {} THEN seen ELSE [u \in User |-> Outdated]

(* What a request leaves when expire() is all that it gets done. *)
expire ==
  /\ bookingQueues' = ExpiredQueues
  /\ seatHolds' = ExpiredHolds
  /\ seen' = SeenAfterExpiry
  /\ UNCHANGED <<now, tickets, sessionDrafts>>

joinQueue(u) ==
  /\ bookingQueues' = [bookingQueues EXCEPT ![u] = [status |-> "READY", expiresAt |-> now + QUEUE_TTL]]
  /\ UNCHANGED <<now, tickets, seatHolds, sessionDrafts, seen>>

ActiveSessionHoldOn(holds, s) ==
  \E h \in DOMAIN holds : /\ holds[h].kind = "session" /\ holds[h].status = "ACTIVE"
                          /\ holds[h].seats = {s}

seats(u) ==
  \/ expire
  \/ /\ ExpiredQueues[u].status = "READY"
     /\ seen' = [SeenAfterExpiry EXCEPT ![u] =
          [current |-> TRUE,
           selectable |-> {s \in Seat : /\ tickets[s].status = "ON_SALE"
                                        /\ ~ActiveSessionHoldOn(ExpiredHolds, s)}]]
     /\ bookingQueues' = ExpiredQueues
     /\ seatHolds' = ExpiredHolds
     /\ UNCHANGED <<now, tickets, sessionDrafts>>

(* A slip: the revision is not counted up. *)
RevisionUnchanged == SeenAfterExpiry
RevisionCounted == [u \in User |-> Outdated]

createHold(u, s) ==
  /\ Len(seatHolds) < MaxHolds
  /\ ExpiredQueues[u].status = "READY"
  /\ SeenAfterExpiry[u].current
  /\ tickets[s].status = "ON_SALE" /\ ~ActiveSessionHoldOn(ExpiredHolds, s)
  /\ bookingQueues' = ExpiredQueues
  /\ seen' = RevisionCounted
  /\ seatHolds' = Append(ExpiredHolds,
       [kind |-> "session", userId |-> u, seats |-> {s}, status |-> "ACTIVE",
        expiresAt |-> now + HOLD_TTL, extensionsUsed |-> 0])
  /\ UNCHANGED <<now, tickets, sessionDrafts>>

(* A slip: renewing looks at the status only. *)
MayRenewEvenDue(u, h) == OwnHold(u, h) /\ seatHolds[h].status = "ACTIVE"
MayRenew(u, h) == OwnHold(u, h) /\ ExpiredHolds[h].status = "ACTIVE"

(* Five more minutes on top of what is left, as often as the client asks;  *)
(* the tickets of a booking hold are not told.                             *)
renewHold(u, h) ==
  /\ MayRenew(u, h)
  /\ LET expiresAt == Max({now, seatHolds[h].expiresAt}) + HOLD_TTL
     IN /\ expiresAt <= MaxExpiry
        /\ seatHolds' = [WithStatus(DueHolds \ {h}, "EXPIRED") EXCEPT ![h].expiresAt = expiresAt]
  /\ seen' = SeenAfterExpiry
  /\ bookingQueues' = ExpiredQueues
  /\ UNCHANGED <<now, tickets, sessionDrafts>>

releaseHold(u, h) ==
  /\ OwnHold(u, h)
  /\ ExpiredHolds[h].status = "ACTIVE"
  /\ seatHolds' = [ExpiredHolds EXCEPT ![h].status = "RELEASED"]
  /\ seen' = RevisionCounted
  /\ bookingQueues' = ExpiredQueues
  /\ UNCHANGED <<now, tickets, sessionDrafts>>

(* For a booking hold the ticket is not found and the request throws. *)
createDraft(u, h) ==
  /\ OwnHold(u, h) /\ IsSession(h)
  /\ ExpiredHolds[h].status = "ACTIVE"
  /\ sessionDrafts[h].status = "NONE"
  /\ sessionDrafts' = [sessionDrafts EXCEPT ![h] =
       [status |-> "AWAITING_PAYMENT", expiresAt |-> seatHolds[h].expiresAt]]
  /\ seatHolds' = ExpiredHolds
  /\ seen' = SeenAfterExpiry
  /\ bookingQueues' = ExpiredQueues
  /\ UNCHANGED <<now, tickets>>

draft(u, h) ==
  /\ OwnHold(u, h)
  /\ sessionDrafts[h].status = "AWAITING_PAYMENT"
  /\ ExpiredHolds[h].status # "ACTIVE"
  /\ sessionDrafts' = [sessionDrafts EXCEPT ![h].status = "EXPIRED"]
  /\ seatHolds' = ExpiredHolds
  /\ seen' = SeenAfterExpiry
  /\ bookingQueues' = ExpiredQueues
  /\ UNCHANGED <<now, tickets>>

-----------------------------------------------------------------------------
(* booking-holds.js, when it meets these holds *)

FreedTickets(H) ==
  [s \in Seat |-> IF tickets[s].status = "HELD" /\ tickets[s].heldBy \in H
                  THEN [status |-> "ON_SALE", heldBy |-> 0] ELSE tickets[s]]

(* What reconciling the active holds in turn gets to: up to and including  *)
(* the first due session hold, whose missing ticketIds end the request.    *)
Reconciled ==
  LET fatal == {h \in DueHolds : IsSession(h)}
  IN IF fatal = {} THEN DueHolds ELSE {h \in DueHolds : h <= Min(fatal)}

createSeatHold(u, S) ==
  /\ S # {}
  /\ LET after == FreedTickets(Reconciled)
         fails == \/ \E h \in Reconciled : IsSession(h)
                  \/ \E s \in S : after[s].status # "ON_SALE"
     IN \/ /\ fails
           /\ seatHolds' = WithStatus(Reconciled, "EXPIRED")
           /\ tickets' = after
        \/ /\ ~fails
           /\ Len(seatHolds) < MaxHolds
           /\ seatHolds' = Append(WithStatus(Reconciled, "EXPIRED"),
                [kind |-> "booking", userId |-> u, seats |-> S, status |-> "ACTIVE",
                 expiresAt |-> now + HOLD_TTL, extensionsUsed |-> 0])
           /\ tickets' = [s \in Seat |->
                IF s \in S THEN [status |-> "HELD", heldBy |-> Len(seatHolds) + 1] ELSE after[s]]
  /\ UNCHANGED <<now, bookingQueues, sessionDrafts, seen>>

(* requireOwnHold, then the end of the request or of the hold *)
EndOwnHold(u, h, status) ==
  /\ OwnHold(u, h)
  /\ IF Due(h) THEN seatHolds' = WithStatus({h}, "EXPIRED")
     ELSE /\ seatHolds[h].status = "ACTIVE"
          /\ seatHolds' = WithStatus({h}, status)
  /\ tickets' = IF IsSession(h) THEN tickets ELSE FreedTickets({h})
  /\ UNCHANGED <<now, bookingQueues, sessionDrafts, seen>>

releaseSeatHold(u, h) == EndOwnHold(u, h, "RELEASED")

(* A session hold gets its new expiry before the request throws, and as    *)
(* its count of extensions is not a number it is never used up.            *)
extendSeatHold(u, h) ==
  /\ OwnHold(u, h) /\ seatHolds[h].status = "ACTIVE" /\ ~Due(h)
  /\ seatHolds[h].extensionsUsed < 1
  /\ seatHolds' = [seatHolds EXCEPT ![h].expiresAt = now + HOLD_EXTENSION,
                                    ![h].extensionsUsed = IF IsSession(h) THEN 0 ELSE 1]
  /\ UNCHANGED <<now, tickets, bookingQueues, sessionDrafts, seen>>

Reserved(h) == [status |-> "RESERVED", heldBy |-> h]

(* requireOwnHold, then the draft: the seats of a booking hold are RESERVED *)
(* for the draft made of it (heldBy names that hold, for the draft).  For a *)
(* session hold that still runs the request throws before it writes.       *)
createReservationDraft(u, h) ==
  \/ OwnHold(u, h) /\ Due(h) /\ EndOwnHold(u, h, "EXPIRED")
  \/ /\ OwnHold(u, h) /\ ~IsSession(h) /\ seatHolds[h].status = "ACTIVE" /\ ~Due(h)
     /\ seatHolds' = WithStatus({h}, "CONVERTED")
     /\ tickets' = [s \in Seat |-> IF s \in seatHolds[h].seats
                                   THEN Reserved(h) ELSE tickets[s]]
     /\ UNCHANGED <<now, bookingQueues, sessionDrafts, seen>>

(* The end of that draft, cancelled or found expired by its owner (its     *)
(* time limit is left open).                                               *)
endReservationDraft(u, h) ==
  /\ OwnHold(u, h)
  /\ \E s \in Seat : tickets[s] = Reserved(h)
  /\ tickets' = [s \in Seat |-> IF tickets[s] = Reserved(h)
                                THEN [status |-> "ON_SALE", heldBy |-> 0] ELSE tickets[s]]
  /\ UNCHANGED <<now, seatHolds, bookingQueues, sessionDrafts, seen>>

(* A seat is bought, by its holder (a booking hold of that seat alone, or  *)
(* a draft of it alone) or by anybody while it is on sale: a session hold  *)
(* does not stop that.                                                     *)
buyPrimary(u, s) ==
  LET own == {h \in DOMAIN seatHolds : /\ tickets[s] = [status |-> "HELD", heldBy |-> h]
                                       /\ seatHolds[h].userId = u /\ seatHolds[h].seats = {s}
                                       /\ seatHolds[h].status = "ACTIVE" /\ ~Due(h)}
  IN /\ \/ tickets[s].status = "ON_SALE" \/ own # {}
        \/ \E h \in DOMAIN seatHolds : /\ OwnHold(u, h) /\ seatHolds[h].seats = {s}
                                       /\ tickets[s] = Reserved(h)
     /\ seatHolds' = WithStatus(own, "CONVERTED")
     /\ tickets' = [tickets EXCEPT ![s] = [status |-> "OWNED", heldBy |-> 0]]
     /\ UNCHANGED <<now, bookingQueues, sessionDrafts, seen>>

-----------------------------------------------------------------------------
SessionStep(u) ==
  \/ joinQueue(u) \/ seats(u)
  \/ \E s \in Seat : createHold(u, s)
  \/ \E h \in 1..MaxHolds : renewHold(u, h) \/ releaseHold(u, h) \/ createDraft(u, h) \/ draft(u, h)

HoldsStep(u) ==
  \/ \E S \in SUBSET Seat : createSeatHold(u, S)
  \/ \E h \in 1..MaxHolds :
       \/ releaseSeatHold(u, h) \/ extendSeatHold(u, h)
       \/ createReservationDraft(u, h) \/ endReservationDraft(u, h)
  \/ \E s \in Seat : buyPrimary(u, s)

Next == Tick \/ \E u \in User : SessionStep(u) \/ HoldsStep(u)

Spec == Init /\ [][Next]_vars

-----------------------------------------------------------------------------
(* Properties *)

(* Every record keeps its shape. *)
TypeOK ==
  /\ now \in 0..Horizon
  /\ tickets \in [Seat -> [status : {"ON_SALE", "HELD", "RESERVED", "OWNED"}, heldBy : 0..MaxHolds]]
  /\ seatHolds \in Seq(Hold) /\ Len(seatHolds) <= MaxHolds
  /\ bookingQueues \in [User -> [status : {"READY", "EXPIRED"}, expiresAt : Nat]]
  /\ sessionDrafts \in [1..MaxHolds -> [status : {"NONE", "AWAITING_PAYMENT", "EXPIRED"}, expiresAt : Nat]]
  /\ seen \in [User -> [current : BOOLEAN, selectable : SUBSET Seat]]

(* What the revision is for: as long as it has not moved since a client    *)
(* was shown the seats, no session hold has been made on a seat that the   *)
(* client saw as selectable, so the check of the number in createHold is   *)
(* a check of the seat; and two active session holds never name one seat.  *)
RevisionGuardsViews ==
  /\ \A u \in User : seen[u].current =>
       \A s \in seen[u].selectable : ~ActiveSessionHoldOn(seatHolds, s)
  /\ \A g, h \in DOMAIN seatHolds :
       /\ g # h /\ IsSession(g) /\ IsSession(h)
       /\ seatHolds[g].status = "ACTIVE" /\ seatHolds[h].status = "ACTIVE"
       => seatHolds[g].seats # seatHolds[h].seats

(* Two modules write the same hold records.  Whichever of them is asked,   *)
(* and in whatever order, a hold or draft that has ended stays ended, and  *)
(* a hold that has run out is not prolonged.                               *)
EndedHoldsStayEnded ==
  [][/\ \A h \in DOMAIN seatHolds :
          /\ seatHolds[h].status # "ACTIVE" => seatHolds'[h] = seatHolds[h]
          /\ Due(h) => seatHolds'[h].expiresAt = seatHolds[h].expiresAt
     /\ \A h \in 1..MaxHolds : sessionDrafts[h].status = "EXPIRED" =>
          /\ sessionDrafts'[h].status = "EXPIRED"
          /\ seatHolds[h].status # "ACTIVE"]_vars

(* The claim of a seat before payment is released when its time is up      *)
(* (티켓그라운드 페이지 세부작업 내역서.md:143): once a hold has expired, its *)
(* seats are not kept from sale in its name.                               *)
ExpiredHoldsKeepNoSeat ==
  \A s \in Seat : tickets[s].status = "HELD" => seatHolds[tickets[s].heldBy].status # "EXPIRED"
=============================================================================
