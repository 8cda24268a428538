--------------------------- MODULE MCPersistence ---------------------------
(***************************************************************************)
(* The database file and its requests, and what must happen although       *)
(* nobody comes back: the seats of an abandoned hold return, and who waits *)
(* in the admission queue is admitted.  The three share no record; the     *)
(* model runs each alone, and component says which.                        *)
(*                                                                         *)
(* Three requests are enough for a save to be running while a second waits *)
(* and a third handler runs; two would never queue behind a waiting save.  *)
(***************************************************************************)
EXTENDS Persistence, FiniteSets, TLC

CONSTANTS NULL, seat, friday, Customer, Visitor, h1, h2, draft, Waiter

VARIABLES
  component,
  now, bookable, tickets, seatHolds, reservationDrafts,
  queueNow, waiting, admitted, left

seatVars == <<now, bookable, tickets, seatHolds, reservationDrafts>>
queueVars == <<queueNow, waiting, admitted, left>>
allVars == <<component, vars, seatVars, queueVars>>

(* One seat, a customer and a visitor, two holds and a draft. *)
Seats == INSTANCE SeatInventory WITH
  Seat <- {seat}, User <- {Customer, Visitor}, HoldId <- {h1, h2}, DraftId <- {draft},
  Performance <- {friday}, PerformanceOf <- seat :> friday,
  HOLD_TTL <- 1, HOLD_EXTENSION <- 2, HOLD_MAX_EXTENSIONS <- 1, DRAFT_TTL <- 1,
  MAX_HOLD_SEATS <- 2, MAX_GROUP_PURCHASE_SEATS <- 2, Horizon <- 3

(* More waiting users than slots, for admissions of two ticks. *)
Queue == INSTANCE AdmissionQueue WITH
  now <- queueNow, User <- Waiter,
  QUEUE_ADMIT_CONCURRENCY <- 2, QUEUE_ADMISSION_WINDOW <- 2

-----------------------------------------------------------------------------
MCInit ==
  /\ component \in {"requests", "seats", "queue"}
  /\ Init
  /\ Seats!Init /\ (component # "seats" => ~bookable)
  /\ Queue!Init

InRequests(next) == component = "requests" /\ next /\ UNCHANGED <<component, seatVars, queueVars>>
InSeats(next) == component = "seats" /\ next /\ UNCHANGED <<component, vars, queueVars>>
InQueue(next) == component = "queue" /\ next /\ UNCHANGED <<component, vars, seatVars>>

MCNext == InRequests(Next) \/ InSeats(Seats!Next) \/ InQueue(Queue!Next)

(* No timer watches a hold, an admission or the queue; what the code       *)
(* relies on is that other users come along.  Visitor keeps asking for     *)
(* seats, and who waits in the queue keeps asking for the position (the    *)
(* app has a button for it).  Nobody else does anything in particular.     *)
OthersComeAlong ==
  /\ WF_allVars(InSeats(Seats!Tick))
  /\ WF_allVars(InSeats(\E S \in SUBSET {seat} : Seats!createSeatHold(Visitor, S)))
  /\ WF_allVars(InQueue(Queue!Tick))
  /\ \A u \in Waiter : WF_allVars(InQueue(Queue!getQueueEntry(u)))

MCSpec == MCInit /\ [][MCNext]_allVars /\ Fairness /\ OthersComeAlong

-----------------------------------------------------------------------------
(* A hold can be made as long as the model has an id left. *)
IdLeft == \E h \in {h1, h2} : seatHolds[h].status = "NONE"

(* backend/booking-holds.js:139-158: the seats of an abandoned hold come   *)
(* back; once it is past its time, the next request of any user for any    *)
(* seat ends it, though its own user never returns.                        *)
AbandonedHoldEnds ==
  \A h \in {h1, h2} :
    Seats!DueHold(h) /\ seatHolds[h].userId # Visitor /\ IdLeft ~> ~Seats!DueHold(h)

(* backend/booking-holds.js:32-61: entries are reconciled only when        *)
(* somebody asks.  Never are more users admitted than there are slots, and *)
(* nobody ahead has to come back: a user who keeps asking is admitted, or  *)
(* leaves, although those admitted before never return; and the position a *)
(* waiting user sees never grows.                                          *)
QueueServes ==
  []Queue!SlotsBounded /\ Queue!EveryWaiterIsServed /\ Queue!PositionNeverGrows
=============================================================================
