----------------------------- MODULE Watchlist -----------------------------
(***************************************************************************)
(* The events a customer follows and the notices that are due for them     *)
(* (backend/engagement.js, backend/watchlist-contract.js).  The records of *)
(* an event that is taken off the list and put on it again are found again *)
(* by their ids, notices that were cancelled among them; the operator adds *)
(* notices of any type, those of the reminders too.                        *)
(*                                                                         *)
(* The time a notice is due is left out: it follows from the event's date. *)
(***************************************************************************)
EXTENDS Naturals, Sequences, FiniteSets

CONSTANTS
  NULL,
  Watch,          \* pairs of a customer and an event, the ids of the list's items
  Channels,       \* what a customer may choose to be told by
  MaxNotices      \* bound: notices of the operator

VARIABLES
  watchlist,         \* by pair: the item on the list
  notificationJobs   \* all notices, in the order they were made

watchVars == <<watchlist, notificationJobs>>

ReminderTypes == {"BOOKING_D3", "BOOKING_DAY_OF"}

Type == ReminderTypes \cup {"STATUS_CHANGE"}

Status == {"SCHEDULED", "CANCELLED", "SENT"}

Job(w, type, channels, status, byOperator) ==
  [watch |-> w, type |-> type, channels |-> channels, status |-> status,
   byOperator |-> byOperator]

TypeOK ==
  /\ watchlist \in [Watch -> {NULL} \cup
                      [channels : Channels, notificationEnabled : BOOLEAN]]
  /\ notificationJobs \in Seq([watch : Watch, type : Type, channels : Channels,
                               status : Status, byOperator : BOOLEAN])

Init ==
  /\ watchlist = [w \in Watch |-> NULL]
  /\ notificationJobs = << >>

-----------------------------------------------------------------------------
JobsOf(w, type) ==
  {i \in DOMAIN notificationJobs :
     notificationJobs[i].watch = w /\ notificationJobs[i].type = type}

IsFirst(i, w, type) ==
  i \in JobsOf(w, type) /\ \A j \in JobsOf(w, type) : i <= j

(* The first notice of each reminder is scheduled anew unless it was sent. *)
scheduledAgain(w, channels) ==
  [i \in DOMAIN notificationJobs |->
     LET job == notificationJobs[i] IN
     IF \E type \in ReminderTypes : IsFirst(i, w, type)
       THEN [job EXCEPT !.channels = channels,
                        !.status = IF @ = "SENT" THEN @ ELSE "SCHEDULED"]
       ELSE job]

(* A reminder without a notice gets one.                                   *)
missing(w, type, channels) ==
  IF JobsOf(w, type) = {} THEN <<Job(w, type, channels, "SCHEDULED", FALSE)>> ELSE << >>

scheduleWatchlistNotifications(w, channels) ==
  scheduledAgain(w, channels) \o missing(w, "BOOKING_D3", channels)
                              \o missing(w, "BOOKING_DAY_OF", channels)

cancelWatchlistNotifications(w) ==
  [i \in DOMAIN notificationJobs |->
     LET job == notificationJobs[i] IN
     IF job.watch = w /\ job.status = "SCHEDULED"
       THEN [job EXCEPT !.status = "CANCELLED"] ELSE job]

upsertWatchlist(w, channels, enabled) ==
  /\ watchlist' = [watchlist EXCEPT ![w] =
                     [channels |-> channels, notificationEnabled |-> enabled]]
  /\ notificationJobs' = IF enabled THEN scheduleWatchlistNotifications(w, channels)
                                    ELSE cancelWatchlistNotifications(w)

(* Only the notices are switched; the channels stay as they are.           *)
putWatchlistNotification(w, enabled) ==
  /\ watchlist[w] # NULL
  /\ upsertWatchlist(w, watchlist[w].channels, enabled)

removeWatchlist(w) ==
  /\ watchlist[w] # NULL
  /\ watchlist' = [watchlist EXCEPT ![w] = NULL]
  /\ notificationJobs' = cancelWatchlistNotifications(w)

(* The operator's notice, sent at once or scheduled, also to a customer    *)
(* who has switched notices off.                                           *)
notifyWatchlist(w, type, dispatchNow) ==
  /\ watchlist[w] # NULL
  /\ Cardinality({i \in DOMAIN notificationJobs : notificationJobs[i].byOperator})
       < MaxNotices
  /\ notificationJobs' = Append(notificationJobs,
       Job(w, type, watchlist[w].channels,
           IF dispatchNow THEN "SENT" ELSE "SCHEDULED", TRUE))
  /\ UNCHANGED watchlist

Next ==
  \E w \in Watch :
    \/ \E channels \in Channels, enabled \in BOOLEAN :
         upsertWatchlist(w, channels, enabled)
    \/ \E enabled \in BOOLEAN : putWatchlistNotification(w, enabled)
    \/ removeWatchlist(w)
    \/ \E type \in Type, dispatchNow \in BOOLEAN :
         notifyWatchlist(w, type, dispatchNow)

Spec == Init /\ [][Next]_watchVars

-----------------------------------------------------------------------------
(* backend/engagement.js:64-88 and watchlist-contract.js:41-44: nothing is *)
(* due for an event that is off the customer's list, and of an event on    *)
(* it, with notices wanted, each reminder was sent or is due by the        *)
(* channels chosen last - whatever was switched, removed and added again,  *)
(* and whatever notices of the same type the operator added.               *)
NoticesFollowTheList ==
  /\ \A i \in DOMAIN notificationJobs :
       notificationJobs[i].status = "SCHEDULED" =>
         watchlist[notificationJobs[i].watch] # NULL
  /\ \A w \in Watch :
       watchlist[w] # NULL /\ watchlist[w].notificationEnabled =>
         \A type \in ReminderTypes : \E i \in JobsOf(w, type) :
           \/ notificationJobs[i].status = "SENT"
           \/ /\ notificationJobs[i].status = "SCHEDULED"
              /\ notificationJobs[i].channels = watchlist[w].channels

(* backend/engagement.js:84: a notice that was sent is not due again, and  *)
(* no notice is lost.                                                      *)
SentOnce ==
  [][\A i \in DOMAIN notificationJobs :
       /\ i \in DOMAIN notificationJobs'
       /\ notificationJobs[i].status = "SENT" => notificationJobs'[i].status = "SENT"]_watchVars
=============================================================================
