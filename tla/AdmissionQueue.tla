--------------------------- MODULE AdmissionQueue ---------------------------
(***************************************************************************)
(* The admission queue of one performance (backend/booking-holds.js):      *)
(* enterQueue, getQueueEntry and leaveQueue on db.queueEntries.  Nothing   *)
(* runs the queue; every request reconciles it first: admissions past      *)
(* their time end, and who waits takes the free slots in the order of      *)
(* entering.                                                               *)
(*                                                                         *)
(* Entries that have ended are left out: nothing but a read of the entry   *)
(* itself looks at them again, and a user has at most one other entry.     *)
(* Times are kept as far as the code compares them: what is left of an     *)
(* admission, and the rank of the times of entering, so that the queue     *)
(* may run for ever.                                                       *)
(***************************************************************************)
EXTENDS Integers, Sequences, FiniteSets

CONSTANTS
  User,
  QUEUE_ADMIT_CONCURRENCY,      \* users admitted at once (50)
  QUEUE_ADMISSION_WINDOW        \* ticks an admission lasts (10 minutes)

VARIABLES
  now,          \* the rank of the time among the times of entering
  waiting,      \* WAITING entries in the order of the array
  admitted,     \* users with an ADMITTED entry
  left          \* time left of each admission; 0 is past

vars == <<now, waiting, admitted, left>>

Users(w) == {w[i].userId : i \in DOMAIN w}

Init ==
  /\ now = 0
  /\ waiting = <<>>
  /\ admitted = {}
  /\ left = [u \in User |-> 0]

-----------------------------------------------------------------------------
(* Entries are pushed with the time of the request, so the array is in     *)
(* the order of enteredAt and the stable sort of the code leaves it so.    *)
Times(w) == {w[i].enteredAt : i \in DOMAIN w}

Rank(w, t) == Cardinality({x \in Times(w) : x < t})

(* A slip: admissions end only when their user leaves. *)
AdmittedForEver == admitted

StillAdmitted == {u \in admitted : left[u] > 0}

freeSlots(still) == QUEUE_ADMIT_CONCURRENCY - Cardinality(still)

(* reconcileQueue, on the entries once the request has changed them. *)
Reconcile(w, still) ==
  LET free == freeSlots(still)
      n    == IF free >= Len(w) THEN Len(w) ELSE IF free > 0 THEN free ELSE 0
      new  == {w[i].userId : i \in 1..n}
      rest == SubSeq(w, n + 1, Len(w))
  IN /\ admitted' = still \union new
     /\ left' = [u \in User |-> IF u \in new THEN QUEUE_ADMISSION_WINDOW
                                ELSE IF u \in still THEN left[u] ELSE 0]
     /\ waiting' = [i \in DOMAIN rest |-> [rest[i] EXCEPT !.enteredAt = Rank(rest, @)]]
     /\ now' = Rank(rest, now)

(* A waiting or admitted entry of the user is used again, also one whose   *)
(* admission is past and ends in this very request.                        *)
enterQueue(u) ==
  Reconcile(IF u \in admitted \union Users(waiting) THEN waiting
            ELSE Append(waiting, [userId |-> u, enteredAt |-> now]),
            StillAdmitted)

getQueueEntry(u) ==
  /\ u \in admitted \union Users(waiting)
  /\ Reconcile(waiting, StillAdmitted)

leaveQueue(u) ==
  /\ u \in admitted \union Users(waiting)
  /\ LET Stays(entry) == entry.userId # u
     IN Reconcile(SelectSeq(waiting, Stays), StillAdmitted \ {u})

Tick ==
  /\ \E u \in admitted : left[u] > 0
     \/ now \in Times(waiting)
  /\ left' = [u \in User |-> IF left[u] > 0 THEN left[u] - 1 ELSE 0]
  /\ now' = IF now \in Times(waiting) THEN now + 1 ELSE now
  /\ UNCHANGED <<waiting, admitted>>

EntryOf(u) == CHOOSE i \in DOMAIN waiting : waiting[i].userId = u

(* The position shown to a waiting user: one more than the entries that    *)
(* entered at a strictly earlier time.                                     *)
queuePosition(u) ==
  Cardinality({j \in DOMAIN waiting : waiting[j].enteredAt < waiting[EntryOf(u)].enteredAt}) + 1

Next == Tick \/ \E u \in User : enterQueue(u) \/ getQueueEntry(u) \/ leaveQueue(u)

Spec == Init /\ [][Next]_vars

-----------------------------------------------------------------------------
(* Properties *)

TypeOK ==
  /\ now \in Nat
  /\ waiting \in Seq([userId : User, enteredAt : Nat])
  /\ admitted \subseteq User
  /\ left \in [User -> 0..QUEUE_ADMISSION_WINDOW]

(* Never more users are admitted than there are slots, expired ones that   *)
(* nobody has noticed included, and no user has two entries.               *)
SlotsBounded ==
  /\ Cardinality(admitted) <= QUEUE_ADMIT_CONCURRENCY
  /\ admitted \intersect Users(waiting) = {}
  /\ \A i, j \in DOMAIN waiting : waiting[i].userId = waiting[j].userId => i = j

(* However users come, leave and are admitted, and although users of one   *)
(* instant share a position, the position a waiting user sees never grows. *)
PositionNeverGrows ==
  [][\A u \in Users(waiting) \intersect Users(waiting') :
       queuePosition(u)' <= queuePosition(u)]_vars

(* Nobody ahead has to come back: a user who keeps asking is admitted, or  *)
(* leaves, although those admitted before never return.                    *)
EveryWaiterIsServed == \A u \in User : u \in Users(waiting) ~> u \notin Users(waiting)
=============================================================================
