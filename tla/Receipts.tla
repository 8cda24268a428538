------------------------------ MODULE Receipts ------------------------------
(***************************************************************************)
(* What a retry key is worth.  Three runners keep a receipt of a mutation  *)
(* under its key: backend/idempotency.js and mobile-lifecycle.js for ever, *)
(* backend/idempotent-mutation.js for seven days.  Each runs the mutation  *)
(* and writes the receipt in one synchronous step, a mutation that throws  *)
(* leaves none, and the answer waits until the database with both is on    *)
(* disk (http-handler.js, persistence.js).                                 *)
(*                                                                         *)
(* Clients repeat a request whose answer they did not get, also after the  *)
(* server has crashed.                                                     *)
(***************************************************************************)
EXTENDS Naturals, Sequences

CONSTANTS
  Key,                  \* retry keys, each of one user and one kind of mutation
  Payload, Request,
  Retention,            \* how long each key's receipt is kept
  FOREVER,              \* the Retention of the runners that never drop one
  NULL,
  Horizon               \* bound: where the clock of the model stops

VARIABLES
  now,
  db,                   \* in memory: when each key's mutation took effect, and the receipts
  disk,                 \* the last snapshot on disk
  saves,                \* snapshots waiting to be written, with the request that waits
  requests              \* what each request was, and what it answered

vars == <<now, db, disk, saves, requests>>

NoData == [effects |-> [k \in Key |-> <<>>], receipts |-> [k \in Key |-> NULL]]
Unsent == [phase |-> "unsent"]

Init ==
  /\ now = 0
  /\ db = NoData
  /\ disk = NoData
  /\ saves = <<>>
  /\ requests = [r \in Request |-> Unsent]

(* A slip: the receipts that are young are dropped. *)
YoungDropped(receipts) ==
  [k \in Key |-> IF receipts[k] # NULL /\ Retention[k] # FOREVER
                      /\ receipts[k].createdAt + Retention[k] >= now
                 THEN NULL ELSE receipts[k]]
Kept(receipts) ==
  [k \in Key |-> IF receipts[k] # NULL /\ Retention[k] # FOREVER
                      /\ receipts[k].createdAt + Retention[k] < now
                 THEN NULL ELSE receipts[k]]

(* The effect of a mutation is told from others by its place.  A runner    *)
(* that prunes does so for all its keys, whatever key was sent.            *)
Pruned(k) == IF Retention[k] = FOREVER THEN db.receipts ELSE Kept(db.receipts)

Done(r, k, p, response, data) ==
  /\ requests' = [requests EXCEPT ![r] =
       [phase |-> "saving", key |-> k, payload |-> p, response |-> response, at |-> now]]
  /\ db' = data
  /\ saves' = Append(saves, [request |-> r, snapshot |-> data])
  /\ UNCHANGED <<now, disk>>

Replay(r, k, p) ==
  /\ requests[r] = Unsent
  /\ Pruned(k)[k] # NULL
  /\ Pruned(k)[k].payload = p
  /\ Done(r, k, p, Pruned(k)[k].response, [db EXCEPT !.receipts = Pruned(k)])

Mutate(r, k, p) ==
  /\ requests[r] = Unsent
  /\ Pruned(k)[k] = NULL
  /\ LET response == Len(db.effects[k]) + 1
     IN Done(r, k, p, response,
             [effects  |-> [db.effects EXCEPT ![k] = Append(@, now)],
              receipts |-> [Pruned(k) EXCEPT ![k] =
                              [payload |-> p, response |-> response, createdAt |-> now]]])

(* The key was used for another payload, or the mutation throws. *)
Refuse(r, k, p) ==
  /\ requests[r] = Unsent
  /\ Pruned(k)[k] # NULL => Pruned(k)[k].payload # p
  /\ Done(r, k, p, NULL, [db EXCEPT !.receipts = Pruned(k)])

(* A slip: requests are answered as soon as they are done. *)
AnsweredAtOnce(s) ==
  [r \in Request |-> IF \E i \in DOMAIN saves : saves[i].request = r
                     THEN [requests[r] EXCEPT !.phase = "answered"] ELSE requests[r]]
Answered(s) == [requests EXCEPT ![s.request].phase = "answered"]

SaveDone ==
  /\ saves # <<>>
  /\ disk' = Head(saves).snapshot
  /\ saves' = Tail(saves)
  /\ requests' = Answered(Head(saves))
  /\ UNCHANGED <<now, db>>

(* The process ends and starts again. *)
Restart ==
  /\ saves # <<>>
  /\ db' = disk
  /\ saves' = <<>>
  /\ requests' = [r \in Request |-> IF requests[r].phase = "saving" THEN [phase |-> "lost"]
                                    ELSE requests[r]]
  /\ UNCHANGED <<now, disk>>

Tick ==
  /\ now < Horizon
  /\ now' = now + 1
  /\ UNCHANGED <<db, disk, saves, requests>>

Next ==
  \/ \E r \in Request, k \in Key, p \in Payload : Replay(r, k, p) \/ Mutate(r, k, p) \/ Refuse(r, k, p)
  \/ SaveDone \/ Restart \/ Tick

Spec == Init /\ [][Next]_vars

-----------------------------------------------------------------------------
(* Properties *)

Data ==
  [effects : [Key -> Seq(0..Horizon)],
   receipts : [Key -> {NULL} \union [payload : Payload, response : Nat, createdAt : 0..Horizon]]]

TypeOK ==
  /\ now \in 0..Horizon
  /\ db \in Data /\ disk \in Data
  /\ saves \in Seq([request : Request, snapshot : Data])
  /\ requests \in [Request -> {Unsent, [phase |-> "lost"]} \union
       [phase : {"saving", "answered"}, key : Key, payload : Payload,
        response : Nat \union {NULL}, at : 0..Horizon]]

(* However often a request is sent again, in parallel or after a crash,    *)
(* its mutation takes effect once; under a runner that drops receipts,     *)
(* once in each time of retention.                                         *)
EffectsAreSpaced ==
  \A k \in Key : \A i, j \in DOMAIN db.effects[k] :
    i < j => Retention[k] # FOREVER /\ db.effects[k][i] + Retention[k] < db.effects[k][j]

(* Answers that were given to requests of one key within the time of       *)
(* retention are the same, those from before and after a crash included,   *)
(* and what was answered is still in the database.                         *)
AnswersAgree ==
  \A q, r \in Request :
    /\ requests[q].phase = "answered" /\ requests[r].phase = "answered"
    /\ requests[q].response # NULL /\ requests[r].response # NULL
    /\ requests[q].key = requests[r].key
    => /\ requests[q].response \in DOMAIN db.effects[requests[q].key]
       /\ \/ requests[q].response = requests[r].response /\ requests[q].payload = requests[r].payload
          \/ /\ Retention[requests[q].key] # FOREVER
             /\ db.effects[requests[q].key][requests[q].response]
                  # db.effects[requests[q].key][requests[r].response]
=============================================================================
