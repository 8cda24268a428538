---------------------------- MODULE Persistence ----------------------------
(***************************************************************************)
(* The JSON-file database of the backend (backend/persistence.js) and the  *)
(* HTTP handler that saves it before it answers (backend/http-handler.js). *)
(*                                                                         *)
(* One process holds one in-memory database that every request shares.  A  *)
(* handler runs synchronously; when it returns or throws, handleRequest    *)
(* calls saveDb, which serialises the database at once and queues the      *)
(* write.  The queue runs one save at a time: chmod the pending file,      *)
(* write it, rename it over the database.  Any of the three may fail, and  *)
(* the process may die between any two of them.                            *)
(*                                                                         *)
(* A database state is abstracted to the set of requests whose effects it  *)
(* holds, which is all that durability is about.                           *)
(***************************************************************************)
EXTENDS Naturals, Sequences

CONSTANTS
  Request,  \* API requests, each sent once
  Boot      \* the owner of the save that loadDb makes after a migration

ASSUME BootAssumption == Boot \notin Request

VARIABLES
  process,  \* "up", "booting" (loadDb awaits its save) or "down"
  db,       \* the in-memory database
  saves,    \* saveQueue, the running save at its head
  step,     \* the next file operation of the running save
  pending,  \* the file <dbPath>.pending: its content, and whether it is whole
  disk,     \* the file dbPath
  phase,    \* how far each request has come
  seen      \* the database a request's answer was computed from

vars == <<process, db, saves, step, pending, disk, phase, seen>>

State == SUBSET Request
Save == [by : Request \union {Boot}, snapshot : State]
Step == {"chmod", "write", "writing", "rename"}
Answered == {"acked", "failed", "lost"}
Phase == {"idle", "handled", "saving", "saved", "threw", "failing", "failedToSave"}
           \union Answered
NoFile == [whole |-> FALSE, snapshot |-> {}]

(* The database exists and the server listens. *)
Init ==
  /\ process = "up"
  /\ db = {}
  /\ saves = <<>>
  /\ step = "chmod"
  /\ pending = NoFile
  /\ disk = {}
  /\ phase = [r \in Request |-> "idle"]
  /\ seen = [r \in Request |-> {}]

-----------------------------------------------------------------------------
(* handleRequest *)

(* handleApi resolves: the effects of r are in memory and its answer is    *)
(* computed, but handleRequest has not resumed from its await yet.         *)
Handle(r) ==
  /\ process = "up"
  /\ phase[r] = "idle"
  /\ db' = db \union {r}
  /\ seen' = [seen EXCEPT ![r] = db']
  /\ phase' = [phase EXCEPT ![r] = "handled"]
  /\ UNCHANGED <<process, saves, step, pending, disk>>

(* handleApi throws, with some or none of its effects already in memory. *)
Throw(r) ==
  /\ process = "up"
  /\ phase[r] = "idle"
  /\ db' \in {db, db \union {r}}
  /\ phase' = [phase EXCEPT ![r] = "threw"]
  /\ UNCHANGED <<process, saves, step, pending, disk, seen>>

(* saveDb is called: the snapshot is taken now, the write waits its turn.  *)
Enqueue(owner) == saves' = Append(saves, [by |-> owner, snapshot |-> db])

SaveResult(r) ==
  /\ phase[r] = "handled"
  /\ Enqueue(r)
  /\ phase' = [phase EXCEPT ![r] = "saving"]
  /\ UNCHANGED <<process, db, step, pending, disk, seen>>

(* The catch block saves whatever the failed handler left in memory. *)
SaveAfterError(r) ==
  /\ phase[r] \in {"threw", "failedToSave"}
  /\ Enqueue(r)
  /\ phase' = [phase EXCEPT ![r] = "failing"]
  /\ UNCHANGED <<process, db, step, pending, disk, seen>>

(* A slip: the response is sent without awaiting the save. *)
ReplyEarly(r) ==
  /\ phase[r] \in {"saving", "saved"}
  /\ phase' = [phase EXCEPT ![r] = "acked"]
  /\ UNCHANGED <<process, db, saves, step, pending, disk, seen>>

Reply(r) ==
  /\ phase[r] = "saved"
  /\ phase' = [phase EXCEPT ![r] = "acked"]
  /\ UNCHANGED <<process, db, saves, step, pending, disk, seen>>

-----------------------------------------------------------------------------
(* saveDb: the running save *)

Running == saves # <<>>
Owner == Head(saves).by

(* What the owner of the running save does once the save has settled, with *)
(* outcome "saved" or "failedToSave": the save that answers an error       *)
(* answers that error either way.                                          *)
AfterSave(outcome) ==
  IF Owner = Boot
  THEN /\ process' = IF outcome = "saved" THEN "up" ELSE "down"
       /\ UNCHANGED phase
  ELSE /\ phase' = [phase EXCEPT ![Owner] = IF @ = "saving" THEN outcome ELSE "failed"]
       /\ UNCHANGED process

(* A slip: the queue is chained on the save itself, not on save.catch(...), *)
(* so a failed save stops every later one.                                 *)
SettleStuck(outcome) ==
  /\ AfterSave(outcome)
  /\ saves' = IF outcome = "saved" THEN Tail(saves) ELSE saves
  /\ step' = IF outcome = "saved" THEN "chmod" ELSE "stuck"
  /\ UNCHANGED <<db, seen>>

(* The promise settles and the queue moves on, whatever the outcome.       *)
Settle(outcome) ==
  /\ AfterSave(outcome)
  /\ saves' = Tail(saves)
  /\ step' = "chmod"
  /\ UNCHANGED <<db, seen>>

(* chmod of the pending file; ENOENT is not an error. *)
Chmod ==
  /\ Running /\ step = "chmod"
  /\ step' = "write"
  /\ UNCHANGED <<process, db, saves, pending, disk, phase, seen>>

(* A slip: no pending file, the database file itself is rewritten. *)
BeginWriteInPlace ==
  /\ Running /\ step = "write"
  /\ step' = "writing"
  /\ pending' = NoFile
  /\ disk' = {}
  /\ UNCHANGED <<process, db, saves, phase, seen>>

(* A slip: the rename does not await the write. *)
BeginWriteAndRename ==
  /\ Running /\ step = "write"
  /\ step' = "rename"
  /\ pending' = NoFile
  /\ UNCHANGED <<process, db, saves, disk, phase, seen>>

(* writeFile truncates the file, then fills it. *)
BeginWrite ==
  /\ Running /\ step = "write"
  /\ step' = "writing"
  /\ pending' = NoFile
  /\ UNCHANGED <<process, db, saves, disk, phase, seen>>

EndWrite ==
  /\ Running /\ step = "writing"
  /\ step' = "rename"
  /\ pending' = [whole |-> TRUE, snapshot |-> Head(saves).snapshot]
  /\ UNCHANGED <<process, db, saves, disk, phase, seen>>

Rename ==
  /\ Running /\ step = "rename"
  /\ disk' = pending.snapshot
  /\ pending' = NoFile
  /\ Settle("saved")

(* chmod, writeFile or rename rejects: a full disk, a lost permission. *)
FailSave ==
  /\ Running
  /\ UNCHANGED <<pending, disk>>
  /\ Settle("failedToSave")

-----------------------------------------------------------------------------
(* The process *)

(* The process dies: memory, the queue and the open connections are gone,  *)
(* the files stay as they are.                                             *)
Crash ==
  /\ process # "down"
  /\ process' = "down"
  /\ db' = {}
  /\ saves' = <<>>
  /\ step' = "chmod"
  /\ phase' = [r \in Request |->
                 IF phase[r] \in Answered \union {"idle"} THEN phase[r] ELSE "lost"]
  /\ UNCHANGED <<pending, disk, seen>>

(* A slip: the pending file of an interrupted save is taken for newer data. *)
LoadDbFromPending ==
  /\ process = "down"
  /\ db' = pending.snapshot
  /\ process' = "up"
  /\ UNCHANGED <<saves, step, pending, disk, phase, seen>>

(* loadDb: the database file is read, and saved again before the server    *)
(* listens when normalizeDb has migrated it.                               *)
LoadDb ==
  /\ process = "down"
  /\ db' = disk
  /\ \/ /\ process' = "up"
        /\ UNCHANGED saves
     \/ /\ process' = "booting"
        /\ saves' = <<[by |-> Boot, snapshot |-> disk]>>
  /\ UNCHANGED <<step, pending, disk, phase, seen>>

-----------------------------------------------------------------------------
Respond(r) == SaveResult(r) \/ SaveAfterError(r) \/ Reply(r)
FileStep == Chmod \/ BeginWrite \/ EndWrite \/ Rename

Next ==
  \/ \E r \in Request : Handle(r) \/ Throw(r) \/ Respond(r)
  \/ FileStep
  \/ FailSave
  \/ Crash
  \/ LoadDb

(* The event loop resumes every handler whose await has settled, and the   *)
(* file system settles every operation, with success or with an error.     *)
Fairness ==
  /\ \A r \in Request : WF_vars(Respond(r))
  /\ WF_vars(FileStep)

Spec == Init /\ [][Next]_vars /\ Fairness

-----------------------------------------------------------------------------
(* Properties *)

(* Every variable keeps its shape: one owner per queued save, a known file *)
(* operation at its head, the three files holding database states.         *)
TypeOK ==
  /\ process \in {"up", "booting", "down"}
  /\ db \in State
  /\ saves \in Seq(Save)
  /\ step \in Step
  /\ pending \in [whole : BOOLEAN, snapshot : State]
  /\ disk \in State
  /\ phase \in [Request -> Phase]
  /\ seen \in [Request -> State]

(* A client that was answered 200 was told nothing a crash can take back:  *)
(* every effect its answer was computed from, its own and those of other   *)
(* requests it happened to see, is in the database file.                   *)
AckedIsDurable ==
  \A r \in Request : phase[r] = "acked" => seen[r] \subseteq disk

(* Only a completely written snapshot is ever renamed over the database,   *)
(* and it is the snapshot of the save whose turn it is.                    *)
OnlyWholeSnapshotsPromoted ==
  step = "rename" => pending = [whole |-> TRUE, snapshot |-> Head(saves).snapshot]

(* The database file never goes back: no effect once on disk disappears,   *)
(* whatever saves fail, wait or are cut off by a crash.                    *)
DiskNeverRegresses == [][disk \subseteq disk']_disk

(* A request that reached a handler is answered, with success or with an   *)
(* error, unless the process dies: a failed save does not stop the queue.  *)
EveryRequestAnswered ==
  \A r \in Request : phase[r] \in {"handled", "threw"} ~> phase[r] \in Answered

(* The file, its queue and its crashes implement the durable store. *)
Store == INSTANCE DurableStore WITH
  visible <- IF process = "down" THEN disk ELSE db,
  durable <- disk,
  view <- seen,
  answered <- {r \in Request : phase[r] = "acked"}
ImplementsDurableStore == Store!Spec
=============================================================================
