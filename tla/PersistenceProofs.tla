------------------------- MODULE PersistenceProofs -------------------------
(***************************************************************************)
(* Proofs about Persistence, for any set of requests: its type invariant,  *)
(* that an answered request is durable, that only whole snapshots are      *)
(* promoted, that the database file never goes back, and that the queue    *)
(* and its crashes implement DurableStore.                                 *)
(***************************************************************************)
EXTENDS Persistence, SequenceTheorems, TLAPS

-----------------------------------------------------------------------------
(* The inductive invariant *)

(* The snapshots in the queue are successive states of one growing         *)
(* database: each contains the file and every earlier snapshot, and is     *)
(* contained in the memory of the process.                                 *)
SnapshotChain ==
  /\ process # "down" => disk \subseteq db
  /\ \A i \in 1..Len(saves) :
       /\ disk \subseteq saves[i].snapshot
       /\ saves[i].snapshot \subseteq db
  /\ \A i, j \in 1..Len(saves) : i < j => saves[i].snapshot \subseteq saves[j].snapshot

(* A queued save belongs to the one request that awaits it, or to loadDb. *)
OwnersAwait ==
  /\ \A i \in 1..Len(saves) :
       IF saves[i].by = Boot THEN process = "booting"
                             ELSE phase[saves[i].by] \in {"saving", "failing"}
  /\ \A i, j \in 1..Len(saves) : i # j => saves[i].by # saves[j].by

(* The effects an answer was computed from are in memory, then in the      *)
(* queued snapshot, then in the file.                                      *)
SeenIsCarried ==
  /\ \A r \in Request : phase[r] = "handled" => seen[r] \subseteq db
  /\ \A i \in 1..Len(saves) :
       saves[i].by \in Request /\ phase[saves[i].by] = "saving"
         => seen[saves[i].by] \subseteq saves[i].snapshot
  /\ \A r \in Request : phase[r] \in {"saved", "acked"} => seen[r] \subseteq disk

(* A save is under way only while the queue holds it, and what it is about *)
(* to promote is its own whole snapshot.                                   *)
RunningStep ==
  /\ step # "chmod" => saves # <<>>
  /\ step = "rename" => pending = [whole |-> TRUE, snapshot |-> saves[1].snapshot]

(* Nothing is queued and nobody waits while the process is down, and only  *)
(* loadDb's save is queued while it boots.                                 *)
Quiet ==
  /\ process = "down" => saves = <<>>
  /\ process # "up" => \A r \in Request : phase[r] \in Answered \union {"idle"}

IInv ==
  /\ TypeOK
  /\ SnapshotChain
  /\ OwnersAwait
  /\ SeenIsCarried
  /\ RunningStep
  /\ Quiet

-----------------------------------------------------------------------------
(* The save queue as a sequence *)

LEMMA QueueAppend ==
  ASSUME NEW q \in Seq(Save), NEW e \in Save
  PROVE  /\ Append(q, e) \in Seq(Save)
         /\ Len(Append(q, e)) = Len(q) + 1
         /\ \A i \in 1..Len(q) : Append(q, e)[i] = q[i]
         /\ Append(q, e)[Len(q) + 1] = e
         /\ Append(q, e) # <<>>
  BY AppendProperties

LEMMA QueueTail ==
  ASSUME NEW q \in Seq(Save), q # <<>>
  PROVE  /\ Head(q) = q[1] /\ q[1] \in Save
         /\ Len(q) \in Nat \ {0}
         /\ Tail(q) \in Seq(Save)
         /\ Len(Tail(q)) = Len(q) - 1
         /\ \A i \in 1..Len(Tail(q)) : i + 1 \in 1..Len(q) /\ Tail(q)[i] = q[i + 1]
  BY HeadTailProperties, EmptySeq, ElementOfSeq

-----------------------------------------------------------------------------
(* Initial states *)

LEMMA InitIInv == Init => IInv
  <1> SUFFICES ASSUME Init PROVE IInv
    OBVIOUS
  <1>1. TypeOK
    BY DEF Init, TypeOK, State, Save, Step, Phase, NoFile
  <1>2. Len(saves) = 0
    BY DEF Init
  <1>3. QED
    BY <1>1, <1>2 DEF Init, IInv, SnapshotChain, OwnersAwait, SeenIsCarried,
       RunningStep, Quiet, Answered

-----------------------------------------------------------------------------
(* Steps of a request *)

LEMMA HandleStep ==
  ASSUME IInv, NEW r \in Request, Handle(r)
  PROVE  IInv'
  <1>1. TypeOK'
    BY DEF IInv, TypeOK, Handle, State, Phase
  <1>2. SnapshotChain'
    BY DEF IInv, SnapshotChain, Handle, TypeOK
  <1>3. OwnersAwait'
    BY DEF IInv, OwnersAwait, Handle, TypeOK, Save
  <1>4. SeenIsCarried'
    BY DEF IInv, SeenIsCarried, OwnersAwait, Handle, TypeOK, State, Save
  <1>5. RunningStep' /\ Quiet'
    BY DEF IInv, RunningStep, Quiet, Handle
  <1>6. QED
    BY <1>1, <1>2, <1>3, <1>4, <1>5 DEF IInv

LEMMA ThrowStep ==
  ASSUME IInv, NEW r \in Request, Throw(r)
  PROVE  IInv'
  <1>1. TypeOK'
    BY DEF IInv, TypeOK, Throw, State, Phase
  <1>2. SnapshotChain'
    BY DEF IInv, SnapshotChain, Throw, TypeOK
  <1>3. OwnersAwait'
    BY DEF IInv, OwnersAwait, Throw, TypeOK, Save
  <1>4. SeenIsCarried'
    BY DEF IInv, SeenIsCarried, OwnersAwait, Throw, TypeOK, State, Save
  <1>5. RunningStep' /\ Quiet'
    BY DEF IInv, RunningStep, Quiet, Throw
  <1>6. QED
    BY <1>1, <1>2, <1>3, <1>4, <1>5 DEF IInv

(* Queueing a save for a request that has none in the queue: the snapshot  *)
(* is the memory, which contains all that was snapshotted before.          *)
LEMMA EnqueueStep ==
  ASSUME IInv, NEW r \in Request, NEW next \in {"saving", "failing"},
         process # "down",
         phase[r] \notin {"saving", "failing", "idle"} \union Answered,
         next = "saving" => phase[r] = "handled",
         Enqueue(r), phase' = [phase EXCEPT ![r] = next],
         UNCHANGED <<process, db, step, pending, disk, seen>>
  PROVE  IInv'
  <1> DEFINE e == [by |-> r, snapshot |-> db]
  <1>1. e \in Save /\ saves' = Append(saves, e) /\ saves \in Seq(Save)
    BY DEF IInv, TypeOK, Save, Enqueue
  <1>2. /\ saves' \in Seq(Save)
        /\ Len(saves') = Len(saves) + 1
        /\ \A i \in 1..Len(saves) : saves'[i] = saves[i]
        /\ saves'[Len(saves) + 1] = e
        /\ saves' # <<>>
        /\ Len(saves) \in Nat
    BY <1>1, QueueAppend, LenProperties
  <1>3. \A i \in 1..Len(saves) : saves[i] \in Save
    BY <1>1, ElementOfSeq
  <1>4. \A i \in 1..Len(saves) : saves[i].by # r
    BY BootAssumption DEF IInv, OwnersAwait
  <1> HIDE DEF e
  <1>5. e.by = r /\ e.snapshot = db
    BY DEF e
  <1>6. TypeOK'
    BY <1>2 DEF IInv, TypeOK, Phase
  <1>7. SnapshotChain'
    BY <1>2, <1>5 DEF IInv, SnapshotChain
  <1>8. process' = "up" /\ process = "up"
    BY DEF IInv, Quiet, TypeOK
  <1>9. OwnersAwait'
    <2>1. \A i \in 1..Len(saves)' :
            IF saves'[i].by = Boot THEN process' = "booting"
                                   ELSE phase'[saves'[i].by] \in {"saving", "failing"}
      BY <1>2, <1>3, <1>4, <1>5, <1>8, BootAssumption DEF IInv, OwnersAwait, TypeOK, Save
    <2>2. \A i, j \in 1..Len(saves)' : i # j => saves'[i].by # saves'[j].by
      BY <1>2, <1>4, <1>5 DEF IInv, OwnersAwait
    <2>3. QED
      BY <2>1, <2>2 DEF OwnersAwait
  <1>10. SeenIsCarried'
    <2>1. \A s \in Request : phase'[s] = "handled" => seen'[s] \subseteq db'
      BY DEF IInv, SeenIsCarried, TypeOK
    <2>2. \A i \in 1..Len(saves)' :
            saves'[i].by \in Request /\ phase'[saves'[i].by] = "saving"
              => seen'[saves'[i].by] \subseteq saves'[i].snapshot
      BY <1>2, <1>3, <1>4, <1>5 DEF IInv, SeenIsCarried, TypeOK
    <2>3. \A s \in Request : phase'[s] \in {"saved", "acked"} => seen'[s] \subseteq disk'
      BY DEF IInv, SeenIsCarried, TypeOK
    <2>4. QED
      BY <2>1, <2>2, <2>3 DEF SeenIsCarried
  <1>11. RunningStep'
    <2>1. step = "rename" => saves'[1] = saves[1]
      BY <1>1, <1>2, EmptySeq DEF IInv, RunningStep
    <2>2. QED
      BY <1>2, <2>1 DEF IInv, RunningStep
  <1>12. Quiet'
    BY <1>8 DEF Quiet
  <1>13. QED
    BY <1>6, <1>7, <1>9, <1>10, <1>11, <1>12 DEF IInv

LEMMA RespondStep ==
  ASSUME IInv, NEW r \in Request, Respond(r)
  PROVE  IInv'
  <1>1. CASE SaveResult(r)
    <2>1. process # "down" /\ phase[r] \notin {"saving", "failing", "idle"} \union Answered
      BY <1>1 DEF IInv, Quiet, SaveResult, Answered
    <2>2. QED
      BY <1>1, <2>1, EnqueueStep DEF SaveResult
  <1>2. CASE SaveAfterError(r)
    <2>1. process # "down" /\ phase[r] \notin {"saving", "failing", "idle"} \union Answered
      BY <1>2 DEF IInv, Quiet, SaveAfterError, Answered
    <2>2. QED
      BY <1>2, <2>1, EnqueueStep DEF SaveAfterError
  <1>3. CASE Reply(r)
    <2>1. TypeOK'
      BY <1>3 DEF IInv, TypeOK, Reply, Phase, Answered
    <2>2. SnapshotChain' /\ RunningStep'
      BY <1>3 DEF IInv, SnapshotChain, RunningStep, Reply
    <2>3. OwnersAwait'
      BY <1>3 DEF IInv, OwnersAwait, TypeOK, Reply
    <2>4. SeenIsCarried'
      BY <1>3 DEF IInv, SeenIsCarried, TypeOK, Reply
    <2>5. Quiet'
      BY <1>3 DEF IInv, Quiet, TypeOK, Reply, Answered
    <2>6. QED
      BY <2>1, <2>2, <2>3, <2>4, <2>5 DEF IInv
  <1>4. QED
    BY <1>1, <1>2, <1>3 DEF Respond

-----------------------------------------------------------------------------
(* Steps of the running save *)

LEMMA WriteStep ==
  ASSUME IInv, Chmod \/ BeginWrite \/ EndWrite
  PROVE  IInv'
  <1>1. saves # <<>> /\ saves \in Seq(Save) /\ Head(saves) = saves[1] /\ saves[1] \in Save
    <2>1. saves # <<>> /\ saves \in Seq(Save)
      BY DEF IInv, TypeOK, Chmod, BeginWrite, EndWrite, Running
    <2>2. QED
      BY <2>1, QueueTail
  <1>2. /\ UNCHANGED <<process, db, saves, disk, phase, seen>>
        /\ step' # "rename" \/ pending' = [whole |-> TRUE, snapshot |-> saves[1].snapshot]
    BY <1>1 DEF Chmod, BeginWrite, EndWrite
  <1>3. TypeOK'
    <2>1. pending' \in [whole : BOOLEAN, snapshot : State]
      <3>1. saves[1].snapshot \in State
        BY <1>1 DEF Save
      <3>2. CASE Chmod
        BY <3>2 DEF IInv, TypeOK, Chmod
      <3>3. CASE BeginWrite
        BY <3>3 DEF BeginWrite, NoFile, State
      <3>4. CASE EndWrite
        BY <1>1, <3>1, <3>4 DEF EndWrite
      <3>5. QED
        BY <3>2, <3>3, <3>4
    <2>2. step' \in Step
      BY DEF Chmod, BeginWrite, EndWrite, Step
    <2>3. QED
      BY <1>2, <2>1, <2>2 DEF IInv, TypeOK
  <1>4. SnapshotChain' /\ OwnersAwait' /\ SeenIsCarried' /\ Quiet'
    BY <1>2 DEF IInv, SnapshotChain, OwnersAwait, SeenIsCarried, Quiet
  <1>5. RunningStep'
    BY <1>1, <1>2 DEF RunningStep
  <1>6. QED
    BY <1>3, <1>4, <1>5 DEF IInv

(* The queue advances and its owner is told: it may be told of success     *)
(* only when the file holds its snapshot.                                  *)
LEMMA SettleStep ==
  ASSUME IInv, NEW outcome \in {"saved", "failedToSave"}, Running, Settle(outcome),
         pending' \in {pending, NoFile},
         disk' = IF outcome = "saved" THEN saves[1].snapshot ELSE disk
  PROVE  IInv'
  <1>1. /\ saves \in Seq(Save) /\ saves # <<>>
        /\ Owner = saves[1].by /\ saves[1] \in Save /\ 1 \in 1..Len(saves)
    BY QueueTail DEF IInv, TypeOK, Running, Owner
  <1>2. /\ saves' = Tail(saves) /\ saves' \in Seq(Save)
        /\ Len(saves') = Len(saves) - 1 /\ Len(saves) \in Nat \ {0}
        /\ \A i \in 1..Len(saves') :
              /\ i + 1 \in 1..Len(saves) /\ saves'[i] = saves[i + 1]
              /\ saves'[i] \in Save
    BY <1>1, QueueTail, ElementOfSeq DEF Settle
  <1>3. /\ disk \subseteq disk' /\ process # "down" /\ disk' \subseteq db
        /\ \A i \in 1..Len(saves') : disk' \subseteq saves'[i].snapshot
    BY <1>1, <1>2 DEF IInv, SnapshotChain, Quiet
  <1>4. UNCHANGED <<db, seen>> /\ step' = "chmod"
    BY DEF Settle
  <1>5. \A i \in 1..Len(saves') : saves'[i].by # Owner
    BY <1>1, <1>2 DEF IInv, OwnersAwait
  <1>6. SnapshotChain'
    BY <1>2, <1>3, <1>4 DEF IInv, SnapshotChain
  <1>11. /\ pending' \in [whole : BOOLEAN, snapshot : State]
         /\ disk' \in State
    <2>1. saves[1].snapshot \in State
      BY <1>1 DEF Save
    <2>2. disk' \in State
      BY <2>1 DEF IInv, TypeOK
    <2>3. NoFile \in [whole : BOOLEAN, snapshot : State]
      BY DEF NoFile, State
    <2>4. QED
      BY <2>2, <2>3 DEF IInv, TypeOK
  <1>7. RunningStep'
    BY <1>4 DEF RunningStep
  <1>8. CASE Owner = Boot
    <2>1. UNCHANGED phase /\ process = "booting" /\ process' \in {"up", "down"}
      BY <1>1, <1>8 DEF Settle, AfterSave, IInv, OwnersAwait
    <2>2. Len(saves') = 0
      <3>1. SUFFICES ASSUME 1 \in 1..Len(saves') PROVE FALSE
        BY <1>2
      <3>2. saves'[1].by = Boot
        <4>1. 2 \in 1..Len(saves) /\ saves'[1] = saves[2] /\ saves'[1] \in Save
          BY <1>2, <3>1
        <4>2. saves[2].by \in Request => phase[saves[2].by] \notin {"saving", "failing"}
          BY <2>1 DEF IInv, Quiet, Answered
        <4>3. QED
          BY <4>1, <4>2 DEF IInv, OwnersAwait, Save
      <3>3. QED
        BY <1>5, <1>8, <3>1, <3>2
    <2>3. saves' = <<>>
      BY <1>2, <2>2, EmptySeq
    <2>4. TypeOK'
      BY <1>2, <1>4, <1>11, <2>1 DEF IInv, TypeOK, Step
    <2>5. 1..Len(saves') = {}
      BY <2>2
    <2>6. OwnersAwait'
      BY <2>5 DEF OwnersAwait
    <2>7. SeenIsCarried'
      BY <1>3, <1>4, <2>1, <2>5 DEF IInv, SeenIsCarried
    <2>8. Quiet'
      BY <2>1, <2>3 DEF IInv, Quiet, Answered
    <2>9. QED
      BY <1>6, <1>7, <2>4, <2>6, <2>7, <2>8 DEF IInv
  <1>9. CASE Owner # Boot
    <2>1. /\ Owner \in Request /\ UNCHANGED process /\ process = "up"
          /\ phase[Owner] \in {"saving", "failing"}
      BY <1>1, <1>9 DEF IInv, OwnersAwait, Quiet, Save, Settle, AfterSave, TypeOK, Answered
    <2>2. /\ \A r \in Request \ {Owner} : phase'[r] = phase[r]
          /\ phase'[Owner] \in {"saved", "failedToSave", "failed"}
          /\ phase'[Owner] = "saved" => outcome = "saved" /\ phase[Owner] = "saving"
          /\ phase' \in [Request -> Phase]
      BY <1>9, <2>1 DEF IInv, TypeOK, Settle, AfterSave, Phase, Answered
    <2>3. TypeOK'
      BY <1>2, <1>4, <1>11, <2>1, <2>2 DEF IInv, TypeOK, Step
    <2>4. OwnersAwait'
      <3>1. \A i \in 1..Len(saves') : saves'[i].by # Boot
        BY <1>2, <2>1 DEF IInv, OwnersAwait
      <3>2. \A i \in 1..Len(saves') : phase'[saves'[i].by] \in {"saving", "failing"}
        <4> SUFFICES ASSUME NEW i \in 1..Len(saves')
                     PROVE  phase'[saves'[i].by] \in {"saving", "failing"}
          OBVIOUS
        <4>1. saves'[i].by \in Request \ {Owner}
          BY <1>2, <1>5, <3>1 DEF Save
        <4>2. phase[saves'[i].by] \in {"saving", "failing"}
          BY <1>2, <3>1 DEF IInv, OwnersAwait
        <4>3. QED
          BY <2>2, <4>1, <4>2
      <3>3. \A i, j \in 1..Len(saves') : i # j => saves'[i].by # saves'[j].by
        BY <1>2 DEF IInv, OwnersAwait
      <3>4. QED
        BY <3>1, <3>2, <3>3 DEF OwnersAwait
    <2>5. SeenIsCarried'
      <3>1. \A r \in Request : phase'[r] = "handled" => seen'[r] \subseteq db'
        BY <1>4, <2>2 DEF IInv, SeenIsCarried
      <3>2. \A i \in 1..Len(saves') :
              saves'[i].by \in Request /\ phase'[saves'[i].by] = "saving"
                => seen'[saves'[i].by] \subseteq saves'[i].snapshot
        BY <1>2, <1>4, <1>5, <2>2 DEF IInv, SeenIsCarried
      <3>3. \A r \in Request \ {Owner} :
              phase'[r] \in {"saved", "acked"} => seen'[r] \subseteq disk'
        BY <1>3, <1>4, <2>2 DEF IInv, SeenIsCarried
      <3>4. phase'[Owner] \in {"saved", "acked"} => seen'[Owner] \subseteq disk'
        BY <1>1, <1>4, <2>1, <2>2 DEF IInv, SeenIsCarried
      <3>5. QED
        BY <3>1, <3>2, <3>3, <3>4 DEF SeenIsCarried
    <2>6. Quiet'
      BY <2>1 DEF Quiet
    <2>7. QED
      BY <1>6, <1>7, <2>3, <2>4, <2>5, <2>6 DEF IInv
  <1>10. QED
    BY <1>8, <1>9

LEMMA RenameStep ==
  ASSUME IInv, Rename
  PROVE  IInv'
  <1>1. disk' = saves[1].snapshot
    BY DEF IInv, RunningStep, Rename
  <1>2. QED
    BY <1>1, SettleStep DEF Rename

LEMMA FailSaveStep ==
  ASSUME IInv, FailSave
  PROVE  IInv'
  BY SettleStep DEF FailSave

-----------------------------------------------------------------------------
(* Steps of the process *)

LEMMA CrashStep ==
  ASSUME IInv, Crash
  PROVE  IInv'
  <1>1. \A i \in 1..Len(saves') : FALSE
    BY DEF Crash
  <1>2. \A r \in Request : /\ phase'[r] \in Answered \union {"idle"}
                          /\ phase'[r] = "acked" => phase[r] = "acked"
    BY DEF Crash, Answered
  <1>3. TypeOK'
    BY DEF IInv, TypeOK, Crash, State, Save, Step, Phase, Answered
  <1>4. SnapshotChain'
    BY <1>1 DEF SnapshotChain, Crash
  <1>8. OwnersAwait'
    BY <1>1 DEF OwnersAwait
  <1>9. step' = "chmod" /\ saves' = <<>>
    BY DEF Crash
  <1>7. RunningStep'
    BY <1>9 DEF RunningStep
  <1>10. Quiet'
    <2>1. \A r \in Request : phase'[r] \in Answered \union {"idle"}
      BY DEF Crash, Answered
    <2>2. QED
      BY <1>9, <2>1 DEF Quiet, Answered
  <1>5. SeenIsCarried'
    BY <1>1, <1>2 DEF IInv, SeenIsCarried, Crash, Answered
  <1>6. QED
    BY <1>3, <1>4, <1>5, <1>7, <1>8, <1>10 DEF IInv

LEMMA LoadDbStep ==
  ASSUME IInv, LoadDb
  PROVE  IInv'
  <1>1. \A r \in Request : phase'[r] = phase[r] /\ phase[r] \in Answered \union {"idle"}
    BY DEF LoadDb, IInv, Quiet
  <1>2. saves = <<>> /\ Len(saves) = 0 /\ step = "chmod"
    BY DEF LoadDb, IInv, Quiet, RunningStep
  <1>3. CASE process' = "up" /\ UNCHANGED saves
    BY <1>1, <1>2, <1>3 DEF IInv, TypeOK, SnapshotChain, OwnersAwait, SeenIsCarried,
       RunningStep, Quiet, LoadDb, Answered
  <1>4. CASE process' = "booting" /\ saves' = <<[by |-> Boot, snapshot |-> disk]>>
    <2>1. /\ saves' \in Seq(Save) /\ Len(saves') = 1
          /\ saves'[1] = [by |-> Boot, snapshot |-> disk]
      BY <1>4 DEF Save, IInv, TypeOK
    <2>2. TypeOK'
      BY <1>4, <2>1 DEF IInv, TypeOK, LoadDb
    <2>3. SnapshotChain' /\ OwnersAwait' /\ Quiet'
      BY <1>1, <1>4, <2>1 DEF SnapshotChain, OwnersAwait, Quiet, LoadDb
    <2>4. SeenIsCarried' /\ RunningStep'
      BY <1>1, <1>2, <1>4, <2>1, BootAssumption DEF IInv, SeenIsCarried, RunningStep, LoadDb, Answered
    <2>5. QED
      BY <2>2, <2>3, <2>4 DEF IInv
  <1>5. QED
    BY <1>3, <1>4 DEF LoadDb

-----------------------------------------------------------------------------
(* The inductive invariant holds *)

LEMMA NextIInv ==
  ASSUME IInv, [Next]_vars
  PROVE  IInv'
  <1>1. ASSUME NEW r \in Request, Handle(r) PROVE IInv'
    BY <1>1, HandleStep
  <1>2. ASSUME NEW r \in Request, Throw(r) PROVE IInv'
    BY <1>2, ThrowStep
  <1>3. ASSUME NEW r \in Request, Respond(r) PROVE IInv'
    BY <1>3, RespondStep
  <1>4. CASE FileStep
    BY <1>4, WriteStep, RenameStep DEF FileStep
  <1>5. CASE FailSave
    BY <1>5, FailSaveStep
  <1>6. CASE Crash
    BY <1>6, CrashStep
  <1>7. CASE LoadDb
    BY <1>7, LoadDbStep
  <1>8. CASE UNCHANGED vars
    BY <1>8 DEF vars, IInv, TypeOK, SnapshotChain, OwnersAwait, SeenIsCarried, RunningStep, Quiet
  <1>9. QED
    BY <1>1, <1>2, <1>3, <1>4, <1>5, <1>6, <1>7, <1>8 DEF Next

THEOREM SpecIInv == Spec => []IInv
  BY InitIInv, NextIInv, PTL DEF Spec

(* The save queue, the files and the requests keep their shapes. *)
THEOREM TypeCorrect == Spec => []TypeOK
  BY SpecIInv, PTL DEF IInv

(* handleRequest never answers 200 before everything the answer was        *)
(* computed from is in the database file.                                  *)
THEOREM AckedAreDurable == Spec => []AckedIsDurable
  <1>1. IInv => AckedIsDurable
    BY DEF IInv, SeenIsCarried, AckedIsDurable
  <1>2. QED
    BY <1>1, SpecIInv, PTL

(* saveDb renames only the whole snapshot of the save whose turn it is. *)
THEOREM PromotesWholeSnapshots == Spec => []OnlyWholeSnapshotsPromoted
  <1>1. IInv => OnlyWholeSnapshotsPromoted
    <2> SUFFICES ASSUME IInv, step = "rename"
                 PROVE  pending = [whole |-> TRUE, snapshot |-> Head(saves).snapshot]
      BY DEF OnlyWholeSnapshotsPromoted
    <2>1. saves # <<>> /\ saves \in Seq(Save)
      BY DEF IInv, RunningStep, TypeOK
    <2>2. Head(saves) = saves[1]
      BY <2>1, QueueTail
    <2>3. QED
      BY <2>2 DEF IInv, RunningStep
  <1>2. QED
    BY <1>1, SpecIInv, PTL

(* Only a rename changes the file, and it promotes a snapshot that contains it. *)
LEMMA DiskGrows ==
  ASSUME IInv, [Next]_vars
  PROVE  /\ disk \subseteq disk'
         /\ disk' # disk => process # "down" /\ disk' \subseteq db /\ Rename
  <1>1. CASE Rename
    <2>1. saves # <<>> /\ saves \in Seq(Save) /\ disk' = saves[1].snapshot
      BY <1>1 DEF IInv, TypeOK, RunningStep, Rename, Running
    <2>2. 1 \in 1..Len(saves)
      BY <2>1, EmptySeq
    <2>3. QED
      BY <1>1, <2>1, <2>2 DEF IInv, SnapshotChain, Quiet
  <1>2. CASE ~Rename
    <2>1. disk' = disk
      BY <1>2 DEF Next, vars, Handle, Throw, Respond, SaveResult, SaveAfterError, Reply,
         FileStep, Chmod, BeginWrite, EndWrite, FailSave, Crash, LoadDb
    <2>2. QED
      BY <2>1
  <1>3. QED
    BY <1>1, <1>2

(* No failed, delayed or interrupted save takes an effect off the disk. *)
THEOREM DiskMonotone == Spec => DiskNeverRegresses
  <1>1. IInv /\ [Next]_vars => [disk \subseteq disk']_disk
    BY DiskGrows
  <1>2. QED
    BY <1>1, SpecIInv, PTL DEF Spec, DiskNeverRegresses

-----------------------------------------------------------------------------
(* Persistence implements DurableStore *)

LEMMA RequestStepImplements ==
  ASSUME IInv, NEW r \in Request, Handle(r) \/ Throw(r) \/ Respond(r)
  PROVE  [Store!Next]_Store!vars
  <1>1. CASE Handle(r)
    <2>1. Store!Execute(r)
      BY <1>1 DEF Handle, Store!Execute, IInv, TypeOK
    <2>2. QED
      BY <2>1 DEF Store!Next
  <1>2. CASE Throw(r)
    <2>1. Store!Execute(r)
      BY <1>2 DEF Throw, Store!Execute, IInv, TypeOK
    <2>2. QED
      BY <2>1 DEF Store!Next
  <1>3. CASE SaveResult(r) \/ SaveAfterError(r)
    <2>1. \A s \in Request : phase'[s] = "acked" <=> phase[s] = "acked"
      BY <1>3 DEF SaveResult, SaveAfterError, IInv, TypeOK
    <2>2. UNCHANGED <<process, db, disk, seen>>
      BY <1>3 DEF SaveResult, SaveAfterError
    <2>3. QED
      BY <2>1, <2>2 DEF Store!vars
  <1>4. CASE Reply(r)
    <2>1. seen[r] \subseteq disk
      BY <1>4 DEF Reply, IInv, SeenIsCarried
    <2>2. {s \in Request : phase'[s] = "acked"} = {s \in Request : phase[s] = "acked"} \union {r}
      BY <1>4 DEF Reply, IInv, TypeOK
    <2>3. Store!Answer(r)
      BY <1>4, <2>1, <2>2 DEF Reply, Store!Answer
    <2>4. QED
      BY <2>3 DEF Store!Next
  <1>5. QED
    BY <1>1, <1>2, <1>3, <1>4 DEF Respond

(* Whoever is told of the outcome of a save is not answered by it. *)
LEMMA SettleAnswersNobody ==
  ASSUME IInv, Running, NEW outcome \in {"saved", "failedToSave"}, Settle(outcome)
  PROVE  /\ \A s \in Request : phase'[s] = "acked" <=> phase[s] = "acked"
         /\ process # "down" /\ (process' = "down" => outcome = "failedToSave")
         /\ UNCHANGED <<db, seen>>
  <1>1. saves # <<>> /\ Owner = saves[1].by /\ 1 \in 1..Len(saves)
    BY QueueTail DEF IInv, TypeOK, Running, Owner
  <1>2. process # "down" /\ UNCHANGED <<db, seen>>
    BY <1>1 DEF IInv, Quiet, Settle
  <1>3. CASE Owner = Boot
    BY <1>2, <1>3 DEF Settle, AfterSave
  <1>4. CASE Owner # Boot
    <2>1. phase[Owner] \in {"saving", "failing"}
      BY <1>1, <1>4 DEF IInv, OwnersAwait
    <2>2. QED
      BY <1>2, <1>4, <2>1 DEF Settle, AfterSave, IInv, TypeOK
  <1>5. QED
    BY <1>3, <1>4

LEMMA StepImplements ==
  ASSUME IInv, [Next]_vars
  PROVE  [Store!Next]_Store!vars
  <1>1. ASSUME NEW r \in Request, Handle(r) \/ Throw(r) \/ Respond(r)
        PROVE  [Store!Next]_Store!vars
    BY <1>1, RequestStepImplements
  <1>2. CASE Chmod \/ BeginWrite \/ EndWrite
    BY <1>2 DEF Chmod, BeginWrite, EndWrite, Store!vars
  <1>3. CASE Rename
    <2>1. /\ \A s \in Request : phase'[s] = "acked" <=> phase[s] = "acked"
          /\ process # "down" /\ process' # "down" /\ UNCHANGED <<db, seen>>
      BY <1>3, SettleAnswersNobody DEF Rename
    <2>2. disk \subseteq disk' /\ (disk' # disk => disk' \subseteq db)
      BY DiskGrows
    <2>3. CASE disk' = disk
      BY <2>1, <2>3 DEF Store!vars
    <2>4. CASE disk' # disk
      <3>1. Store!Commit
        BY <2>1, <2>2, <2>4 DEF Store!Commit
      <3>2. QED
        BY <3>1 DEF Store!Next
    <2>5. QED
      BY <2>3, <2>4
  <1>4. CASE FailSave
    <2>1. /\ \A s \in Request : phase'[s] = "acked" <=> phase[s] = "acked"
          /\ process # "down" /\ UNCHANGED <<db, seen, disk>>
      BY <1>4, SettleAnswersNobody DEF FailSave
    <2>2. CASE process' = "down"
      <3>1. Store!Crash
        BY <2>1, <2>2 DEF Store!Crash
      <3>2. QED
        BY <3>1 DEF Store!Next
    <2>3. CASE process' # "down"
      BY <2>1, <2>3 DEF Store!vars
    <2>4. QED
      BY <2>2, <2>3
  <1>5. CASE Crash
    <2>1. \A s \in Request : phase'[s] = "acked" <=> phase[s] = "acked"
      BY <1>5 DEF Crash, Answered
    <2>2. Store!Crash
      BY <1>5, <2>1 DEF Crash, Store!Crash
    <2>3. QED
      BY <2>2 DEF Store!Next
  <1>6. CASE LoadDb
    BY <1>6 DEF LoadDb, Store!vars
  <1>7. CASE UNCHANGED vars
    BY <1>7 DEF vars, Store!vars
  <1>8. QED
    BY <1>1, <1>2, <1>3, <1>4, <1>5, <1>6, <1>7 DEF Next, FileStep

(* The file, the save queue and the crashes of the process implement the   *)
(* durable store: a client answered 200 loses nothing to a crash.          *)
THEOREM StoreImplemented == Spec => ImplementsDurableStore
  <1>1. Init => Store!Init
    BY DEF Init, Store!Init
  <1>2. IInv /\ [Next]_vars => [Store!Next]_Store!vars
    BY StepImplements
  <1>3. QED
    BY <1>1, <1>2, SpecIInv, PTL DEF Spec, ImplementsDurableStore, Store!Spec
=============================================================================
