--------------------------- MODULE ServiceProofs ---------------------------
(***************************************************************************)
(* Proofs about the services, and about the clients among them: the        *)
(* scanner of a gate terminal (GateScanner) and the Android app            *)
(* (AppBooking).                                                           *)
(***************************************************************************)
EXTENDS Services, SequenceTheorems, DataTheorems, TLAPS

-----------------------------------------------------------------------------
(* The receipts of retried mutations.                                      *)

(* A database, in memory or in a snapshot: its effects are spaced, a       *)
(* receipt is that of the last effect, and where there is none the last    *)
(* effect is older than the time of retention.                             *)
SpacedIn(d) ==
  \A k \in Key : \A i, j \in DOMAIN d.effects[k] :
    i < j => Retention[k] # NULL /\ d.effects[k][i] + Retention[k] < d.effects[k][j]
ReceiptOfLast(d) ==
  \A k \in Key : d.receipts[k] # NULL =>
    /\ Len(d.effects[k]) > 0
    /\ d.receipts[k].response = Len(d.effects[k])
    /\ d.receipts[k].createdAt = d.effects[k][Len(d.effects[k])]
PrunedInTime(d, t) ==
  \A k \in Key : d.receipts[k] = NULL /\ Len(d.effects[k]) > 0 =>
    Retention[k] # NULL /\ d.effects[k][Len(d.effects[k])] + Retention[k] < t
SoundData(d, t) == SpacedIn(d) /\ ReceiptOfLast(d) /\ PrunedInTime(d, t)

NoLater(d, e) == \A k \in Key : Len(d.effects[k]) <= Len(e.effects[k])

(* The databases there are: in memory, on disk and on the way to it.       *)
RetryData == {db, disk} \union {saves[i].snapshot : i \in DOMAIN saves}

(* Snapshots are written in the order in which they were taken.            *)
SavesInOrder ==
  /\ \A d \in RetryData : NoLater(disk, d) /\ NoLater(d, db)
  /\ \A i, j \in DOMAIN saves : i < j => NoLater(saves[i].snapshot, saves[j].snapshot)

Live(r) == retries[r].phase \in {"saving", "answered"}
Answer(r) == retries[r].response
LiveAnswer(r) == Live(r) /\ Answer(r) # NULL
InData(r, d) == Answer(r) # NULL => Answer(r) \in DOMAIN d.effects[retries[r].key]

(* What a request that is not lost was answered has happened; when the     *)
(* answer was sent it had happened on disk.                                *)
AnswersHappened ==
  /\ \A r \in Retry : Live(r) => InData(r, db)
  /\ \A r \in Retry : retries[r].phase = "answered" => InData(r, disk)
  /\ \A i \in DOMAIN saves : Live(saves[i].request) /\ InData(saves[i].request, saves[i].snapshot)

(* Receipts and answers of one effect tell the same payload, wherever they *)
(* are kept.                                                               *)
SameReceipt(d, e) ==
  \A k \in Key :
    /\ d.receipts[k] # NULL /\ e.receipts[k] # NULL
    /\ d.receipts[k].response = e.receipts[k].response
    => d.receipts[k].payload = e.receipts[k].payload
SamePayload(r, d) ==
  LET k == retries[r].key
  IN LiveAnswer(r) /\ d.receipts[k] # NULL /\ d.receipts[k].response = Answer(r)
       => d.receipts[k].payload = retries[r].payload
SameAnswer(q, r) ==
  /\ LiveAnswer(q) /\ LiveAnswer(r)
  /\ retries[q].key = retries[r].key /\ Answer(q) = Answer(r)
  => retries[q].payload = retries[r].payload
PayloadsAgree ==
  /\ \A d, e \in RetryData : SameReceipt(d, e)
  /\ \A r \in Retry, d \in RetryData : SamePayload(r, d)
  /\ \A q, r \in Retry : SameAnswer(q, r)

RetryIInv ==
  /\ Retries!TypeOK
  /\ \A d \in RetryData : SoundData(d, receiptNow)
  /\ SavesInOrder
  /\ AnswersHappened
  /\ PayloadsAgree

-----------------------------------------------------------------------------
LEMMA RetryInit == ASSUME Retries!Init PROVE RetryIInv
<1> USE ReceiptAssumption
<1>1. Retries!TypeOK
  BY DEF Retries!Init, Retries!TypeOK, Retries!Data, Retries!NoData, Retries!Unsent
<1>2. \A d \in RetryData : d = Retries!NoData
  BY DEF Retries!Init, RetryData
<1>3. \A d \in RetryData : SoundData(d, receiptNow)
  BY <1>2 DEF Retries!NoData, SoundData, SpacedIn, ReceiptOfLast, PrunedInTime
<1>4. SavesInOrder
  BY <1>2 DEF Retries!Init, Retries!NoData, SavesInOrder, NoLater
<1>5. AnswersHappened /\ PayloadsAgree
  BY <1>2 DEF Retries!Init, Retries!NoData, Retries!Unsent, AnswersHappened, PayloadsAgree,
         Live, LiveAnswer, SamePayload, SameAnswer, SameReceipt, InData
<1> QED BY <1>1, <1>3, <1>4, <1>5 DEF RetryIInv

(* A database that is sound stays so when its young receipts are kept.     *)
LEMMA PrunedSound ==
  ASSUME NEW d \in Retries!Data, NEW k \in Key, SoundData(db, receiptNow), db \in Retries!Data,
         receiptNow \in Nat
  PROVE  LET pruned == [db EXCEPT !.receipts = Retries!Pruned(k)]
         IN /\ pruned \in Retries!Data
            /\ SoundData(pruned, receiptNow)
            /\ \A l \in Key : pruned.receipts[l] # NULL => pruned.receipts[l] = db.receipts[l]
<1> USE ReceiptAssumption
<1> DEFINE pruned == [db EXCEPT !.receipts = Retries!Pruned(k)]
<1>1. pruned.effects = db.effects /\ pruned.receipts = Retries!Pruned(k)
  BY DEF Retries!Data
<1>2. Retries!Pruned(k) \in [Key -> {NULL} \union
          [payload : Payload, response : Nat, createdAt : 0..ReceiptHorizon]]
  BY DEF Retries!Data, Retries!Pruned, Retries!Kept
<1>3. \A l \in Key : \/ Retries!Pruned(k)[l] = db.receipts[l]
                     \/ /\ Retries!Pruned(k)[l] = NULL /\ db.receipts[l] # NULL
                        /\ Retention[l] # NULL
                        /\ db.receipts[l].createdAt + Retention[l] < receiptNow
  BY DEF Retries!Data, Retries!Pruned, Retries!Kept
<1>4. pruned \in Retries!Data BY <1>2, Zenon DEF Retries!Data
<1> HIDE DEF pruned
<1>5. SpacedIn(pruned) BY <1>1 DEF SoundData, SpacedIn
<1>6. ReceiptOfLast(pruned) BY <1>1, <1>3 DEF SoundData, ReceiptOfLast
<1>7. PrunedInTime(pruned, receiptNow)
  BY <1>1, <1>3 DEF SoundData, ReceiptOfLast, PrunedInTime
<1> QED BY <1>1, <1>3, <1>4, <1>5, <1>6, <1>7 DEF SoundData, pruned

-----------------------------------------------------------------------------
LEMMA SaveTypes ==
  ASSUME Retries!TypeOK
  PROVE  \A i \in DOMAIN saves : saves[i].request \in Retry /\ saves[i].snapshot \in Retries!Data
<1> DEFINE S == [request : Retry, snapshot : Retries!Data]
<1>1. saves \in Seq(S) BY DEF Retries!TypeOK
<1> HIDE DEF S
<1>2. \A i \in DOMAIN saves : saves[i] \in S BY <1>1
<1> QED BY <1>2 DEF S

(* What a request leaves: the database after it is sound, no effect of it  *)
(* is lost, and its receipts are those before but for one of a new effect. *)
LEMMA RetryDone ==
  ASSUME RetryIInv, NEW r \in Retry, NEW k \in Key, NEW p \in Payload,
         NEW response \in Nat \union {NULL}, NEW data \in Retries!Data,
         retries[r] = Retries!Unsent, Retries!Done(r, k, p, response, data),
         SoundData(data, receiptNow), NoLater(db, data),
         response # NULL => /\ response \in DOMAIN data.effects[k]
                            /\ data.receipts[k] # NULL
                            /\ data.receipts[k].response = response
                            /\ data.receipts[k].payload = p,
         \A l \in Key : data.receipts[l] # NULL =>
            \/ data.receipts[l] = db.receipts[l]
            \/ l = k /\ data.receipts[l].response = response /\ response > Len(db.effects[k])
  PROVE  RetryIInv'
<1> USE ReceiptAssumption
<1>1. Retries!TypeOK'
  BY DEF RetryIInv, Retries!TypeOK, Retries!Done
<1>2. /\ db' = data /\ disk' = disk /\ receiptNow' = receiptNow
      /\ saves' = Append(saves, [request |-> r, snapshot |-> data])
      /\ Len(saves') = Len(saves) + 1 /\ Len(saves) \in Nat
      /\ \A i \in DOMAIN saves : i \in DOMAIN saves' /\ saves'[i] = saves[i]
      /\ saves'[Len(saves')] = [request |-> r, snapshot |-> data]
      /\ DOMAIN saves' = DOMAIN saves \union {Len(saves')}
  BY DEF RetryIInv, Retries!TypeOK, Retries!Done
<1>3. RetryData' \subseteq RetryData \union {data}
  <2>1. {saves'[i].snapshot : i \in DOMAIN saves'} =
          {saves[i].snapshot : i \in DOMAIN saves} \union {data}
    BY <1>2
  <2> QED BY <1>2, <2>1 DEF RetryData
<1>4. \A d \in RetryData : d \in Retries!Data /\ NoLater(d, db)
  <2>1. \A i \in DOMAIN saves : saves[i].snapshot \in Retries!Data
    BY SaveTypes DEF RetryIInv
  <2>2. db \in Retries!Data /\ disk \in Retries!Data
    BY DEF RetryIInv, Retries!TypeOK
  <2>3. RetryData \subseteq Retries!Data BY <2>1, <2>2 DEF RetryData
  <2> QED BY <2>3 DEF RetryIInv, SavesInOrder
<1>5. \A q \in Retry : q # r => retries'[q] = retries[q]
  BY DEF RetryIInv, Retries!TypeOK, Retries!Done
<1>6. /\ retries'[r].phase = "saving" /\ retries'[r].key = k
      /\ retries'[r].payload = p /\ retries'[r].response = response
  BY DEF RetryIInv, Retries!TypeOK, Retries!Done
<1>7. \A q \in Retry : Live(q) => q # r
  BY DEF Live, Retries!Unsent
<1>8. \A d \in RetryData : NoLater(d, data)
  BY <1>4, SMT DEF NoLater, Retries!Data, RetryIInv, Retries!TypeOK
<1>9. \A d \in RetryData' : SoundData(d, receiptNow')
  BY <1>2, <1>3 DEF RetryIInv
<1>10. SavesInOrder'
  <2>1. \A d \in RetryData' : NoLater(disk', d) /\ NoLater(d, db')
    BY <1>2, <1>3, <1>8, SMTT(60) DEF RetryIInv, SavesInOrder, NoLater, RetryData
  <2>2. ASSUME NEW i \in DOMAIN saves', NEW j \in DOMAIN saves', i < j
        PROVE  NoLater(saves'[i].snapshot, saves'[j].snapshot)
    <3>1. i \in DOMAIN saves BY <1>2, <2>2
    <3>2. CASE j \in DOMAIN saves BY <1>2, <2>2, <3>1, <3>2 DEF RetryIInv, SavesInOrder
    <3>3. CASE j = Len(saves') BY <1>2, <1>8, <3>1, <3>3 DEF RetryData
    <3> QED BY <1>2, <3>2, <3>3
  <2> QED BY <2>1, <2>2 DEF SavesInOrder
<1>11. ASSUME NEW q \in Retry, q # r
       PROVE  /\ Live(q)' <=> Live(q)
              /\ LiveAnswer(q)' <=> LiveAnswer(q)
              /\ \A d \in RetryData' : /\ InData(q, d)' <=> InData(q, d)
                                       /\ SamePayload(q, d)' <=> SamePayload(q, d)
  BY <1>5, <1>11 DEF Live, LiveAnswer, InData, SamePayload, Answer
<1>12. AnswersHappened'
  <2>1. ASSUME NEW q \in Retry, Live(q)' PROVE InData(q, db)'
    <3>1. CASE q = r BY <1>2, <1>6, <3>1 DEF InData, Answer
    <3>2. CASE q # r
      <4>1. InData(q, db) /\ (Live(q) => retries[q].key \in Key)
        BY <1>11, <2>1, <3>2 DEF RetryIInv, AnswersHappened, Live, Retries!TypeOK, Retries!Unsent
      <4>2. Len(db.effects[retries[q].key]) <= Len(data.effects[retries[q].key])
        BY <1>11, <2>1, <3>2, <4>1 DEF NoLater
      <4>3. db \in Retries!Data BY DEF RetryIInv, Retries!TypeOK
      <4>4. Answer(q)' = Answer(q) /\ retries'[q].key = retries[q].key
        BY <1>5, <3>2 DEF Answer
      <4>5. retries[q].key \in Key BY <1>11, <2>1, <3>2, <4>1
      <4> QED BY <1>2, <4>1, <4>2, <4>3, <4>4, <4>5 DEF InData, Retries!Data
    <3> QED BY <3>1, <3>2
  <2>2. ASSUME NEW q \in Retry, retries'[q].phase = "answered" PROVE InData(q, disk)'
    <3>1. q # r BY <1>6, <2>2
    <3>2. retries[q].phase = "answered" BY <1>5, <2>2, <3>1
    <3> QED BY <1>2, <1>5, <3>1, <3>2 DEF RetryIInv, AnswersHappened, InData, Answer
  <2>3. ASSUME NEW i \in DOMAIN saves'
        PROVE  Live(saves[i].request)' /\ InData(saves[i].request, saves[i].snapshot)'
    <3>1. CASE i \in DOMAIN saves
      <4>1. saves[i].request \in Retry BY <3>1, SaveTypes DEF RetryIInv
      <4>2. Live(saves[i].request) /\ InData(saves[i].request, saves[i].snapshot)
        BY <3>1 DEF RetryIInv, AnswersHappened
      <4>3. saves'[i] = saves[i] BY <1>2, <3>1
      <4>4. saves[i].request # r BY <1>7, <4>1, <4>2
      <4> QED BY <1>5, <4>1, <4>2, <4>3, <4>4 DEF Live, InData, Answer
    <3>2. CASE i = Len(saves')
      BY <1>2, <1>6, <3>2 DEF Live, InData, Answer
    <3> QED BY <1>2, <3>1, <3>2
  <2> QED BY <2>1, <2>2, <2>3 DEF AnswersHappened
<1>13. \A d, e \in RetryData : SameReceipt(d, e)
  BY DEF RetryIInv, PayloadsAgree
<1>14. db \in RetryData BY DEF RetryData
<1>15. PayloadsAgree'
  <2>1. ASSUME NEW d \in RetryData, NEW l \in Key, d.receipts[l] # NULL,
               data.receipts[l] # NULL, d.receipts[l].response = data.receipts[l].response
        PROVE  d.receipts[l].payload = data.receipts[l].payload
    <3>1. CASE data.receipts[l] = db.receipts[l]
      BY <1>13, <1>14, <2>1, <3>1 DEF SameReceipt
    <3>2. CASE l = k /\ data.receipts[l].response = response /\ response > Len(db.effects[k])
      <4>1. d.receipts[l].response = Len(d.effects[l])
        BY <2>1 DEF RetryIInv, SoundData, ReceiptOfLast
      <4>2. Len(d.effects[l]) <= Len(db.effects[l]) BY <1>4 DEF NoLater
      <4>3. Len(d.effects[l]) \in Nat /\ Len(db.effects[l]) \in Nat
        BY <1>4, <1>14 DEF Retries!Data
      <4>4. response \in Nat BY <2>1, <3>2, <4>1, <4>3
      <4> QED BY <2>1, <3>2, <4>1, <4>2, <4>3, <4>4
    <3> QED BY <2>1, <3>1, <3>2
  <2>2. ASSUME NEW q \in Retry, NEW d \in RetryData' PROVE SamePayload(q, d)'
    <3>1. CASE q # r /\ d \in RetryData
      BY <1>11, <3>1 DEF RetryIInv, PayloadsAgree
    <3>2. CASE q # r /\ d = data
      <4> DEFINE l == retries[q].key
      <4> SUFFICES ASSUME LiveAnswer(q), data.receipts[l] # NULL,
                          data.receipts[l].response = Answer(q)
                   PROVE  data.receipts[l].payload = retries[q].payload
        BY <1>11, <3>2 DEF SamePayload
      <4>1. l \in Key
        BY DEF LiveAnswer, Live, RetryIInv, Retries!TypeOK, Retries!Unsent
      <4>2. CASE data.receipts[l] = db.receipts[l]
        BY <1>14, <4>2 DEF RetryIInv, PayloadsAgree, SamePayload
      <4>3. CASE l = k /\ data.receipts[l].response = response /\ response > Len(db.effects[k])
        <5>1. Answer(q) \in DOMAIN db.effects[l]
          BY DEF RetryIInv, AnswersHappened, InData, LiveAnswer
        <5>2. db.effects[l] \in Seq(0..ReceiptHorizon)
          BY <4>1 DEF RetryIInv, Retries!TypeOK, Retries!Data
        <5> QED BY <4>3, <5>1, <5>2
      <4> QED BY <4>1, <4>2, <4>3
    <3>3. CASE q = r /\ d \in RetryData
      <4> SUFFICES ASSUME response # NULL, d.receipts[k] # NULL, d.receipts[k].response = response
                   PROVE  d.receipts[k].payload = p
        BY <1>6, <3>3 DEF SamePayload, LiveAnswer, Answer
      <4> QED BY <2>1, <3>3
    <3>4. CASE q = r /\ d = data
      BY <1>6, <3>4 DEF SamePayload, LiveAnswer, Answer
    <3> QED BY <1>3, <3>1, <3>2, <3>3, <3>4
  <2>3. ASSUME NEW q \in Retry, q # r, retries[q].key = k, LiveAnswer(q), Answer(q) = response
        PROVE  retries[q].payload = p
    <3>1. response \in DOMAIN db.effects[k]
      BY <2>3 DEF RetryIInv, AnswersHappened, InData, LiveAnswer
    <3>2. db.effects[k] \in Seq(0..ReceiptHorizon)
      BY DEF RetryIInv, Retries!TypeOK, Retries!Data
    <3>3. response <= Len(db.effects[k]) /\ response \in Nat BY <3>1, <3>2
    <3>4. response # NULL BY <2>3 DEF LiveAnswer
    <3>5. data.receipts[k] = db.receipts[k] BY <3>2, <3>3, <3>4
    <3> QED BY <1>14, <2>3, <3>4, <3>5 DEF RetryIInv, PayloadsAgree, SamePayload
  <2>4. ASSUME NEW q \in Retry, NEW s \in Retry PROVE SameAnswer(q, s)'
    <3>1. CASE q # r /\ s # r
      BY <1>5, <1>11, <3>1 DEF RetryIInv, PayloadsAgree, SameAnswer, Answer
    <3>2. CASE q = r /\ s = r BY <3>2 DEF SameAnswer
    <3>3. CASE q # r /\ s = r
      BY <1>5, <1>6, <1>11, <2>3, <3>3 DEF SameAnswer, Answer
    <3>4. CASE q = r /\ s # r
      BY <1>5, <1>6, <1>11, <2>3, <3>4 DEF SameAnswer, Answer
    <3> QED BY <3>1, <3>2, <3>3, <3>4
  <2>5. \A d, e \in RetryData' : SameReceipt(d, e)
    BY <1>3, <1>13, <2>1 DEF SameReceipt
  <2> QED BY <2>2, <2>4, <2>5 DEF PayloadsAgree
<1> QED BY <1>1, <1>9, <1>10, <1>12, <1>15 DEF RetryIInv

(* A request that prunes and writes no receipt of its own. *)
LEMMA RetryPruned ==
  ASSUME RetryIInv, NEW k \in Key
  PROVE  LET data == [db EXCEPT !.receipts = Retries!Pruned(k)]
         IN /\ data \in Retries!Data
            /\ data.effects = db.effects /\ data.receipts = Retries!Pruned(k)
            /\ SoundData(data, receiptNow)
            /\ NoLater(db, data)
            /\ \A l \in Key : data.receipts[l] # NULL => data.receipts[l] = db.receipts[l]
<1> DEFINE data == [db EXCEPT !.receipts = Retries!Pruned(k)]
<1>1. db \in Retries!Data /\ receiptNow \in Nat /\ SoundData(db, receiptNow)
  BY ReceiptAssumption DEF RetryIInv, Retries!TypeOK, RetryData
<1>2. /\ data \in Retries!Data
      /\ SoundData(data, receiptNow)
      /\ \A l \in Key : data.receipts[l] # NULL => data.receipts[l] = db.receipts[l]
  BY <1>1, PrunedSound
<1>3. data.effects = db.effects /\ data.receipts = Retries!Pruned(k)
  BY <1>1 DEF Retries!Data
<1>4. NoLater(db, data) BY <1>1, <1>3 DEF NoLater, Retries!Data
<1> QED BY <1>2, <1>3, <1>4

LEMMA RetryReplay ==
  ASSUME RetryIInv, NEW r \in Retry, NEW k \in Key, NEW p \in Payload, Retries!Replay(r, k, p)
  PROVE  RetryIInv'
<1> DEFINE data == [db EXCEPT !.receipts = Retries!Pruned(k)]
           response == Retries!Pruned(k)[k].response
<1>1. /\ data \in Retries!Data
      /\ data.effects = db.effects /\ data.receipts = Retries!Pruned(k)
      /\ SoundData(data, receiptNow)
      /\ NoLater(db, data)
      /\ \A l \in Key : data.receipts[l] # NULL => data.receipts[l] = db.receipts[l]
  BY RetryPruned
<1>2. /\ retries[r] = Retries!Unsent /\ Retries!Done(r, k, p, response, data)
      /\ data.receipts[k] # NULL /\ data.receipts[k].payload = p
      /\ data.receipts[k].response = response
  BY <1>1 DEF Retries!Replay
<1> HIDE DEF data, response
<1>3. response = Len(data.effects[k]) /\ Len(data.effects[k]) > 0
  BY <1>1, <1>2 DEF SoundData, ReceiptOfLast
<1>4. data.effects[k] \in Seq(0..ReceiptHorizon) BY <1>1 DEF Retries!Data
<1>5. response \in Nat /\ response \in DOMAIN data.effects[k] BY <1>3, <1>4
<1> QED BY <1>1, <1>2, <1>5, RetryDone

LEMMA RetryRefuse ==
  ASSUME RetryIInv, NEW r \in Retry, NEW k \in Key, NEW p \in Payload, Retries!Refuse(r, k, p)
  PROVE  RetryIInv'
<1> DEFINE data == [db EXCEPT !.receipts = Retries!Pruned(k)]
<1>1. /\ data \in Retries!Data
      /\ SoundData(data, receiptNow)
      /\ NoLater(db, data)
      /\ \A l \in Key : data.receipts[l] # NULL => data.receipts[l] = db.receipts[l]
  BY RetryPruned
<1>2. retries[r] = Retries!Unsent /\ Retries!Done(r, k, p, NULL, data)
  BY DEF Retries!Refuse
<1> HIDE DEF data
<1> QED BY <1>1, <1>2, RetryDone, Zenon

LEMMA Appended ==
  ASSUME NEW S, NEW e \in Seq(S), NEW x
  PROVE  /\ Len(Append(e, x)) = Len(e) + 1
         /\ Append(e, x)[Len(e) + 1] = x
         /\ \A i \in DOMAIN e : Append(e, x)[i] = e[i] /\ i # Len(e) + 1 /\ i < Len(e) + 1
         /\ DOMAIN Append(e, x) = DOMAIN e \union {Len(e) + 1}
OBVIOUS

(* A mutation that takes effect does so after the time of retention. *)
LEMMA RetryMutate ==
  ASSUME RetryIInv, NEW r \in Retry, NEW k \in Key, NEW p \in Payload, Retries!Mutate(r, k, p)
  PROVE  RetryIInv'
<1> USE ReceiptAssumption
<1> DEFINE kept == [db EXCEPT !.receipts = Retries!Pruned(k)]
           response == Len(db.effects[k]) + 1
           receipt == [payload |-> p, response |-> response, createdAt |-> receiptNow]
           data == [effects  |-> [db.effects EXCEPT ![k] = Append(@, receiptNow)],
                    receipts |-> [Retries!Pruned(k) EXCEPT ![k] = receipt]]
<1>1. /\ kept \in Retries!Data
      /\ kept.effects = db.effects /\ kept.receipts = Retries!Pruned(k)
      /\ SoundData(kept, receiptNow)
      /\ \A l \in Key : kept.receipts[l] # NULL => kept.receipts[l] = db.receipts[l]
  BY RetryPruned
<1>2. /\ retries[r] = Retries!Unsent /\ Retries!Done(r, k, p, response, data)
      /\ kept.receipts[k] = NULL
  BY <1>1 DEF Retries!Mutate
<1> HIDE DEF kept
<1>3. /\ db.effects \in [Key -> Seq(0..ReceiptHorizon)]
      /\ kept.receipts \in [Key -> {NULL} \union
            [payload : Payload, response : Nat, createdAt : 0..ReceiptHorizon]]
      /\ receiptNow \in 0..ReceiptHorizon
  BY <1>1 DEF Retries!Data, RetryIInv, Retries!TypeOK
<1>4. response \in Nat /\ response > 0 BY <1>3
<1>5. receipt \in [payload : Payload, response : Nat, createdAt : 0..ReceiptHorizon]
      /\ receipt # NULL
  BY <1>3, <1>4
<1>6. /\ data.effects \in [Key -> Seq(0..ReceiptHorizon)]
      /\ \A l \in Key : l # k => data.effects[l] = db.effects[l]
      /\ data.effects[k] = Append(db.effects[k], receiptNow)
  BY <1>3
<1>7. /\ data.receipts \in [Key -> {NULL} \union
            [payload : Payload, response : Nat, createdAt : 0..ReceiptHorizon]]
      /\ \A l \in Key : l # k => data.receipts[l] = kept.receipts[l]
      /\ data.receipts[k] = receipt
  BY <1>1, <1>3, <1>5
<1>8. data \in Retries!Data BY <1>6, <1>7 DEF Retries!Data
<1>9. /\ receipt.payload = p /\ receipt.response = response /\ receipt.createdAt = receiptNow
  OBVIOUS
<1> HIDE DEF data, receipt
<1>10. /\ Len(data.effects[k]) = response /\ data.effects[k][response] = receiptNow
       /\ \A i \in DOMAIN db.effects[k] : i # response /\ data.effects[k][i] = db.effects[k][i]
       /\ DOMAIN data.effects[k] = DOMAIN db.effects[k] \union {response}
       /\ \A i \in DOMAIN db.effects[k] : i < response /\ db.effects[k][i] \in Nat
  <2> DEFINE effects == db.effects[k]
             later == data.effects[k]
  <2>1. effects \in Seq(0..ReceiptHorizon) BY <1>3
  <2>2. \A i \in DOMAIN effects : effects[i] \in Nat BY <2>1
  <2>3. later = Append(effects, receiptNow) /\ response = Len(effects) + 1 BY <1>6
  <2> HIDE DEF effects, later, response
  <2>4. /\ Len(later) = response /\ later[response] = receiptNow
        /\ \A i \in DOMAIN effects : i # response /\ i < response /\ later[i] = effects[i]
        /\ DOMAIN later = DOMAIN effects \union {response}
    BY <2>1, <2>3, Appended
  <2> QED BY <2>2, <2>4 DEF effects, later
<1>11. \A i \in DOMAIN db.effects[k] :
         Retention[k] # NULL /\ db.effects[k][i] + Retention[k] < receiptNow
  <2> SUFFICES ASSUME NEW i \in DOMAIN db.effects[k]
               PROVE  Retention[k] # NULL /\ db.effects[k][i] + Retention[k] < receiptNow
    OBVIOUS
  <2> DEFINE last == Len(db.effects[k])
  <2>1. i \in 1..last /\ last \in DOMAIN db.effects[k] /\ last \in Nat BY <1>3
  <2>2. Retention[k] # NULL /\ db.effects[k][last] + Retention[k] < receiptNow
    BY <1>1, <1>2, <2>1 DEF SoundData, PrunedInTime
  <2>3. i < last => db.effects[k][i] + Retention[k] < db.effects[k][last]
    BY <1>1, <2>1 DEF SoundData, SpacedIn
  <2> HIDE DEF last
  <2>4. Retention[k] \in Nat BY <2>2
  <2>5. db.effects[k][i] \in Nat /\ db.effects[k][last] \in Nat BY <1>10, <2>1
  <2> QED BY <1>3, <2>1, <2>2, <2>3, <2>4, <2>5, SMTT(60)
<1> HIDE DEF response
<1>12. SoundData(data, receiptNow)
  <2>1. SpacedIn(data)
    <3> SUFFICES ASSUME NEW l \in Key, NEW i \in DOMAIN data.effects[l],
                        NEW j \in DOMAIN data.effects[l], i < j
                 PROVE  Retention[l] # NULL /\ data.effects[l][i] + Retention[l] < data.effects[l][j]
      BY DEF SpacedIn
    <3>1. CASE l # k BY <1>1, <1>6, <3>1, Zenon DEF SoundData, SpacedIn
    <3>2. CASE l = k
      <4>1. i \in DOMAIN db.effects[k] /\ i # response
        <5>1. i \in Nat /\ j \in Nat /\ i \in DOMAIN db.effects[k] \union {response}
              /\ j \in DOMAIN db.effects[k] \union {response}
          BY <1>3, <1>4, <1>10, <3>2, SMTT(60)
        <5>2. \A n \in DOMAIN db.effects[k] : n < response BY <1>10
        <5> QED BY <1>4, <5>1, <5>2
      <4>2. CASE j \in DOMAIN db.effects[k]
        BY <1>1, <1>10, <3>2, <4>1, <4>2 DEF SoundData, SpacedIn
      <4>3. CASE j = response BY <1>10, <1>11, <3>2, <4>1, <4>3
      <4> QED BY <1>10, <3>2, <4>2, <4>3
    <3> QED BY <3>1, <3>2
  <2>2. ReceiptOfLast(data)
    <3> SUFFICES ASSUME NEW l \in Key, data.receipts[l] # NULL
                 PROVE  /\ Len(data.effects[l]) > 0
                        /\ data.receipts[l].response = Len(data.effects[l])
                        /\ data.receipts[l].createdAt = data.effects[l][Len(data.effects[l])]
      BY DEF ReceiptOfLast
    <3>1. CASE l # k
      <4>1. data.effects[l] = kept.effects[l] BY <1>1, <1>6, <3>1
      <4>2. data.receipts[l] = kept.receipts[l] BY <1>7, <3>1
      <4>3. ReceiptOfLast(kept) /\ kept.receipts[l] # NULL BY <1>1, <4>2 DEF SoundData
      <4> QED BY <4>1, <4>2, <4>3 DEF ReceiptOfLast
    <3>2. CASE l = k BY <1>4, <1>7, <1>9, <1>10, <3>2
    <3> QED BY <3>1, <3>2
  <2>3. PrunedInTime(data, receiptNow)
    BY <1>1, <1>5, <1>6, <1>7, Zenon DEF SoundData, PrunedInTime
  <2> QED BY <2>1, <2>2, <2>3 DEF SoundData
<1>13. NoLater(db, data)
  <2>1. \A l \in Key : Len(db.effects[l]) \in Nat BY <1>3
  <2>2. Len(db.effects[k]) <= Len(data.effects[k]) BY <1>10, <2>1 DEF response
  <2>3. ASSUME NEW l \in Key PROVE Len(db.effects[l]) <= Len(data.effects[l])
    <3>1. CASE l = k BY <2>2, <3>1
    <3>2. CASE l # k BY <1>6, <2>1, <3>2
    <3> QED BY <3>1, <3>2
  <2> QED BY <2>3 DEF NoLater
<1>14. response \in DOMAIN data.effects[k] /\ response > Len(db.effects[k])
  BY <1>3, <1>10 DEF response
<1>15. \A l \in Key : data.receipts[l] # NULL =>
            \/ data.receipts[l] = db.receipts[l]
            \/ l = k /\ data.receipts[l].response = response /\ response > Len(db.effects[k])
  BY <1>1, <1>7, <1>9, <1>14
<1> QED BY <1>2, <1>4, <1>5, <1>7, <1>8, <1>9, <1>12, <1>13, <1>14, <1>15, RetryDone

-----------------------------------------------------------------------------
(* Steps that take no snapshot: the databases after it were there before,  *)
(* and nobody got an answer that was not on the way.                       *)
LEMMA RetrySettled ==
  ASSUME RetryIInv, Retries!TypeOK', SavesInOrder', AnswersHappened',
         RetryData' \subseteq RetryData, receiptNow' >= receiptNow,
         \A r \in Retry : Live(r)' => Live(r)
           /\ retries'[r].key = retries[r].key
           /\ retries'[r].payload = retries[r].payload
           /\ retries'[r].response = retries[r].response
  PROVE  RetryIInv'
<1> USE ReceiptAssumption
<1>1. \A d \in RetryData : d \in Retries!Data
  <2>1. \A i \in DOMAIN saves : saves[i].snapshot \in Retries!Data BY SaveTypes DEF RetryIInv
  <2> QED BY <2>1 DEF RetryData, RetryIInv, Retries!TypeOK
<1>2. receiptNow \in Nat /\ receiptNow' \in Nat BY DEF RetryIInv, Retries!TypeOK
<1>3. ASSUME NEW d \in RetryData' PROVE SoundData(d, receiptNow')
  <2>1. SoundData(d, receiptNow) /\ d \in Retries!Data BY <1>1, <1>3 DEF RetryIInv
  <2>2. ASSUME NEW k \in Key, d.receipts[k] = NULL, Len(d.effects[k]) > 0
        PROVE  Retention[k] # NULL /\ d.effects[k][Len(d.effects[k])] + Retention[k] < receiptNow'
    <3>1. Retention[k] # NULL /\ d.effects[k][Len(d.effects[k])] + Retention[k] < receiptNow
      BY <2>1, <2>2 DEF SoundData, PrunedInTime
    <3>2. d.effects[k] \in Seq(0..ReceiptHorizon) BY <2>1 DEF Retries!Data
    <3>3. d.effects[k][Len(d.effects[k])] \in Nat BY <2>2, <3>2
    <3> QED BY <1>2, <3>1, <3>3
  <2> QED BY <2>1, <2>2 DEF SoundData, PrunedInTime
<1>4. PayloadsAgree'
  BY DEF RetryIInv, PayloadsAgree, SamePayload, SameAnswer, SameReceipt, LiveAnswer, Answer
<1> QED BY <1>3, <1>4 DEF RetryIInv

LEMMA RetrySaveDone == ASSUME RetryIInv, Retries!SaveDone PROVE RetryIInv'
<1> USE ReceiptAssumption
<1> DEFINE S == [request : Retry, snapshot : Retries!Data]
           s == Head(saves)
<1>1. saves \in Seq(S) /\ saves # <<>> BY DEF RetryIInv, Retries!TypeOK, Retries!SaveDone
<1> HIDE DEF S
<1>2. /\ s \in S /\ s = saves[1] /\ 1 \in DOMAIN saves
      /\ saves' = Tail(saves) /\ saves' \in Seq(S)
      /\ \A i \in DOMAIN saves' : i + 1 \in DOMAIN saves /\ saves'[i] = saves[i + 1] /\ i \in Nat \ {0}
  BY <1>1 DEF Retries!SaveDone
<1>3. disk' = s.snapshot /\ db' = db /\ receiptNow' = receiptNow
  BY DEF Retries!SaveDone
<1>4. s.request \in Retry /\ s.snapshot \in Retries!Data /\ Live(s.request)
      /\ InData(s.request, s.snapshot)
  BY <1>2 DEF S, RetryIInv, AnswersHappened
<1>5. retries' = [retries EXCEPT ![s.request].phase = "answered"]
  BY DEF Retries!SaveDone, Retries!Answered
<1>6. retries[s.request] \in [phase : {"saving", "answered"}, key : Key, payload : Payload,
                              response : Nat \union {NULL}, at : 0..ReceiptHorizon]
  BY <1>4 DEF RetryIInv, Retries!TypeOK, Live, Retries!Unsent
<1>7. /\ \A r \in Retry : r # s.request => retries'[r] = retries[r]
      /\ retries'[s.request].phase = "answered"
      /\ retries'[s.request].key = retries[s.request].key
      /\ retries'[s.request].payload = retries[s.request].payload
      /\ retries'[s.request].response = retries[s.request].response
  BY <1>4, <1>5, <1>6 DEF RetryIInv, Retries!TypeOK
<1>8. Retries!TypeOK'
  <2>1. [retries[s.request] EXCEPT !.phase = "answered"] \in
          [phase : {"saving", "answered"}, key : Key, payload : Payload,
           response : Nat \union {NULL}, at : 0..ReceiptHorizon]
    BY <1>6
  <2>2. saves' \in Seq([request : Retry, snapshot : Retries!Data]) BY <1>2 DEF S
  <2> QED BY <1>3, <1>4, <1>5, <2>1, <2>2 DEF RetryIInv, Retries!TypeOK
<1>9. RetryData' \subseteq RetryData
  BY <1>2, <1>3 DEF RetryData
<1>10. \A r \in Retry : Live(r)' <=> Live(r)
  BY <1>4, <1>7 DEF Live
<1>11. SavesInOrder'
  <2>1. \A i \in DOMAIN saves' : NoLater(disk', saves'[i].snapshot)
    BY <1>2, <1>3 DEF RetryIInv, SavesInOrder
  <2>2. \A d \in RetryData' : NoLater(d, db') BY <1>3, <1>9 DEF RetryIInv, SavesInOrder
  <2>3. NoLater(disk', disk') BY <1>3, <1>4 DEF NoLater, Retries!Data
  <2>4. NoLater(disk', db') BY <2>2 DEF RetryData
  <2>5. \A i, j \in DOMAIN saves' : i < j => NoLater(saves'[i].snapshot, saves'[j].snapshot)
    BY <1>2 DEF RetryIInv, SavesInOrder
  <2>6. \A d \in RetryData' : NoLater(disk', d) BY <2>1, <2>3, <2>4 DEF RetryData
  <2> QED BY <2>2, <2>5, <2>6 DEF SavesInOrder
<1>12. AnswersHappened'
  <2>1. \A r \in Retry : Live(r)' => InData(r, db)'
    BY <1>3, <1>7, <1>10 DEF RetryIInv, AnswersHappened, InData, Answer
  <2>2. ASSUME NEW r \in Retry, retries'[r].phase = "answered" PROVE InData(r, disk)'
    <3>1. CASE r = s.request BY <1>3, <1>4, <1>7, <3>1 DEF InData, Answer
    <3>2. CASE r # s.request
      <4>1. retries[r].phase = "answered" /\ InData(r, disk) /\ Answer(r)' = Answer(r)
            /\ retries'[r].key = retries[r].key
        BY <1>7, <2>2, <3>2 DEF RetryIInv, AnswersHappened, Answer
      <4>2. retries[r].key \in Key
        BY <4>1 DEF RetryIInv, Retries!TypeOK, Retries!Unsent
      <4>3. Len(disk.effects[retries[r].key]) <= Len(disk'.effects[retries[r].key])
        BY <1>2, <1>3, <4>2 DEF RetryIInv, SavesInOrder, RetryData, NoLater
      <4>4. disk \in Retries!Data /\ disk' \in Retries!Data
        BY <1>3, <1>4 DEF RetryIInv, Retries!TypeOK
      <4>5. /\ disk.effects[retries[r].key] \in Seq(0..ReceiptHorizon)
            /\ disk'.effects[retries[r].key] \in Seq(0..ReceiptHorizon)
        BY <4>2, <4>4 DEF Retries!Data
      <4> QED BY <4>1, <4>3, <4>5, SMTT(60) DEF InData
    <3> QED BY <3>1, <3>2
  <2>3. ASSUME NEW i \in DOMAIN saves'
        PROVE  Live(saves[i].request)' /\ InData(saves[i].request, saves[i].snapshot)'
    <3>1. Live(saves[i + 1].request) /\ InData(saves[i + 1].request, saves[i + 1].snapshot)
          /\ saves[i + 1].request \in Retry
      BY <1>2, SaveTypes DEF RetryIInv, AnswersHappened
    <3> QED BY <1>2, <1>7, <1>10, <3>1, SMTT(60) DEF InData, Answer
  <2> QED BY <2>1, <2>2, <2>3 DEF AnswersHappened
<1>13. receiptNow' >= receiptNow BY <1>3 DEF RetryIInv, Retries!TypeOK
<1>14. \A r \in Retry : Live(r)' => Live(r)
           /\ retries'[r].key = retries[r].key
           /\ retries'[r].payload = retries[r].payload
           /\ retries'[r].response = retries[r].response
  BY <1>7, <1>10
<1> QED BY <1>8, <1>9, <1>11, <1>12, <1>13, <1>14, RetrySettled

LEMMA RetryRestart == ASSUME RetryIInv, Retries!Restart PROVE RetryIInv'
<1> USE ReceiptAssumption
<1>1. db' = disk /\ disk' = disk /\ saves' = <<>> /\ receiptNow' = receiptNow
  BY DEF Retries!Restart
<1>2. \A r \in Retry : retries'[r] = IF retries[r].phase = "saving" THEN [phase |-> "lost"]
                                     ELSE retries[r]
  BY DEF Retries!Restart
<1>3. Retries!TypeOK'
  BY DEF RetryIInv, Retries!TypeOK, Retries!Restart
<1>4. \A r \in Retry : Live(r)' => retries'[r] = retries[r] /\ retries[r].phase = "answered"
  BY <1>2 DEF Live
<1>5. RetryData' = {disk} BY <1>1 DEF RetryData
<1>6. SavesInOrder'
  BY <1>1, <1>5 DEF RetryIInv, Retries!TypeOK, Retries!Data, SavesInOrder, NoLater
<1>7. AnswersHappened'
  BY <1>1, <1>4 DEF RetryIInv, AnswersHappened, InData, Live, Answer
<1>8. RetryData' \subseteq RetryData /\ receiptNow' >= receiptNow
  BY <1>1, <1>5 DEF RetryData, RetryIInv, Retries!TypeOK
<1> QED BY <1>3, <1>4, <1>6, <1>7, <1>8, RetrySettled DEF Live

LEMMA RetryTick == ASSUME RetryIInv, Retries!Tick PROVE RetryIInv'
<1> USE ReceiptAssumption
<1>1. Retries!TypeOK' /\ receiptNow' >= receiptNow
  BY DEF RetryIInv, Retries!TypeOK, Retries!Tick
<1>2. SavesInOrder' /\ AnswersHappened' /\ RetryData' = RetryData
  BY DEF RetryIInv, Retries!Tick, SavesInOrder, AnswersHappened, RetryData, Live, InData, Answer
<1> QED BY <1>1, <1>2, RetrySettled DEF Retries!Tick, Live

LEMMA RetryNext == ASSUME RetryIInv, [Retries!Next]_receiptVars PROVE RetryIInv'
<1>1. CASE UNCHANGED receiptVars
  BY <1>1 DEF receiptVars, RetryIInv, Retries!TypeOK, RetryData, SavesInOrder, AnswersHappened,
              PayloadsAgree, SamePayload, SameAnswer, LiveAnswer, Live, InData, Answer
<1>2. CASE Retries!Next
  BY <1>2, RetryReplay, RetryMutate, RetryRefuse, RetrySaveDone, RetryRestart, RetryTick
     DEF Retries!Next
<1> QED BY <1>1, <1>2

LEMMA RetryIInvSafe == ASSUME RetryIInv PROVE RetriesAreSafe
<1> USE ReceiptAssumption
<1>1. SpacedIn(db) /\ AnswersHappened /\ db \in Retries!Data
  BY DEF RetryIInv, SoundData, RetryData, Retries!TypeOK
<1>2. Retries!EffectsAreSpaced BY <1>1 DEF Retries!EffectsAreSpaced, SpacedIn
<1>3. ASSUME NEW q \in Retry, NEW r \in Retry,
             retries[q].phase = "answered", retries[r].phase = "answered",
             retries[q].response # NULL, retries[r].response # NULL,
             retries[q].key = retries[r].key
      PROVE  LET e == db.effects[retries[q].key]
             IN /\ retries[q].response \in DOMAIN e
                /\ \/ retries[q].response = retries[r].response /\ retries[q].payload = retries[r].payload
                   \/ /\ Retention[retries[q].key] # NULL
                      /\ e[retries[q].response] # e[retries[r].response]
  <2> DEFINE k == retries[q].key
             e == db.effects[k]
             m == retries[q].response
             n == retries[r].response
  <2>1. k \in Key
    BY <1>3 DEF RetryIInv, Retries!TypeOK, Retries!Unsent
  <2>2. m \in DOMAIN e /\ n \in DOMAIN e
    BY <1>1, <1>3 DEF AnswersHappened, InData, Answer, Live
  <2>3. m = n => retries[q].payload = retries[r].payload
    BY <1>3 DEF RetryIInv, PayloadsAgree, SameAnswer, LiveAnswer, Live, Answer
  <2>4. e \in Seq(0..ReceiptHorizon) BY <1>1, <2>1 DEF Retries!Data
  <2>5. \A i, j \in DOMAIN e : i < j => Retention[k] # NULL /\ e[i] + Retention[k] < e[j]
    BY <1>1, <2>1 DEF SpacedIn
  <2> HIDE DEF k, e, m, n
  <2>6. ASSUME NEW i \in DOMAIN e, NEW j \in DOMAIN e, i < j PROVE Retention[k] # NULL /\ e[i] # e[j]
    <3>1. Retention[k] # NULL /\ e[i] + Retention[k] < e[j] BY <2>5, <2>6
    <3>2. e[i] \in Nat /\ e[j] \in Nat /\ Retention[k] \in Nat BY <2>1, <2>4, <3>1
    <3> QED BY <3>1, <3>2
  <2>7. m = n \/ m < n \/ n < m BY <2>2, <2>4
  <2> QED BY <2>2, <2>3, <2>6, <2>7 DEF k, e, m, n
<1>4. Retries!AnswersAgree
  BY <1>3 DEF Retries!AnswersAgree
<1> QED BY <1>2, <1>4 DEF RetriesAreSafe

LEMMA RetrySteps == [Next]_vars => [Retries!Next]_receiptVars
BY DEF Next, vars, webVars, receiptVars

LEMMA RetryAlways == Spec => []RetryIInv
<1>1. Init => RetryIInv BY RetryInit DEF Init
<1>2. RetryIInv /\ [Next]_vars => RetryIInv' BY RetryNext, RetrySteps
<1> QED BY <1>1, <1>2, PTL DEF Spec

(* backend/idempotent-mutation.js:14, mobile-lifecycle.js and              *)
(* idempotency.js: a mutation that is sent again, in parallel or after a   *)
(* crash, takes effect once in each time of retention, and what was        *)
(* answered to its requests agrees and is still in the database.           *)
THEOREM RetriesSafe == Spec => []RetriesAreSafe
BY RetryAlways, RetryIInvSafe, PTL

-----------------------------------------------------------------------------
(* The mobile booking session.                                             *)

(* A draft is of a hold that was made, an expired one of a hold that ended.*)
DraftsFollowHolds ==
  \A h \in 1..MaxHolds :
    /\ sessionDrafts[h].status # "NONE" => h \in DOMAIN seatHolds
    /\ sessionDrafts[h].status = "EXPIRED" => seatHolds[h].status # "ACTIVE"

SessionIInv == Booking!TypeOK /\ Booking!RevisionGuardsViews /\ DraftsFollowHolds

(* What every step keeps of the holds that are there. *)
HoldsKept(holds, later) ==
  /\ DOMAIN holds \subseteq DOMAIN later
  /\ \A h \in DOMAIN holds :
       /\ later[h].kind = holds[h].kind
       /\ later[h].seats = holds[h].seats
       /\ holds[h].status # "ACTIVE" => later[h] = holds[h]
       /\ Booking!Due(h) => later[h].expiresAt = holds[h].expiresAt

NoNewSession(holds, later) ==
  \A h \in DOMAIN later : later[h].kind = "session" => h \in DOMAIN holds

-----------------------------------------------------------------------------
LEMMA MaxOfTwo ==
  ASSUME NEW a \in Nat, NEW b \in Nat PROVE Booking!Max({a, b}) \in Nat
<1>1. \E x \in {a, b} : \A y \in {a, b} : x >= y BY a >= b \/ b >= a
<1> QED BY <1>1 DEF Booking!Max

OnlyEnds(H, status, later) ==
  /\ later \in Seq(Booking!Hold) /\ Len(later) = Len(seatHolds)
  /\ DOMAIN later = DOMAIN seatHolds
  /\ HoldsKept(seatHolds, later) /\ NoNewSession(seatHolds, later)
  /\ \A h \in DOMAIN seatHolds :
       /\ h \notin H => later[h] = seatHolds[h]
       /\ h \in H => later[h].status = status

(* Holds some of which get another status. *)
LEMMA StatusesSet ==
  ASSUME Booking!TypeOK, NEW H, NEW status \in {"EXPIRED", "RELEASED", "CONVERTED"},
         \A h \in H : h \in DOMAIN seatHolds /\ seatHolds[h].status = "ACTIVE"
  PROVE  OnlyEnds(H, status, Booking!WithStatus(H, status))
<1> DEFINE later == Booking!WithStatus(H, status)
<1>1. seatHolds \in Seq(Booking!Hold) BY DEF Booking!TypeOK
<1>2. /\ DOMAIN seatHolds = 1..Len(seatHolds) /\ Len(seatHolds) \in Nat
      /\ \A h \in DOMAIN seatHolds : seatHolds[h] \in Booking!Hold
  BY <1>1
<1>3. /\ later = [h \in 1..Len(seatHolds) |-> later[h]]
      /\ \A h \in DOMAIN seatHolds :
           /\ h \notin H => later[h] = seatHolds[h]
           /\ h \in H => later[h] = [seatHolds[h] EXCEPT !.status = status]
  BY <1>2 DEF Booking!WithStatus
<1> HIDE DEF later
<1>4. \A h \in DOMAIN seatHolds :
        /\ later[h] \in Booking!Hold
        /\ later[h].kind = seatHolds[h].kind /\ later[h].seats = seatHolds[h].seats
        /\ later[h].expiresAt = seatHolds[h].expiresAt
        /\ h \in H => later[h].status = status
  BY <1>2, <1>3 DEF Booking!Hold
<1>5. later \in [1..Len(seatHolds) -> Booking!Hold] BY <1>2, <1>3, <1>4
<1>6. later \in Seq(Booking!Hold) /\ Len(later) = Len(seatHolds)
  BY <1>2, <1>5, SeqDef
<1>7. DOMAIN later = DOMAIN seatHolds BY <1>2, <1>5
<1>8. HoldsKept(seatHolds, later) /\ NoNewSession(seatHolds, later)
  BY <1>3, <1>4, <1>7, Zenon DEF HoldsKept, NoNewSession
<1> QED BY <1>3, <1>4, <1>6, <1>7, <1>8, Zenon DEF OnlyEnds, later

(* expire() and the two ways to end holds of booking-holds.js. *)
LEMMA ExpiryEnds ==
  ASSUME Booking!TypeOK PROVE OnlyEnds(Booking!DueHolds, "EXPIRED", Booking!ExpiredHolds)
<1>1. \A h \in Booking!DueHolds : h \in DOMAIN seatHolds /\ seatHolds[h].status = "ACTIVE"
  BY DEF Booking!DueHolds, Booking!Due
<1> QED BY <1>1, StatusesSet DEF Booking!ExpiredHolds

LEMMA ExpiredHoldsFacts ==
  ASSUME Booking!TypeOK
  PROVE  LET later == Booking!ExpiredHolds
         IN /\ later \in Seq(Booking!Hold) /\ Len(later) = Len(seatHolds)
            /\ DOMAIN later = DOMAIN seatHolds
            /\ HoldsKept(seatHolds, later) /\ NoNewSession(seatHolds, later)
            /\ \A h \in DOMAIN seatHolds : later[h].status = "ACTIVE" =>
                 later[h] = seatHolds[h] /\ ~Booking!Due(h)
<1>2. \A h \in DOMAIN seatHolds : h \notin Booking!DueHolds => ~Booking!Due(h)
  BY DEF Booking!DueHolds
<1>3. OnlyEnds(Booking!DueHolds, "EXPIRED", Booking!ExpiredHolds) BY ExpiryEnds
<1> QED BY <1>2, <1>3 DEF OnlyEnds

(* Where nobody made a session hold, views stay true. *)
LEMMA NoNewSessionGuards ==
  ASSUME SessionIInv, NEW later, HoldsKept(seatHolds, later), NoNewSession(seatHolds, later)
  PROVE  /\ \A s : Booking!ActiveSessionHoldOn(later, s) => Booking!ActiveSessionHoldOn(seatHolds, s)
         /\ \A g, h \in DOMAIN later :
              /\ g # h /\ later[g].kind = "session" /\ later[h].kind = "session"
              /\ later[g].status = "ACTIVE" /\ later[h].status = "ACTIVE"
              => later[g].seats # later[h].seats
<1>1. \A h \in DOMAIN later : later[h].kind = "session" /\ later[h].status = "ACTIVE" =>
        /\ h \in DOMAIN seatHolds /\ seatHolds[h].kind = "session"
        /\ seatHolds[h].status = "ACTIVE" /\ seatHolds[h].seats = later[h].seats
  <2> SUFFICES ASSUME NEW h \in DOMAIN later, later[h].kind = "session", later[h].status = "ACTIVE"
               PROVE  /\ h \in DOMAIN seatHolds /\ seatHolds[h].kind = "session"
                      /\ seatHolds[h].status = "ACTIVE" /\ seatHolds[h].seats = later[h].seats
    OBVIOUS
  <2>1. h \in DOMAIN seatHolds BY DEF NoNewSession
  <2> QED BY <2>1 DEF HoldsKept
<1> QED BY <1>1 DEF Booking!ActiveSessionHoldOn, SessionIInv, Booking!RevisionGuardsViews,
                    Booking!IsSession

-----------------------------------------------------------------------------
(* What every step of the session and of the holds does. *)
SoundStep ==
  /\ Booking!TypeOK'
  /\ HoldsKept(seatHolds, seatHolds')
  /\ \A u \in User : seen'[u].current =>
       \A s \in seen'[u].selectable : ~Booking!ActiveSessionHoldOn(seatHolds', s)
  /\ \A g, h \in DOMAIN seatHolds' :
       /\ g # h /\ seatHolds'[g].kind = "session" /\ seatHolds'[h].kind = "session"
       /\ seatHolds'[g].status = "ACTIVE" /\ seatHolds'[h].status = "ACTIVE"
       => seatHolds'[g].seats # seatHolds'[h].seats
  /\ \A h \in 1..MaxHolds :
       \/ sessionDrafts'[h] = sessionDrafts[h]
       \/ /\ h \in DOMAIN seatHolds /\ sessionDrafts[h].status # "EXPIRED"
          /\ sessionDrafts'[h].status = "EXPIRED" => seatHolds'[h].status # "ACTIVE"

LEMMA SoundStepSound ==
  ASSUME SessionIInv, SoundStep
  PROVE  /\ SessionIInv'
         /\ \A h \in DOMAIN seatHolds :
              /\ seatHolds[h].status # "ACTIVE" => seatHolds'[h] = seatHolds[h]
              /\ Booking!Due(h) => seatHolds'[h].expiresAt = seatHolds[h].expiresAt
         /\ \A h \in 1..MaxHolds : sessionDrafts[h].status = "EXPIRED" =>
              sessionDrafts'[h].status = "EXPIRED" /\ seatHolds[h].status # "ACTIVE"
<1>1. Booking!RevisionGuardsViews'
  BY DEF SoundStep, Booking!RevisionGuardsViews, Booking!IsSession
<1>2. DraftsFollowHolds'
  BY DEF SoundStep, SessionIInv, DraftsFollowHolds, HoldsKept
<1>3. \A h \in 1..MaxHolds : sessionDrafts[h].status = "EXPIRED" =>
        sessionDrafts'[h].status = "EXPIRED" /\ seatHolds[h].status # "ACTIVE"
  BY DEF SoundStep, SessionIInv, DraftsFollowHolds
<1> QED BY <1>1, <1>2, <1>3 DEF SoundStep, SessionIInv, HoldsKept

(* A step without new session holds, after which a view is what it was. *)
LEMMA QuietStep ==
  ASSUME SessionIInv, Booking!TypeOK', HoldsKept(seatHolds, seatHolds'),
         NoNewSession(seatHolds, seatHolds'), sessionDrafts' = sessionDrafts,
         \A u \in User : seen'[u] = seen[u] \/ seen'[u] = Booking!Outdated
  PROVE  SoundStep
<1>1. \A u \in User : seen'[u].current => seen'[u] = seen[u]
  BY DEF Booking!Outdated
<1> QED BY <1>1, NoNewSessionGuards DEF SoundStep, SessionIInv, Booking!RevisionGuardsViews

(* A step that writes the draft of one hold. *)
LEMMA DraftStep ==
  ASSUME SessionIInv, Booking!TypeOK', HoldsKept(seatHolds, seatHolds'),
         NoNewSession(seatHolds, seatHolds'),
         \A u \in User : seen'[u] = seen[u] \/ seen'[u] = Booking!Outdated,
         NEW h \in DOMAIN seatHolds, sessionDrafts[h].status # "EXPIRED",
         \A g \in 1..MaxHolds : g # h => sessionDrafts'[g] = sessionDrafts[g],
         sessionDrafts'[h].status = "EXPIRED" => seatHolds'[h].status # "ACTIVE"
  PROVE  SoundStep
<1>1. \A u \in User : seen'[u].current => seen'[u] = seen[u]
  BY DEF Booking!Outdated
<1> QED BY <1>1, NoNewSessionGuards DEF SoundStep, SessionIInv, Booking!RevisionGuardsViews

LEMMA AfterExpiry ==
  ASSUME Booking!TypeOK
  PROVE  /\ Booking!ExpiredQueues \in [User -> [status : {"READY", "EXPIRED"}, expiresAt : Nat]]
         /\ Booking!SeenAfterExpiry \in [User -> [current : BOOLEAN, selectable : SUBSET Seat]]
         /\ \A u \in User : \/ Booking!SeenAfterExpiry[u] = seen[u]
                            \/ Booking!SeenAfterExpiry[u] = Booking!Outdated
<1>1. Booking!Outdated \in [current : BOOLEAN, selectable : SUBSET Seat] BY DEF Booking!Outdated
<1>2. Booking!ExpiredQueues \in [User -> [status : {"READY", "EXPIRED"}, expiresAt : Nat]]
  BY DEF Booking!TypeOK, Booking!ExpiredQueues
<1> QED BY <1>1, <1>2 DEF Booking!TypeOK, Booking!SeenAfterExpiry

LEMMA SessionTick == ASSUME SessionIInv, Booking!Tick PROVE SoundStep
<1> USE SessionAssumption
<1>1. Booking!TypeOK' BY DEF SessionIInv, Booking!TypeOK, Booking!Tick
<1>2. HoldsKept(seatHolds, seatHolds') /\ NoNewSession(seatHolds, seatHolds')
  BY DEF Booking!Tick, HoldsKept, NoNewSession
<1> QED BY <1>1, <1>2, QuietStep DEF Booking!Tick

LEMMA SessionExpire == ASSUME SessionIInv, Booking!expire PROVE SoundStep
<1>1. Booking!TypeOK BY DEF SessionIInv
<1>2. Booking!TypeOK'
  BY <1>1, ExpiredHoldsFacts, AfterExpiry DEF Booking!TypeOK, Booking!expire
<1> QED BY <1>1, <1>2, ExpiredHoldsFacts, AfterExpiry, QuietStep DEF Booking!expire

LEMMA SessionJoinQueue ==
  ASSUME SessionIInv, NEW u \in User, Booking!joinQueue(u) PROVE SoundStep
<1> USE SessionAssumption
<1>1. Booking!TypeOK' BY DEF SessionIInv, Booking!TypeOK, Booking!joinQueue
<1>2. HoldsKept(seatHolds, seatHolds') /\ NoNewSession(seatHolds, seatHolds')
  BY DEF Booking!joinQueue, HoldsKept, NoNewSession
<1> QED BY <1>1, <1>2, QuietStep DEF Booking!joinQueue

LEMMA SessionSeats ==
  ASSUME SessionIInv, NEW u \in User, Booking!seats(u) PROVE SoundStep
<1> DEFINE shown == {s \in Seat : /\ tickets[s].status = "ON_SALE"
                                  /\ ~Booking!ActiveSessionHoldOn(Booking!ExpiredHolds, s)}
<1>1. CASE Booking!expire BY <1>1, SessionExpire
<1>2. CASE /\ seen' = [Booking!SeenAfterExpiry EXCEPT ![u] = [current |-> TRUE, selectable |-> shown]]
           /\ bookingQueues' = Booking!ExpiredQueues
           /\ seatHolds' = Booking!ExpiredHolds
           /\ UNCHANGED <<bookingNow, tickets, sessionDrafts>>
  <2>1. Booking!TypeOK BY DEF SessionIInv
  <2>2. [current |-> TRUE, selectable |-> shown] \in [current : BOOLEAN, selectable : SUBSET Seat]
    OBVIOUS
  <2>3. /\ HoldsKept(seatHolds, seatHolds') /\ NoNewSession(seatHolds, seatHolds')
        /\ seatHolds' \in Seq(Booking!Hold) /\ Len(seatHolds') = Len(seatHolds)
    BY <1>2, <2>1, ExpiredHoldsFacts
  <2>4. Booking!TypeOK'
    BY <1>2, <2>1, <2>2, <2>3, AfterExpiry DEF Booking!TypeOK
  <2>5. \A s \in shown : ~Booking!ActiveSessionHoldOn(seatHolds', s) BY <1>2
  <2> HIDE DEF shown
  <2>6. ASSUME NEW v \in User, seen'[v].current, NEW s \in seen'[v].selectable
        PROVE  ~Booking!ActiveSessionHoldOn(seatHolds', s)
    <3>1. CASE v = u
      <4>1. seen'[u].selectable = shown BY <1>2, <2>1, AfterExpiry
      <4> QED BY <2>5, <2>6, <3>1, <4>1
    <3>2. CASE v # u
      <4>1. seen'[v] = seen[v] \/ seen'[v] = Booking!Outdated
        BY <1>2, <2>1, <3>2, AfterExpiry
      <4>2. seen'[v] = seen[v] BY <2>6, <4>1 DEF Booking!Outdated
      <4> QED BY <2>3, <2>6, <4>2, NoNewSessionGuards DEF SessionIInv, Booking!RevisionGuardsViews
    <3> QED BY <3>1, <3>2
  <2> QED BY <1>2, <2>3, <2>4, <2>6, NoNewSessionGuards DEF SoundStep
<1> QED BY <1>1, <1>2 DEF Booking!seats

(* A hold that is prolonged, one that ends, and one that is made. *)
LEMMA HoldProlonged ==
  ASSUME Booking!TypeOK, NEW H, NEW base, OnlyEnds(H, "EXPIRED", base),
         NEW h \in DOMAIN seatHolds, seatHolds[h].status = "ACTIVE", ~Booking!Due(h), h \notin H,
         NEW longer \in Booking!Hold,
         longer.kind = seatHolds[h].kind, longer.seats = seatHolds[h].seats
  PROVE  LET later == [base EXCEPT ![h] = longer]
         IN /\ later \in Seq(Booking!Hold) /\ Len(later) = Len(seatHolds)
            /\ HoldsKept(seatHolds, later) /\ NoNewSession(seatHolds, later)
<1> DEFINE later == [base EXCEPT ![h] = longer]
<1>1. base \in Seq(Booking!Hold) /\ Len(base) = Len(seatHolds) /\ DOMAIN base = DOMAIN seatHolds
  BY DEF OnlyEnds
<1>2. later \in Seq(Booking!Hold) /\ Len(later) = Len(seatHolds) BY <1>1
<1>3. /\ DOMAIN later = DOMAIN seatHolds
      /\ \A g \in DOMAIN seatHolds : g # h => later[g] = base[g]
      /\ later[h] = longer
  BY <1>1
<1> HIDE DEF later
<1>4. ASSUME NEW g \in DOMAIN seatHolds
      PROVE  /\ later[g].kind = seatHolds[g].kind
             /\ later[g].seats = seatHolds[g].seats
             /\ seatHolds[g].status # "ACTIVE" => later[g] = seatHolds[g]
             /\ Booking!Due(g) => later[g].expiresAt = seatHolds[g].expiresAt
  <2>1. CASE g = h BY <1>3, <2>1
  <2>2. CASE g # h BY <1>3, <2>2 DEF OnlyEnds, HoldsKept
  <2> QED BY <2>1, <2>2
<1>5. HoldsKept(seatHolds, later) /\ NoNewSession(seatHolds, later)
  BY <1>3, <1>4 DEF HoldsKept, NoNewSession
<1> QED BY <1>2, <1>5 DEF later

LEMMA HoldEnded ==
  ASSUME Booking!TypeOK, NEW H, NEW base, OnlyEnds(H, "EXPIRED", base),
         NEW h \in DOMAIN seatHolds, seatHolds[h].status = "ACTIVE", h \notin H
  PROVE  LET later == [base EXCEPT ![h].status = "RELEASED"]
         IN /\ later \in Seq(Booking!Hold) /\ Len(later) = Len(seatHolds)
            /\ HoldsKept(seatHolds, later) /\ NoNewSession(seatHolds, later)
<1> DEFINE later == [base EXCEPT ![h].status = "RELEASED"]
<1>1. /\ base \in Seq(Booking!Hold) /\ Len(base) = Len(seatHolds) /\ DOMAIN base = DOMAIN seatHolds
      /\ base[h] = seatHolds[h] /\ seatHolds[h] \in Booking!Hold
  BY DEF OnlyEnds, Booking!TypeOK
<1>2. /\ [base[h] EXCEPT !.status = "RELEASED"] \in Booking!Hold
      /\ [base[h] EXCEPT !.status = "RELEASED"].kind = seatHolds[h].kind
      /\ [base[h] EXCEPT !.status = "RELEASED"].seats = seatHolds[h].seats
      /\ [base[h] EXCEPT !.status = "RELEASED"].expiresAt = seatHolds[h].expiresAt
  BY <1>1, Zenon DEF Booking!Hold
<1>4. /\ DOMAIN later = DOMAIN seatHolds
      /\ \A g \in DOMAIN seatHolds : g # h => later[g] = base[g]
      /\ later[h] = [base[h] EXCEPT !.status = "RELEASED"]
  BY <1>1
<1>5. later \in Seq(Booking!Hold) /\ Len(later) = Len(seatHolds)
  BY <1>1, <1>2
<1> HIDE DEF later
<1>6. ASSUME NEW g \in DOMAIN seatHolds
      PROVE  /\ later[g].kind = seatHolds[g].kind
             /\ later[g].seats = seatHolds[g].seats
             /\ seatHolds[g].status # "ACTIVE" => later[g] = seatHolds[g]
             /\ Booking!Due(g) => later[g].expiresAt = seatHolds[g].expiresAt
  <2>1. CASE g = h BY <1>2, <1>4, <2>1, Zenon
  <2>2. CASE g # h BY <1>4, <2>2 DEF OnlyEnds, HoldsKept
  <2> QED BY <2>1, <2>2
<1>7. HoldsKept(seatHolds, later) /\ NoNewSession(seatHolds, later)
  BY <1>4, <1>6 DEF HoldsKept, NoNewSession
<1> QED BY <1>5, <1>7 DEF later

LEMMA HoldMade ==
  ASSUME Booking!TypeOK, NEW H, NEW base, OnlyEnds(H, "EXPIRED", base), NEW hold \in Booking!Hold
  PROVE  LET later == Append(base, hold)
         IN /\ later \in Seq(Booking!Hold) /\ Len(later) = Len(seatHolds) + 1
            /\ HoldsKept(seatHolds, later)
            /\ \A g \in DOMAIN seatHolds : later[g] = base[g]
            /\ DOMAIN later = DOMAIN seatHolds \union {Len(seatHolds) + 1}
            /\ later[Len(seatHolds) + 1] = hold
            /\ hold.kind # "session" => NoNewSession(seatHolds, later)
<1> DEFINE later == Append(base, hold)
<1>1. base \in Seq(Booking!Hold) /\ Len(base) = Len(seatHolds) /\ DOMAIN base = DOMAIN seatHolds
  BY DEF OnlyEnds
<1>2. /\ later \in Seq(Booking!Hold) /\ Len(later) = Len(base) + 1
      /\ \A g \in DOMAIN base : later[g] = base[g]
      /\ DOMAIN later = DOMAIN base \union {Len(base) + 1}
      /\ later[Len(base) + 1] = hold
  BY <1>1
<1> HIDE DEF later
<1>3. HoldsKept(seatHolds, later) BY <1>1, <1>2 DEF OnlyEnds, HoldsKept
<1>4. hold.kind # "session" => NoNewSession(seatHolds, later)
  BY <1>1, <1>2 DEF OnlyEnds, NoNewSession
<1> QED BY <1>1, <1>2, <1>3, <1>4 DEF later

LEMMA SessionCreateHold ==
  ASSUME SessionIInv, NEW u \in User, NEW s \in Seat, Booking!createHold(u, s) PROVE SoundStep
<1> USE SessionAssumption
<1> DEFINE hold == [kind |-> "session", userId |-> u, seats |-> {s}, status |-> "ACTIVE",
                    expiresAt |-> bookingNow + HOLD_TTL, extensionsUsed |-> 0]
           n == Len(seatHolds) + 1
<1>1. Booking!TypeOK /\ bookingNow \in Nat BY DEF SessionIInv, Booking!TypeOK
<1>2. hold \in Booking!Hold BY <1>1 DEF Booking!Hold
<1>3. OnlyEnds(Booking!DueHolds, "EXPIRED", Booking!ExpiredHolds) BY <1>1, ExpiryEnds
<1>4. /\ seatHolds' = Append(Booking!ExpiredHolds, hold)
      /\ Len(seatHolds) < MaxHolds
      /\ ~Booking!ActiveSessionHoldOn(Booking!ExpiredHolds, s)
      /\ bookingQueues' = Booking!ExpiredQueues /\ seen' = [v \in User |-> Booking!Outdated]
      /\ UNCHANGED <<bookingNow, tickets, sessionDrafts>>
  BY DEF Booking!createHold, Booking!RevisionCounted
<1>5. hold.kind = "session" /\ hold.seats = {s} OBVIOUS
<1> HIDE DEF hold
<1>6. /\ seatHolds' \in Seq(Booking!Hold) /\ Len(seatHolds') = n
      /\ HoldsKept(seatHolds, seatHolds')
      /\ \A g \in DOMAIN seatHolds : seatHolds'[g] = Booking!ExpiredHolds[g]
      /\ DOMAIN seatHolds' = DOMAIN seatHolds \union {n}
      /\ seatHolds'[n] = hold
  BY <1>1, <1>2, <1>3, <1>4, HoldMade
<1>7. Len(seatHolds) \in Nat BY <1>1 DEF Booking!TypeOK
<1>8. Booking!TypeOK'
  <2>1. seen' \in [User -> [current : BOOLEAN, selectable : SUBSET Seat]]
    BY <1>4 DEF Booking!Outdated
  <2> QED BY <1>1, <1>4, <1>6, <1>7, <2>1, AfterExpiry, SMTT(60) DEF Booking!TypeOK
<1>9. ASSUME NEW g \in DOMAIN seatHolds, seatHolds'[g].kind = "session",
             seatHolds'[g].status = "ACTIVE"
      PROVE  /\ seatHolds'[g].seats # {s} /\ seatHolds[g].kind = "session"
             /\ seatHolds[g].status = "ACTIVE" /\ seatHolds'[g].seats = seatHolds[g].seats
  <2>1. seatHolds'[g].seats # {s}
    BY <1>3, <1>4, <1>6, <1>9, Zenon DEF Booking!ActiveSessionHoldOn, OnlyEnds
  <2> QED BY <1>6, <1>9, <2>1 DEF HoldsKept
<1>10. \A g, h \in DOMAIN seatHolds' :
         /\ g # h /\ seatHolds'[g].kind = "session" /\ seatHolds'[h].kind = "session"
         /\ seatHolds'[g].status = "ACTIVE" /\ seatHolds'[h].status = "ACTIVE"
         => seatHolds'[g].seats # seatHolds'[h].seats
  <2>1. \A g, h \in DOMAIN seatHolds :
         /\ g # h /\ seatHolds[g].kind = "session" /\ seatHolds[h].kind = "session"
         /\ seatHolds[g].status = "ACTIVE" /\ seatHolds[h].status = "ACTIVE"
         => seatHolds[g].seats # seatHolds[h].seats
    BY DEF SessionIInv, Booking!RevisionGuardsViews, Booking!IsSession
  <2> QED BY <1>5, <1>6, <1>9, <2>1
<1>11. \A v \in User : ~seen'[v].current BY <1>4 DEF Booking!Outdated
<1> QED BY <1>4, <1>6, <1>8, <1>10, <1>11, Zenon DEF SoundStep

LEMMA SessionRenewHold ==
  ASSUME SessionIInv, NEW u \in User, NEW h \in 1..MaxHolds, Booking!renewHold(u, h) PROVE SoundStep
<1> USE SessionAssumption
<1> DEFINE expiresAt == Booking!Max({bookingNow, seatHolds[h].expiresAt}) + HOLD_TTL
           H == Booking!DueHolds \ {h}
           base == Booking!WithStatus(H, "EXPIRED")
<1>1. Booking!TypeOK /\ bookingNow \in Nat BY DEF SessionIInv, Booking!TypeOK
<1>2. /\ h \in DOMAIN seatHolds /\ seatHolds[h].status = "ACTIVE" /\ ~Booking!Due(h)
  BY <1>1, ExpiredHoldsFacts DEF Booking!renewHold, Booking!MayRenew, Booking!OwnHold
<1>3. seatHolds[h] \in Booking!Hold BY <1>1, <1>2 DEF Booking!TypeOK
<1>4. expiresAt \in Nat
  BY <1>1, <1>3, MaxOfTwo DEF Booking!Hold
<1>5. \A g \in H : g \in DOMAIN seatHolds /\ seatHolds[g].status = "ACTIVE"
  BY DEF Booking!DueHolds, Booking!Due
<1>6. OnlyEnds(H, "EXPIRED", base) BY <1>1, <1>5, StatusesSet
<1>7. /\ seatHolds' = [base EXCEPT ![h].expiresAt = expiresAt]
      /\ seen' = Booking!SeenAfterExpiry /\ bookingQueues' = Booking!ExpiredQueues
      /\ UNCHANGED <<bookingNow, tickets, sessionDrafts>>
  BY DEF Booking!renewHold
<1>8. h \notin H OBVIOUS
<1> HIDE DEF expiresAt, H, base
<1>9. base[h] = seatHolds[h] BY <1>2, <1>6, <1>8 DEF OnlyEnds
<1> DEFINE longer == [seatHolds[h] EXCEPT !.expiresAt = expiresAt]
<1>10. /\ longer \in Booking!Hold /\ longer.kind = seatHolds[h].kind
       /\ longer.seats = seatHolds[h].seats
  BY <1>3, <1>4 DEF Booking!Hold
<1>11. seatHolds' = [base EXCEPT ![h] = longer] BY <1>7, <1>9
<1> HIDE DEF longer
<1>12. /\ seatHolds' \in Seq(Booking!Hold) /\ Len(seatHolds') = Len(seatHolds)
       /\ HoldsKept(seatHolds, seatHolds') /\ NoNewSession(seatHolds, seatHolds')
  BY <1>1, <1>2, <1>6, <1>8, <1>10, <1>11, HoldProlonged, Zenon
<1>13. Booking!TypeOK'
  BY <1>1, <1>7, <1>12, AfterExpiry, Zenon DEF Booking!TypeOK
<1> QED BY <1>1, <1>7, <1>12, <1>13, AfterExpiry, QuietStep

LEMMA SessionReleaseHold ==
  ASSUME SessionIInv, NEW u \in User, NEW h \in 1..MaxHolds, Booking!releaseHold(u, h) PROVE SoundStep
<1>1. Booking!TypeOK BY DEF SessionIInv
<1>2. /\ h \in DOMAIN seatHolds /\ Booking!ExpiredHolds[h].status = "ACTIVE"
      /\ seatHolds' = [Booking!ExpiredHolds EXCEPT ![h].status = "RELEASED"]
      /\ seen' = [v \in User |-> Booking!Outdated] /\ bookingQueues' = Booking!ExpiredQueues
      /\ UNCHANGED <<bookingNow, tickets, sessionDrafts>>
  BY DEF Booking!releaseHold, Booking!OwnHold, Booking!RevisionCounted
<1>3. OnlyEnds(Booking!DueHolds, "EXPIRED", Booking!ExpiredHolds) BY <1>1, ExpiryEnds
<1>4. seatHolds[h].status = "ACTIVE" /\ h \notin Booking!DueHolds
  BY <1>1, <1>2, ExpiredHoldsFacts DEF Booking!DueHolds
<1>5. /\ seatHolds' \in Seq(Booking!Hold) /\ Len(seatHolds') = Len(seatHolds)
      /\ HoldsKept(seatHolds, seatHolds') /\ NoNewSession(seatHolds, seatHolds')
  BY <1>1, <1>2, <1>3, <1>4, HoldEnded, Zenon
<1>6. seen' \in [User -> [current : BOOLEAN, selectable : SUBSET Seat]]
  BY <1>2 DEF Booking!Outdated
<1>7. Booking!TypeOK'
  BY <1>1, <1>2, <1>5, <1>6, AfterExpiry DEF Booking!TypeOK
<1> QED BY <1>2, <1>5, <1>7, QuietStep

LEMMA SessionCreateDraft ==
  ASSUME SessionIInv, NEW u \in User, NEW h \in 1..MaxHolds, Booking!createDraft(u, h) PROVE SoundStep
<1>1. Booking!TypeOK BY DEF SessionIInv
<1>2. /\ h \in DOMAIN seatHolds /\ sessionDrafts[h].status = "NONE"
      /\ sessionDrafts' = [sessionDrafts EXCEPT ![h] =
           [status |-> "AWAITING_PAYMENT", expiresAt |-> seatHolds[h].expiresAt]]
      /\ seatHolds' = Booking!ExpiredHolds
      /\ seen' = Booking!SeenAfterExpiry /\ bookingQueues' = Booking!ExpiredQueues
      /\ UNCHANGED <<bookingNow, tickets>>
  BY DEF Booking!createDraft, Booking!OwnHold
<1>3. /\ seatHolds' \in Seq(Booking!Hold) /\ Len(seatHolds') = Len(seatHolds)
      /\ HoldsKept(seatHolds, seatHolds') /\ NoNewSession(seatHolds, seatHolds')
  BY <1>1, <1>2, ExpiredHoldsFacts
<1>4. seatHolds[h].expiresAt \in Nat
  <2>1. seatHolds[h] \in Booking!Hold BY <1>1, <1>2 DEF Booking!TypeOK
  <2> QED BY <2>1 DEF Booking!Hold
<1>5. Booking!TypeOK'
  BY <1>1, <1>2, <1>3, <1>4, AfterExpiry DEF Booking!TypeOK
<1> QED BY <1>1, <1>2, <1>3, <1>5, DraftStep, AfterExpiry, Zenon DEF Booking!TypeOK

LEMMA SessionDraft ==
  ASSUME SessionIInv, NEW u \in User, NEW h \in 1..MaxHolds, Booking!draft(u, h) PROVE SoundStep
<1>1. Booking!TypeOK BY DEF SessionIInv
<1>2. /\ h \in DOMAIN seatHolds /\ sessionDrafts[h].status = "AWAITING_PAYMENT"
      /\ sessionDrafts' = [sessionDrafts EXCEPT ![h].status = "EXPIRED"]
      /\ seatHolds' = Booking!ExpiredHolds /\ Booking!ExpiredHolds[h].status # "ACTIVE"
      /\ seen' = Booking!SeenAfterExpiry /\ bookingQueues' = Booking!ExpiredQueues
      /\ UNCHANGED <<bookingNow, tickets>>
  BY DEF Booking!draft, Booking!OwnHold
<1>3. /\ seatHolds' \in Seq(Booking!Hold) /\ Len(seatHolds') = Len(seatHolds)
      /\ HoldsKept(seatHolds, seatHolds') /\ NoNewSession(seatHolds, seatHolds')
  BY <1>1, <1>2, ExpiredHoldsFacts
<1>4. Booking!TypeOK'
  BY <1>1, <1>2, <1>3, AfterExpiry, ZenonT(60) DEF Booking!TypeOK
<1> QED BY <1>1, <1>2, <1>3, <1>4, DraftStep, AfterExpiry DEF Booking!TypeOK

LEMMA FreedTyped ==
  ASSUME Booking!TypeOK, NEW H
  PROVE  Booking!FreedTickets(H) \in [Seat -> [status : {"ON_SALE", "HELD", "RESERVED", "OWNED"}, heldBy : 0..MaxHolds]]
BY SessionAssumption DEF Booking!TypeOK, Booking!FreedTickets

LEMMA HoldsCreate ==
  ASSUME SessionIInv, NEW u \in User, NEW S \in SUBSET Seat, Booking!createSeatHold(u, S)
  PROVE  SoundStep
<1> USE SessionAssumption
<1> DEFINE H == Booking!Reconciled
           base == Booking!WithStatus(H, "EXPIRED")
           after == Booking!FreedTickets(H)
           hold == [kind |-> "booking", userId |-> u, seats |-> S, status |-> "ACTIVE",
                    expiresAt |-> bookingNow + HOLD_TTL, extensionsUsed |-> 0]
           taken == [s \in Seat |->
                      IF s \in S THEN [status |-> "HELD", heldBy |-> Len(seatHolds) + 1] ELSE after[s]]
<1>1. Booking!TypeOK /\ bookingNow \in Nat /\ Len(seatHolds) \in Nat
  BY DEF SessionIInv, Booking!TypeOK
<1>2. \A g \in H : g \in DOMAIN seatHolds /\ seatHolds[g].status = "ACTIVE"
  BY DEF Booking!Reconciled, Booking!DueHolds, Booking!Due
<1>3. OnlyEnds(H, "EXPIRED", base) BY <1>1, <1>2, StatusesSet
<1>4. UNCHANGED <<bookingNow, bookingQueues, sessionDrafts, seen>>
      /\ \/ seatHolds' = base /\ tickets' = after
         \/ /\ Len(seatHolds) < MaxHolds
            /\ seatHolds' = Append(base, hold) /\ tickets' = taken
  BY DEF Booking!createSeatHold
<1>5. after \in [Seat -> [status : {"ON_SALE", "HELD", "RESERVED", "OWNED"}, heldBy : 0..MaxHolds]]
  BY <1>1, FreedTyped
<1>6. hold \in Booking!Hold /\ hold.kind # "session" BY <1>1 DEF Booking!Hold
<1> HIDE DEF H, base, after, hold
<1>7. CASE seatHolds' = base /\ tickets' = after
  <2>1. /\ seatHolds' \in Seq(Booking!Hold) /\ Len(seatHolds') = Len(seatHolds)
        /\ HoldsKept(seatHolds, seatHolds') /\ NoNewSession(seatHolds, seatHolds')
    BY <1>3, <1>7 DEF OnlyEnds
  <2>2. Booking!TypeOK' BY <1>1, <1>4, <1>5, <1>7, <2>1 DEF Booking!TypeOK
  <2> QED BY <1>4, <2>1, <2>2, QuietStep
<1>8. CASE Len(seatHolds) < MaxHolds /\ seatHolds' = Append(base, hold) /\ tickets' = taken
  <2>1. /\ seatHolds' \in Seq(Booking!Hold) /\ Len(seatHolds') = Len(seatHolds) + 1
        /\ HoldsKept(seatHolds, seatHolds') /\ NoNewSession(seatHolds, seatHolds')
    BY <1>1, <1>3, <1>6, <1>8, HoldMade
  <2>2. taken \in [Seat -> [status : {"ON_SALE", "HELD", "RESERVED", "OWNED"}, heldBy : 0..MaxHolds]]
    BY <1>1, <1>5, <1>8
  <2>3. Booking!TypeOK' BY <1>1, <1>4, <1>8, <2>1, <2>2 DEF Booking!TypeOK
  <2> QED BY <1>4, <2>1, <2>3, QuietStep
<1> QED BY <1>4, <1>7, <1>8

LEMMA HoldsRelease ==
  ASSUME SessionIInv, NEW u \in User, NEW h \in 1..MaxHolds, Booking!releaseSeatHold(u, h)
  PROVE  SoundStep
<1>1. Booking!TypeOK BY DEF SessionIInv
<1>2. /\ UNCHANGED <<bookingNow, bookingQueues, sessionDrafts, seen>>
      /\ tickets' = tickets \/ tickets' = Booking!FreedTickets({h})
      /\ h \in DOMAIN seatHolds /\ seatHolds[h].status = "ACTIVE"
      /\ \E status \in {"EXPIRED", "RELEASED"} : seatHolds' = Booking!WithStatus({h}, status)
  BY DEF Booking!releaseSeatHold, Booking!EndOwnHold, Booking!OwnHold, Booking!Due
<1>3. \E status \in {"EXPIRED", "RELEASED"} : OnlyEnds({h}, status, seatHolds')
  BY <1>1, <1>2, StatusesSet
<1>4. /\ seatHolds' \in Seq(Booking!Hold) /\ Len(seatHolds') = Len(seatHolds)
      /\ HoldsKept(seatHolds, seatHolds') /\ NoNewSession(seatHolds, seatHolds')
  BY <1>3 DEF OnlyEnds
<1>5. tickets' \in [Seat -> [status : {"ON_SALE", "HELD", "RESERVED", "OWNED"}, heldBy : 0..MaxHolds]]
  BY <1>1, <1>2, FreedTyped DEF Booking!TypeOK
<1>6. Booking!TypeOK' BY <1>1, <1>2, <1>4, <1>5 DEF Booking!TypeOK
<1> QED BY <1>2, <1>4, <1>6, QuietStep

LEMMA HoldsToDraft ==
  ASSUME SessionIInv, NEW u \in User, NEW h \in 1..MaxHolds, Booking!createReservationDraft(u, h)
  PROVE  SoundStep
<1> USE SessionAssumption
<1>1. Booking!TypeOK BY DEF SessionIInv
<1>2. /\ UNCHANGED <<bookingNow, bookingQueues, sessionDrafts, seen>>
      /\ \/ tickets' = tickets \/ tickets' = Booking!FreedTickets({h})
         \/ tickets' = [s \in Seat |-> IF s \in seatHolds[h].seats
                                       THEN Booking!Reserved(h) ELSE tickets[s]]
      /\ h \in DOMAIN seatHolds /\ seatHolds[h].status = "ACTIVE"
      /\ \E status \in {"EXPIRED", "CONVERTED"} : seatHolds' = Booking!WithStatus({h}, status)
  BY DEF Booking!createReservationDraft, Booking!EndOwnHold, Booking!OwnHold, Booking!Due
<1>3. \E status \in {"EXPIRED", "CONVERTED"} : OnlyEnds({h}, status, seatHolds')
  BY <1>1, <1>2, StatusesSet
<1>4. /\ seatHolds' \in Seq(Booking!Hold) /\ Len(seatHolds') = Len(seatHolds)
      /\ HoldsKept(seatHolds, seatHolds') /\ NoNewSession(seatHolds, seatHolds')
  BY <1>3 DEF OnlyEnds
<1>5. tickets' \in [Seat -> [status : {"ON_SALE", "HELD", "RESERVED", "OWNED"}, heldBy : 0..MaxHolds]]
  <2>1. CASE tickets' = tickets BY <1>1, <2>1 DEF Booking!TypeOK
  <2>2. CASE tickets' = Booking!FreedTickets({h}) BY <1>1, <2>2, FreedTyped
  <2>3. CASE tickets' = [s \in Seat |-> IF s \in seatHolds[h].seats
                                       THEN Booking!Reserved(h) ELSE tickets[s]]
    BY <1>1, <2>3 DEF Booking!TypeOK, Booking!Reserved
  <2> QED BY <1>2, <2>1, <2>2, <2>3
<1>6. Booking!TypeOK' BY <1>1, <1>2, <1>4, <1>5 DEF Booking!TypeOK
<1> QED BY <1>2, <1>4, <1>6, QuietStep

LEMMA HoldsEndDraft ==
  ASSUME SessionIInv, NEW u \in User, NEW h \in 1..MaxHolds, Booking!endReservationDraft(u, h)
  PROVE  SoundStep
<1>1. Booking!TypeOK BY DEF SessionIInv
<1>2. /\ UNCHANGED <<bookingNow, seatHolds, bookingQueues, sessionDrafts, seen>>
      /\ tickets' = [s \in Seat |-> IF tickets[s] = Booking!Reserved(h)
                                    THEN [status |-> "ON_SALE", heldBy |-> 0] ELSE tickets[s]]
  BY DEF Booking!endReservationDraft
<1>3. /\ seatHolds' \in Seq(Booking!Hold) /\ Len(seatHolds') = Len(seatHolds)
      /\ HoldsKept(seatHolds, seatHolds') /\ NoNewSession(seatHolds, seatHolds')
  BY <1>1, <1>2 DEF Booking!TypeOK, HoldsKept, NoNewSession
<1>4. Booking!TypeOK'
  BY SessionAssumption, <1>1, <1>2, <1>3 DEF Booking!TypeOK
<1> QED BY <1>2, <1>3, <1>4, QuietStep

LEMMA HoldsExtend ==
  ASSUME SessionIInv, NEW u \in User, NEW h \in 1..MaxHolds, Booking!extendSeatHold(u, h)
  PROVE  SoundStep
<1> USE SessionAssumption
<1> DEFINE used == IF Booking!IsSession(h) THEN 0 ELSE 1
           expiresAt == bookingNow + HOLD_EXTENSION
<1>1. Booking!TypeOK /\ bookingNow \in Nat BY DEF SessionIInv, Booking!TypeOK
<1>2. /\ h \in DOMAIN seatHolds /\ seatHolds[h].status = "ACTIVE" /\ ~Booking!Due(h)
      /\ seatHolds' = [seatHolds EXCEPT ![h].expiresAt = expiresAt, ![h].extensionsUsed = used]
      /\ UNCHANGED <<bookingNow, tickets, bookingQueues, sessionDrafts, seen>>
  BY DEF Booking!extendSeatHold, Booking!OwnHold
<1>3. seatHolds[h] \in Booking!Hold BY <1>1, <1>2 DEF Booking!TypeOK
<1> DEFINE longer == [seatHolds[h] EXCEPT !.expiresAt = expiresAt, !.extensionsUsed = used]
<1>4. seatHolds' = [seatHolds EXCEPT ![h] = longer]
  BY <1>2, <1>3, Zenon DEF Booking!Hold
<1>5. PICK none : OnlyEnds(none, "EXPIRED", seatHolds) /\ h \notin none
  <2>1. OnlyEnds({}, "EXPIRED", seatHolds)
    BY <1>1 DEF OnlyEnds, HoldsKept, NoNewSession, Booking!TypeOK
  <2> QED BY <2>1
<1>6. expiresAt \in Nat /\ used \in 0..1 BY <1>1
<1> HIDE DEF used, expiresAt
<1>9. /\ longer \in Booking!Hold /\ longer.kind = seatHolds[h].kind
      /\ longer.seats = seatHolds[h].seats
  BY <1>3, <1>6, Zenon DEF Booking!Hold
<1> HIDE DEF longer
<1>7. /\ seatHolds' \in Seq(Booking!Hold) /\ Len(seatHolds') = Len(seatHolds)
      /\ HoldsKept(seatHolds, seatHolds') /\ NoNewSession(seatHolds, seatHolds')
<2>1. h \in DOMAIN seatHolds /\ seatHolds[h].status = "ACTIVE" /\ ~Booking!Due(h)
    BY <1>2
  <2> QED BY <1>1, <1>4, <1>5, <1>9, <2>1, HoldProlonged, Zenon
<1>8. Booking!TypeOK' BY <1>1, <1>2, <1>7 DEF Booking!TypeOK
<1> QED BY <1>2, <1>7, <1>8, QuietStep

LEMMA HoldsBuy ==
  ASSUME SessionIInv, NEW u \in User, NEW s \in Seat, Booking!buyPrimary(u, s) PROVE SoundStep
<1>1. Booking!TypeOK BY DEF SessionIInv
<1>2. PICK own : /\ \A h \in own : h \in DOMAIN seatHolds /\ seatHolds[h].status = "ACTIVE"
                 /\ seatHolds' = Booking!WithStatus(own, "CONVERTED")
                 /\ tickets' = [tickets EXCEPT ![s] = [status |-> "OWNED", heldBy |-> 0]]
                 /\ UNCHANGED <<bookingNow, bookingQueues, sessionDrafts, seen>>
  <2> DEFINE own == {h \in DOMAIN seatHolds : /\ tickets[s] = [status |-> "HELD", heldBy |-> h]
                                       /\ seatHolds[h].userId = u /\ seatHolds[h].seats = {s}
                                       /\ seatHolds[h].status = "ACTIVE" /\ ~Booking!Due(h)}
  <2>1. /\ seatHolds' = Booking!WithStatus(own, "CONVERTED")
        /\ tickets' = [tickets EXCEPT ![s] = [status |-> "OWNED", heldBy |-> 0]]
        /\ UNCHANGED <<bookingNow, bookingQueues, sessionDrafts, seen>>
    BY DEF Booking!buyPrimary
  <2>2. \A h \in own : h \in DOMAIN seatHolds /\ seatHolds[h].status = "ACTIVE" OBVIOUS
  <2> HIDE DEF own
  <2> QED BY <2>1, <2>2
<1>3. OnlyEnds(own, "CONVERTED", seatHolds') BY <1>1, <1>2, StatusesSet
<1>4. /\ seatHolds' \in Seq(Booking!Hold) /\ Len(seatHolds') = Len(seatHolds)
      /\ HoldsKept(seatHolds, seatHolds') /\ NoNewSession(seatHolds, seatHolds')
  BY <1>3 DEF OnlyEnds
<1>5. Booking!TypeOK'
  BY SessionAssumption, <1>1, <1>2, <1>4 DEF Booking!TypeOK
<1> QED BY <1>2, <1>4, <1>5, QuietStep

LEMMA SessionNext ==
  ASSUME SessionIInv, Booking!Next PROVE SoundStep
BY SessionTick, SessionJoinQueue, SessionSeats, SessionCreateHold, SessionRenewHold,
   SessionReleaseHold, SessionCreateDraft, SessionDraft, HoldsCreate, HoldsRelease,
   HoldsToDraft, HoldsEndDraft, HoldsExtend, HoldsBuy
   DEF Booking!Next, Booking!SessionStep, Booking!HoldsStep

LEMMA SessionInit == ASSUME Booking!Init PROVE SessionIInv
<1> USE SessionAssumption
<1>1. Booking!TypeOK BY DEF Booking!Init, Booking!TypeOK, Booking!Outdated
<1>2. Booking!RevisionGuardsViews /\ DraftsFollowHolds
  BY DEF Booking!Init, Booking!Outdated, Booking!RevisionGuardsViews, DraftsFollowHolds
<1> QED BY <1>1, <1>2 DEF SessionIInv

LEMMA SessionStays == ASSUME SessionIInv, UNCHANGED bookingVars PROVE SessionIInv'
BY DEF bookingVars, SessionIInv, Booking!TypeOK, Booking!RevisionGuardsViews, DraftsFollowHolds,
       Booking!IsSession

LEMMA SessionSteps == [Next]_vars => [Booking!Next]_bookingVars
BY DEF Next, vars, webVars, bookingVars

LEMMA SessionAlways == Spec => []SessionIInv
<1>1. Init => SessionIInv BY SessionInit DEF Init
<1>2. SessionIInv /\ [Next]_vars => SessionIInv'
  BY SessionSteps, SessionNext, SoundStepSound, SessionStays
<1> QED BY <1>1, <1>2, PTL DEF Spec

(* backend/booking-session.js:146 and booking-holds.js:140: as long as the *)
(* revision a client was shown has not moved, no session hold was made on  *)
(* a seat it saw as free, no two active session holds name one seat, and   *)
(* whichever of the two modules is asked, a hold or a draft that ended     *)
(* stays ended and a hold that ran out is not prolonged.                   *)
THEOREM SessionHoldsSound == Spec => SessionHoldsAreSound
<1> DEFINE Kept ==
      /\ \A h \in DOMAIN seatHolds :
           /\ seatHolds[h].status # "ACTIVE" => seatHolds'[h] = seatHolds[h]
           /\ Booking!Due(h) => seatHolds'[h].expiresAt = seatHolds[h].expiresAt
      /\ \A h \in 1..MaxHolds : sessionDrafts[h].status = "EXPIRED" =>
           /\ sessionDrafts'[h].status = "EXPIRED"
           /\ seatHolds[h].status # "ACTIVE"
<1>1. SessionIInv => Booking!RevisionGuardsViews BY DEF SessionIInv
<1>2. SessionIInv /\ [Next]_vars => [Kept]_bookingVars
  BY SessionSteps, SessionNext, SoundStepSound
<1>3. Spec => []Booking!RevisionGuardsViews BY <1>1, SessionAlways, PTL
<1>4. Spec => [][Kept]_bookingVars
  BY <1>2, SessionAlways, PTL DEF Spec
<1>5. Spec => Booking!EndedHoldsStayEnded
  BY <1>4 DEF Booking!EndedHoldsStayEnded, Booking!vars, bookingVars
<1> QED BY <1>3, <1>5 DEF SessionHoldsAreSound

-----------------------------------------------------------------------------
(* App attestation and device registration.                                *)

InUse(r) == requests[r].phase \in {"verifying", "done"}
Used(r) == challenges[requests[r].challenge]

(* A request under way started in time and is not older than the timeout;  *)
(* one that is done consumed its challenge.                                *)
AttestIInv ==
  /\ Attest!TypeOK
  /\ \A r \in Request :
       /\ InUse(r) => /\ Used(r).issued
                      /\ requests[r].from < Used(r).expiresAt
                      /\ requests[r].from <= attestNow
       /\ requests[r].phase = "verifying" => attestNow <= requests[r].from + VERIFY_TIMEOUT
       /\ requests[r].phase = "done" =>
            Used(r).consumed /\ requests[r].to <= requests[r].from + VERIFY_TIMEOUT
  /\ \A q, r \in Request :
       InUse(q) /\ requests[r].phase = "done" /\ requests[q].challenge = requests[r].challenge
         => requests[q].from <= requests[r].to
  /\ \A c \in ChallengeId : challenges[c].stored => challenges[c].issued

(* What a step does to the requests and the challenges; a code is given    *)
(* out for a trusted device.                                               *)
ChallengesKept ==
  \A c \in ChallengeId :
    /\ challenges[c].issued => /\ challenges'[c].issued
                               /\ challenges'[c].expiresAt = challenges[c].expiresAt
                               /\ challenges[c].consumed => challenges'[c].consumed
    /\ challenges'[c].stored => challenges'[c].issued

CodeForTrusted ==
  \A r \in Request :
    requests[r].purpose = "ISSUE_QR" /\ requests[r].phase = "verifying"
      /\ requests'[r].phase = "done"
    => trustedDevices[requests[r].device] = "TRUSTED"

-----------------------------------------------------------------------------
LEMMA AttestTypes ==
  ASSUME Attest!TypeOK, NEW r \in Request
  PROVE  /\ requests[r].challenge \in ChallengeId /\ requests[r].device \in Device
         /\ requests[r].from \in Nat /\ requests[r].to \in Nat /\ attestNow \in Nat
         /\ Used(r).expiresAt \in Nat
BY DeviceAssumption DEF Attest!TypeOK, Attest!Challenge, Used

LEMMA AttestInit == ASSUME Attest!Init PROVE AttestIInv
<1> USE DeviceAssumption
<1>1. Attest!TypeOK
  BY DEF Attest!Init, Attest!TypeOK, Attest!Challenge, Attest!NoChallenge, Attest!Idle, Attest!Purpose
<1> QED BY <1>1 DEF Attest!Init, Attest!Idle, Attest!NoChallenge, AttestIInv, InUse

(* Requests and challenges one by one, for a step that starts none.        *)
LEMMA NoStart ==
  ASSUME AttestIInv, Attest!TypeOK', ChallengesKept, attestNow' = attestNow,
         \A r \in Request :
           \/ requests'[r] = requests[r]
           \/ requests'[r].phase = "refused"
           \/ /\ requests[r].phase = "verifying" /\ requests'[r].phase = "done"
              /\ requests'[r].challenge = requests[r].challenge
              /\ requests'[r].from = requests[r].from /\ requests'[r].to = attestNow
              /\ challenges'[requests[r].challenge].consumed
  PROVE  AttestIInv'
<1> USE DeviceAssumption
<1>1. ASSUME NEW r \in Request, InUse(r)'
      PROVE  /\ InUse(r) /\ requests'[r].challenge = requests[r].challenge
             /\ requests'[r].from = requests[r].from
             /\ Used(r)'.issued /\ Used(r)'.expiresAt = Used(r).expiresAt
             /\ Used(r).consumed => Used(r)'.consumed
             /\ \/ requests'[r] = requests[r]
                \/ requests'[r].to = attestNow /\ Used(r)'.consumed /\ requests[r].phase = "verifying"
  <2>1. InUse(r) /\ requests'[r].challenge = requests[r].challenge
    BY <1>1 DEF InUse
  <2>2. Used(r).issued /\ requests[r].challenge \in ChallengeId
    BY <2>1, AttestTypes DEF AttestIInv
  <2> QED BY <1>1, <2>1, <2>2 DEF InUse, Used, ChallengesKept
<1>2. ASSUME NEW r \in Request
      PROVE  /\ InUse(r)' => /\ Used(r)'.issued
                             /\ requests'[r].from < Used(r)'.expiresAt
                             /\ requests'[r].from <= attestNow'
             /\ requests'[r].phase = "verifying" => attestNow' <= requests'[r].from + VERIFY_TIMEOUT
             /\ requests'[r].phase = "done" =>
                  Used(r)'.consumed /\ requests'[r].to <= requests'[r].from + VERIFY_TIMEOUT
  BY <1>1 DEF AttestIInv, InUse
<1>3. ASSUME NEW q \in Request, NEW r \in Request, InUse(q)', requests'[r].phase = "done",
             requests'[q].challenge = requests'[r].challenge
      PROVE  requests'[q].from <= requests'[r].to
  <2>1. InUse(r)' BY <1>3 DEF InUse
  <2> QED BY <1>1, <1>3, <2>1 DEF AttestIInv, InUse
<1>4. \A c \in ChallengeId : challenges'[c].stored => challenges'[c].issued
  BY DEF ChallengesKept
<1> QED BY <1>2, <1>3, <1>4 DEF AttestIInv

LEMMA AttestIssue ==
  ASSUME AttestIInv, NEW c \in ChallengeId, NEW purpose \in Attest!Purpose, NEW d \in Device,
         Attest!issueChallenge(c, purpose, d)
  PROVE  AttestIInv' /\ CodeForTrusted
<1> USE DeviceAssumption
<1>1. /\ ~challenges[c].issued
      /\ challenges'[c] = [issued |-> TRUE, stored |-> TRUE, consumed |-> FALSE,
                           purpose |-> purpose, device |-> d,
                           expiresAt |-> attestNow + PROOF_TTL]
      /\ \A x \in ChallengeId : x # c =>
           \E stored \in BOOLEAN : challenges'[x] = [challenges[x] EXCEPT !.stored = stored]
      /\ DOMAIN challenges' = ChallengeId /\ challenges' = [x \in ChallengeId |-> challenges'[x]]
      /\ UNCHANGED <<attestNow, trustedDevices, requests>>
  BY DEF Attest!issueChallenge, AttestIInv, Attest!TypeOK, Attest!Challenge
<1>2. \A x \in ChallengeId : challenges[x] \in Attest!Challenge
  BY DEF AttestIInv, Attest!TypeOK
<1>3. \A x \in ChallengeId : challenges'[x] \in Attest!Challenge
  <2>1. attestNow + PROOF_TTL \in Nat BY DEF AttestIInv, Attest!TypeOK
  <2>2. challenges'[c] \in Attest!Challenge BY <1>1, <2>1 DEF Attest!Challenge
  <2>3. ASSUME NEW x \in ChallengeId, x # c PROVE challenges'[x] \in Attest!Challenge
    <3>1. PICK stored \in BOOLEAN : challenges'[x] = [challenges[x] EXCEPT !.stored = stored]
      BY <1>1, <2>3
    <3> QED BY <1>2, <3>1 DEF Attest!Challenge
  <2> QED BY <2>2, <2>3
<1>4. ChallengesKept
  <2>1. ASSUME NEW x \in ChallengeId, x # c
        PROVE  /\ challenges'[x].issued = challenges[x].issued
               /\ challenges'[x].consumed = challenges[x].consumed
               /\ challenges'[x].expiresAt = challenges[x].expiresAt
               /\ challenges'[x].stored => challenges[x].stored
    BY <1>2, <2>1 DEF Attest!issueChallenge, Attest!Challenge
  <2> QED BY <1>1, <2>1 DEF ChallengesKept, AttestIInv
<1>5. Attest!TypeOK' BY <1>1, <1>3 DEF AttestIInv, Attest!TypeOK
<1>6. AttestIInv' BY <1>1, <1>4, <1>5, NoStart
<1> QED BY <1>1, <1>6 DEF CodeForTrusted

LEMMA AttestVerify ==
  ASSUME AttestIInv, NEW r \in Request, NEW c \in ChallengeId, NEW purpose \in Attest!Purpose,
         NEW d \in Device, Attest!verifyProof(r, c, purpose, d)
  PROVE  AttestIInv' /\ CodeForTrusted
<1> USE DeviceAssumption
<1>1. /\ requests[r].phase = "idle"
      /\ challenges[c].stored /\ ~challenges[c].consumed /\ ~(challenges[c].expiresAt <= attestNow)
      /\ requests'[r] = [phase |-> "verifying", challenge |-> c, purpose |-> purpose,
                         device |-> d, from |-> attestNow, to |-> attestNow]
      /\ \A q \in Request : q # r => requests'[q] = requests[q]
      /\ UNCHANGED <<attestNow, challenges, trustedDevices>>
  BY DEF Attest!verifyProof, Attest!Matches, Attest!Expired, AttestIInv, Attest!TypeOK
<1>2. Attest!TypeOK' BY DEF Attest!verifyProof, AttestIInv, Attest!TypeOK
<1>3. challenges[c].issued /\ challenges[c].expiresAt \in Nat /\ attestNow \in Nat
  BY <1>1 DEF AttestIInv, Attest!TypeOK, Attest!Challenge
<1>4. ASSUME NEW q \in Request
      PROVE  /\ InUse(q)' => /\ Used(q)'.issued
                             /\ requests'[q].from < Used(q)'.expiresAt
                             /\ requests'[q].from <= attestNow'
             /\ requests'[q].phase = "verifying" => attestNow' <= requests'[q].from + VERIFY_TIMEOUT
             /\ requests'[q].phase = "done" =>
                  Used(q)'.consumed /\ requests'[q].to <= requests'[q].from + VERIFY_TIMEOUT
  <2>1. CASE q = r BY <1>1, <1>3, <2>1 DEF Used
  <2>2. CASE q # r BY <1>1, <2>2 DEF AttestIInv, InUse, Used
  <2> QED BY <2>1, <2>2
<1>5. ASSUME NEW q \in Request, NEW s \in Request, InUse(q)', requests'[s].phase = "done",
             requests'[q].challenge = requests'[s].challenge
      PROVE  requests'[q].from <= requests'[s].to
  <2>1. s # r /\ requests'[s] = requests[s] BY <1>1, <1>5
  <2>2. Used(s).consumed BY <1>5, <2>1 DEF AttestIInv
  <2>3. q # r BY <1>1, <1>5, <2>1, <2>2 DEF Used
  <2> QED BY <1>1, <1>5, <2>1, <2>3 DEF AttestIInv, InUse
<1>6. CodeForTrusted BY <1>1 DEF CodeForTrusted
<1>7. \A x \in ChallengeId : challenges'[x].stored => challenges'[x].issued
  BY <1>1 DEF AttestIInv
<1> QED BY <1>2, <1>4, <1>5, <1>6, <1>7 DEF AttestIInv

(* The end of a request whose proof was good.                              *)
LEMMA AttestVerified ==
  ASSUME AttestIInv, NEW r \in Request, Attest!Verified(r), NEW end \in {"done", "refused"},
         Attest!EndRequest(r, end),
         trustedDevices' \in [Device -> {"NONE", "TRUSTED", "REVOKED"}]
  PROVE  AttestIInv'
<1> USE DeviceAssumption
<1>1. /\ requests[r].phase = "verifying"
      /\ challenges' = [challenges EXCEPT ![requests[r].challenge].consumed = TRUE]
      /\ attestNow' = attestNow
      /\ requests' = [requests EXCEPT ![r].phase = end, ![r].to = attestNow]
  BY DEF Attest!Verified, Attest!EndRequest
<1>2. /\ requests[r].challenge \in ChallengeId
      /\ challenges[requests[r].challenge] \in Attest!Challenge
      /\ attestNow \in 0..AttestHorizon
      /\ requests[r] \in [phase : {"idle", "verifying", "done", "refused"}, challenge : ChallengeId,
             purpose : Attest!Purpose, device : Device, from : 0..AttestHorizon, to : 0..AttestHorizon]
  BY DEF AttestIInv, Attest!TypeOK
<1> DEFINE ended == [requests[r] EXCEPT !.phase = end, !.to = attestNow]
<1>3. /\ requests' = [requests EXCEPT ![r] = ended]
      /\ ended \in [phase : {"idle", "verifying", "done", "refused"}, challenge : ChallengeId,
             purpose : Attest!Purpose, device : Device, from : 0..AttestHorizon, to : 0..AttestHorizon]
      /\ ended.phase = end /\ ended.challenge = requests[r].challenge
      /\ ended.from = requests[r].from /\ ended.to = attestNow
  BY <1>1, <1>2, Zenon
<1> HIDE DEF ended
<1>4. /\ challenges' \in [ChallengeId -> Attest!Challenge]
      /\ ChallengesKept /\ challenges'[requests[r].challenge].consumed
  BY <1>1, <1>2, Zenon DEF AttestIInv, Attest!TypeOK, Attest!Challenge, ChallengesKept
<1>5. Attest!TypeOK'
  <2>1. requests' \in [Request ->
           [phase : {"idle", "verifying", "done", "refused"}, challenge : ChallengeId,
            purpose : Attest!Purpose, device : Device, from : 0..AttestHorizon, to : 0..AttestHorizon]]
    BY <1>3 DEF AttestIInv, Attest!TypeOK
  <2>2. attestNow' \in 0..AttestHorizon BY <1>1, <1>2
  <2> QED BY <1>4, <2>1, <2>2 DEF Attest!TypeOK
<1>6. \A q \in Request :
        \/ requests'[q] = requests[q]
        \/ q = r /\ requests'[q] = ended
  BY <1>3 DEF AttestIInv, Attest!TypeOK
<1> QED BY <1>1, <1>3, <1>4, <1>5, <1>6, NoStart, Zenon

LEMMA AttestTrust ==
  ASSUME AttestIInv, NEW r \in Request, Attest!trustDevice(r) PROVE AttestIInv' /\ CodeForTrusted
<1> USE DeviceAssumption
<1>1. trustedDevices' \in [Device -> {"NONE", "TRUSTED", "REVOKED"}]
  BY DEF Attest!trustDevice, AttestIInv, Attest!TypeOK
<1>2. AttestIInv' BY <1>1, AttestVerified DEF Attest!trustDevice
<1>3. \A q \in Request : q # r => requests'[q] = requests[q]
  BY DEF Attest!trustDevice, Attest!EndRequest, AttestIInv, Attest!TypeOK
<1> QED BY <1>2, <1>3 DEF CodeForTrusted, Attest!trustDevice

LEMMA AttestQr ==
  ASSUME AttestIInv, NEW r \in Request, Attest!issueQr(r) PROVE AttestIInv' /\ CodeForTrusted
<1> USE DeviceAssumption
<1>1. trustedDevices' \in [Device -> {"NONE", "TRUSTED", "REVOKED"}]
  BY DEF Attest!issueQr, AttestIInv, Attest!TypeOK
<1>2. AttestIInv' BY <1>1, AttestVerified DEF Attest!issueQr
<1>3. \A q \in Request : q # r => requests'[q] = requests[q]
  BY DEF Attest!issueQr, Attest!EndRequest, AttestIInv, Attest!TypeOK
<1>4. requests'[r].phase = "done" => trustedDevices[requests[r].device] = "TRUSTED"
  BY DEF Attest!issueQr, Attest!EndRequest, Attest!requireTrustedDevice, AttestIInv, Attest!TypeOK
<1> QED BY <1>2, <1>3, <1>4 DEF CodeForTrusted

LEMMA AttestRefused ==
  ASSUME AttestIInv, NEW r \in Request, Attest!ProofRefused(r) PROVE AttestIInv' /\ CodeForTrusted
<1> USE DeviceAssumption
<1>1. requests' \in [Request ->
       [phase : {"idle", "verifying", "done", "refused"}, challenge : ChallengeId,
        purpose : Attest!Purpose, device : Device, from : 0..AttestHorizon, to : 0..AttestHorizon]]
  <2>1. Attest!TypeOK BY DEF AttestIInv
  <2> QED BY <2>1, ZenonT(60) DEF Attest!ProofRefused, Attest!EndRequest, Attest!TypeOK
<1>2. \A q \in Request : requests'[q] = requests[q] \/ requests'[q].phase = "refused"
  BY DEF Attest!ProofRefused, Attest!EndRequest, AttestIInv, Attest!TypeOK
<1>3. ChallengesKept BY DEF ChallengesKept, AttestIInv, Attest!ProofRefused
<1>4. Attest!TypeOK' BY <1>1 DEF Attest!ProofRefused, AttestIInv, Attest!TypeOK
<1>5. AttestIInv' BY <1>2, <1>3, <1>4, NoStart DEF Attest!ProofRefused
<1> QED BY <1>2, <1>5 DEF CodeForTrusted

LEMMA AttestRestart ==
  ASSUME AttestIInv, Attest!Restart PROVE AttestIInv' /\ CodeForTrusted
<1> USE DeviceAssumption
<1>1. requests' \in [Request ->
       [phase : {"idle", "verifying", "done", "refused"}, challenge : ChallengeId,
        purpose : Attest!Purpose, device : Device, from : 0..AttestHorizon, to : 0..AttestHorizon]]
  <2> DEFINE R == [phase : {"idle", "verifying", "done", "refused"}, challenge : ChallengeId,
        purpose : Attest!Purpose, device : Device, from : 0..AttestHorizon, to : 0..AttestHorizon]
  <2>1. ASSUME NEW q \in Request
        PROVE  requests[q] \in R /\ [requests[q] EXCEPT !.phase = "refused", !.to = attestNow] \in R
    BY Zenon DEF AttestIInv, Attest!TypeOK
  <2> HIDE DEF R
  <2>2. requests' \in [Request -> R] BY <2>1, Zenon DEF Attest!Restart
  <2> QED BY <2>2 DEF R
<1>2. \A q \in Request : requests'[q] = requests[q] \/ requests'[q].phase = "refused"
  BY Zenon DEF Attest!Restart, AttestIInv, Attest!TypeOK
<1>3. ChallengesKept BY Zenon DEF ChallengesKept, AttestIInv, Attest!Restart
<1>4. Attest!TypeOK' BY <1>1, Zenon DEF Attest!Restart, AttestIInv, Attest!TypeOK
<1>5. AttestIInv' BY <1>2, <1>3, <1>4, NoStart, Zenon DEF Attest!Restart
<1> QED BY <1>2, <1>5 DEF CodeForTrusted

LEMMA AttestRevoke ==
  ASSUME AttestIInv, NEW d \in Device, Attest!revokeDevice(d) PROVE AttestIInv' /\ CodeForTrusted
<1>1. Attest!TypeOK' BY DEF Attest!revokeDevice, AttestIInv, Attest!TypeOK
<1>2. ChallengesKept BY DEF ChallengesKept, AttestIInv, Attest!revokeDevice
<1>3. AttestIInv' BY <1>1, <1>2, NoStart DEF Attest!revokeDevice
<1> QED BY <1>3 DEF CodeForTrusted, Attest!revokeDevice

LEMMA AttestTick ==
  ASSUME AttestIInv, Attest!Tick PROVE AttestIInv' /\ CodeForTrusted
<1> USE DeviceAssumption
<1>1. Attest!TypeOK' BY DEF Attest!Tick, AttestIInv, Attest!TypeOK
<1>2. ASSUME NEW r \in Request
      PROVE  /\ InUse(r) => requests[r].from <= attestNow'
             /\ requests[r].phase = "verifying" => attestNow' <= requests[r].from + VERIFY_TIMEOUT
  BY AttestTypes DEF Attest!Tick, AttestIInv
<1>3. AttestIInv' BY <1>1, <1>2 DEF Attest!Tick, AttestIInv, InUse, Used
<1> QED BY <1>3 DEF CodeForTrusted, Attest!Tick

LEMMA AttestNext ==
  ASSUME AttestIInv, Attest!Next PROVE AttestIInv' /\ CodeForTrusted
BY AttestTick, AttestRestart, AttestIssue, AttestVerify, AttestTrust, AttestQr, AttestRefused,
   AttestRevoke
   DEF Attest!Next

LEMMA AttestOverlap == ASSUME AttestIInv PROVE Attest!UsesOfAChallengeOverlap
<1> USE DeviceAssumption
<1> SUFFICES ASSUME NEW q \in Request, NEW r \in Request,
                    requests[q].phase = "done", requests[r].phase = "done",
                    requests[q].challenge = requests[r].challenge
             PROVE  /\ requests[q].from <= requests[r].to
                    /\ requests[r].to < challenges[requests[r].challenge].expiresAt + VERIFY_TIMEOUT
  BY DEF Attest!UsesOfAChallengeOverlap
<1>1. requests[q].from <= requests[r].to BY DEF AttestIInv, InUse
<1>2. /\ requests[r].from < Used(r).expiresAt
      /\ requests[r].to <= requests[r].from + VERIFY_TIMEOUT
  BY DEF AttestIInv, InUse
<1>3. requests[r].from \in Nat /\ requests[r].to \in Nat /\ Used(r).expiresAt \in Nat
  BY AttestTypes DEF AttestIInv
<1> QED BY <1>1, <1>2, <1>3 DEF Used

-----------------------------------------------------------------------------
(* A push token is only kept while the device is trusted.                  *)
RegistrationIInv ==
  Registration!TypeOK /\ (device.pushTokenHash # NULL => device.status = "TRUSTED")

ClearedByRevocation ==
  /\ device'.pushTokenHash # NULL => device'.status = "TRUSTED"
  /\ device'.counter >= device.counter
  /\ device.status # "TRUSTED" /\ device'.status = "TRUSTED" =>
       device'.counter > device.counter /\ device'.pushTokenHash = NULL

LEMMA RegistrationInit == ASSUME Registration!Init PROVE RegistrationIInv
BY DeviceAssumption DEF Registration!Init, RegistrationIInv, Registration!TypeOK

LEMMA RegistrationNext ==
  ASSUME RegistrationIInv, Registration!Next PROVE RegistrationIInv' /\ ClearedByRevocation
<1> USE DeviceAssumption DEF RegistrationIInv, Registration!TypeOK, ClearedByRevocation
<1>1. CASE Registration!Tick BY <1>1 DEF Registration!Tick
<1>2. ASSUME NEW c \in ChallengeId, Registration!challenge(c)
      PROVE  RegistrationIInv' /\ ClearedByRevocation
  BY <1>2 DEF Registration!challenge
<1>3. ASSUME NEW c \in ChallengeId, NEW counter \in 1..MaxCounter, Registration!trust(c, counter)
      PROVE  RegistrationIInv' /\ ClearedByRevocation
  <2>1. deviceChallenges' \in
          [ChallengeId -> [status : {"NONE", "PENDING", "USED"}, expiresAt : Nat]]
    BY <1>3 DEF Registration!trust
  <2>2. /\ counter > device.counter
        /\ device' = [device EXCEPT !.status = "TRUSTED", !.counter = counter]
        /\ deviceNow' = deviceNow
    BY <1>3 DEF Registration!trust, Registration!CounterIsNew
  <2>3. /\ device'.status = "TRUSTED" /\ device'.counter = counter
        /\ device'.pushTokenHash = device.pushTokenHash
        /\ device' \in [status : {"NONE", "TRUSTED", "REVOKED"}, counter : 0..MaxCounter,
                       pushTokenHash : Token \union {NULL}]
    <3>1. device \in [status : {"NONE", "TRUSTED", "REVOKED"}, counter : 0..MaxCounter,
                      pushTokenHash : Token \union {NULL}]
      OBVIOUS
    <3>2. counter \in 0..MaxCounter OBVIOUS
    <3> HIDE DEF RegistrationIInv, Registration!TypeOK, ClearedByRevocation
    <3> QED BY <2>2, <3>1, <3>2, Zenon
  <2>4. deviceNow' \in 0..DeviceHorizon /\ counter \in Nat /\ device.counter \in Nat BY <2>2
  <2> QED BY <2>1, <2>2, <2>3, <2>4
<1>4. ASSUME NEW token \in Token, Registration!putPushToken(token)
      PROVE  RegistrationIInv' /\ ClearedByRevocation
  BY <1>4 DEF Registration!putPushToken
<1>5. CASE Registration!revokePushToken BY <1>5 DEF Registration!revokePushToken
<1>6. CASE Registration!revokeDeviceRegistration
  <2>1. /\ device' = [device EXCEPT !.status = "REVOKED", !.pushTokenHash = NULL]
        /\ UNCHANGED <<deviceNow, deviceChallenges>>
    BY <1>6 DEF Registration!revokeDeviceRegistration, Registration!Revoked
  <2>4. /\ device'.status = "REVOKED" /\ device'.pushTokenHash = NULL
        /\ device'.counter = device.counter
    BY <2>1
  <2>2. device' \in [status : {"NONE", "TRUSTED", "REVOKED"}, counter : 0..MaxCounter,
                    pushTokenHash : Token \union {NULL}]
    <3>1. device \in [status : {"NONE", "TRUSTED", "REVOKED"}, counter : 0..MaxCounter,
                      pushTokenHash : Token \union {NULL}]
      OBVIOUS
    <3> HIDE DEF RegistrationIInv, Registration!TypeOK, ClearedByRevocation
    <3> QED BY <2>1, <3>1, Zenon
  <2>3. device.counter \in Nat OBVIOUS
  <2> QED BY <2>1, <2>2, <2>3, <2>4
<1> QED BY <1>1, <1>2, <1>3, <1>4, <1>5, <1>6 DEF Registration!Next

-----------------------------------------------------------------------------
LEMMA DeviceSteps == [Next]_vars => [Attest!Next]_attestVars /\ [Registration!Next]_deviceVars
BY DEF Next, vars, webVars, attestVars, deviceVars

LEMMA DevicesStay ==
  /\ AttestIInv /\ UNCHANGED attestVars => AttestIInv'
  /\ RegistrationIInv /\ UNCHANGED deviceVars => RegistrationIInv'
BY DEF attestVars, deviceVars, AttestIInv, Attest!TypeOK, InUse, Used,
       RegistrationIInv, Registration!TypeOK

LEMMA DevicesAlways == Spec => [](AttestIInv /\ RegistrationIInv)
<1>1. Init => AttestIInv /\ RegistrationIInv
  BY AttestInit, RegistrationInit DEF Init
<1>2. AttestIInv /\ RegistrationIInv /\ [Next]_vars => (AttestIInv /\ RegistrationIInv)'
  BY DeviceSteps, DevicesStay, AttestNext, RegistrationNext
<1> QED BY <1>1, <1>2, PTL DEF Spec

(* backend/app-attest.js:85, admission-devices.js:73 and                   *)
(* device-registration.js: all uses of a challenge overlap, although it is *)
(* consumed only after the verifier was awaited, admission codes go to     *)
(* devices trusted at that moment, and nothing of a device's earlier life  *)
(* comes back when it is trusted again.                                    *)
THEOREM DevicesProven == Spec => DevicesAreProven
<1>1. Spec => []Attest!UsesOfAChallengeOverlap
  BY DevicesAlways, AttestOverlap, PTL
<1>2. AttestIInv /\ RegistrationIInv /\ [Next]_vars
        => [CodeForTrusted]_attestVars /\ [ClearedByRevocation]_deviceVars
  BY DeviceSteps, AttestNext, RegistrationNext
<1>3. Spec => [][CodeForTrusted]_attestVars /\ [][ClearedByRevocation]_deviceVars
  BY <1>2, DevicesAlways, PTL DEF Spec
<1>4. Spec => Attest!CodesGoToTrustedDevices
  BY <1>3 DEF CodeForTrusted, Attest!CodesGoToTrustedDevices, Attest!vars, attestVars
<1>5. Spec => Registration!RevocationClearsTheDevice
  BY <1>3 DEF ClearedByRevocation, Registration!RevocationClearsTheDevice, Registration!vars, deviceVars
<1> QED BY <1>1, <1>4, <1>5 DEF DevicesAreProven

-----------------------------------------------------------------------------
(* The keys of card purchases.  TossPurchaseProofs proves of the purchases *)
(* alone what holds of them here: its instance and the one of Services     *)
(* have the same initial states and the same steps.                        *)
Purchases == INSTANCE TossPurchaseProofs WITH
  tickets <- cardTickets, disk <- cardDisk, Request <- Order, User <- Buyer,
  Verified <- VerifiedBuyer

LEMMA PurchaseConstants == Purchases!RequestAssumption /\ Purchases!ConstantsAssumption
BY PurchaseAssumption
   DEF Purchases!RequestAssumption, Purchases!ConstantsAssumption, IsInjective

LEMMA CardInit == Card!Init = Purchases!Init
BY DEF Card!Init, Purchases!Init, Card!OnSale, Purchases!OnSale, Card!Snapshot, Purchases!Snapshot

LEMMA CardNext == Card!Next = Purchases!Next
BY DEF Card!db, Purchases!db, Card!Snapshot, Purchases!Snapshot, Card!OnSale,
       Purchases!OnSale, Card!Unavailable, Purchases!Unavailable, Card!Claimed,
       Purchases!Claimed, Card!Owned, Purchases!Owned, Card!UnsoldState,
       Purchases!UnsoldState, Card!TicketSet, Purchases!TicketSet, Card!IsGroup,
       Purchases!IsGroup, Card!UnderKey, Purchases!UnderKey, Card!Replays,
       Purchases!Replays, Card!Conflicts, Purchases!Conflicts, Card!Purchasable,
       Purchases!Purchasable, Card!Total, Purchases!Total, Card!OrderTotal,
       Purchases!OrderTotal, Card!splitGroupAmount, Purchases!splitGroupAmount,
       Card!RecordedAmounts, Purchases!RecordedAmounts, Card!Refuse,
       Purchases!Refuse, Card!AskProvider, Purchases!AskProvider, Card!Begin,
       Purchases!Begin, Card!ProviderCaptures, Purchases!ProviderCaptures,
       Card!ProviderDeclines, Purchases!ProviderDeclines, Card!AnswerLost,
       Purchases!AnswerLost, Card!AmountMatches, Purchases!AmountMatches,
       Card!Mismatch, Purchases!Mismatch, Card!MaySell, Purchases!MaySell,
       Card!Sold, Purchases!Sold, Card!Transaction, Purchases!Transaction,
       Card!Sell, Purchases!Sell, Card!NeedsRefund, Purchases!NeedsRefund,
       Card!Allocate, Purchases!Allocate, Card!Reply, Purchases!Reply,
       Card!SaveFails, Purchases!SaveFails, Card!OthersChange,
       Purchases!OthersChange, Card!Reprice, Purchases!Reprice, Card!OthersSave,
       Purchases!OthersSave, Card!Answered, Purchases!Answered, Card!Restart,
       Purchases!Restart, Card!Next, Purchases!Next, Card!MapThenSumSet,
       Purchases!MapThenSumSet, Card!MapThenFoldSet, Purchases!MapThenFoldSet

LEMMA CardSteps == [Next]_vars => [Purchases!Next]_Purchases!vars
BY CardNext DEF Next, vars, webVars, cardVars, Purchases!vars, Purchases!db

(* backend/commerce.js: findIdempotentPurchase and buyPrimary agree on     *)
(* what a key was used for, so that a key of a user buys one order with    *)
(* one payment.                                                            *)
THEOREM KeyBuysOnce == Spec => []OnePurchasePerKey
<1>1. Init => Purchases!Init BY CardInit DEF Init
<1>2. Spec => Purchases!Spec BY <1>1, CardSteps, PTL DEF Spec, Purchases!Spec
<1>3. Purchases!Spec => []Purchases!OnePurchasePerKey
  BY PurchaseConstants, Purchases!SpecOnePurchasePerKey, PTL
<1>4. Purchases!OnePurchasePerKey => OnePurchasePerKey
  BY DEF OnePurchasePerKey, Card!OnePurchasePerKey, Purchases!OnePurchasePerKey
<1> QED BY <1>2, <1>3, <1>4, PTL

-----------------------------------------------------------------------------
(* Sequences without repetition.                                           *)

LEMMA TailOnce ==
  ASSUME NEW S, NEW q \in Seq(S), q # <<>>, IsInjective(q)
  PROVE  /\ Tail(q) \in Seq(S) /\ IsInjective(Tail(q)) /\ Head(q) \in S
         /\ Head(q) \in Range(q)
         /\ \A x \in Range(Tail(q)) : x \in Range(q) /\ x # Head(q)
<1>1. /\ Len(q) \in Nat /\ Len(q) >= 1 /\ DOMAIN q = 1..Len(q)
      /\ Tail(q) \in Seq(S) /\ Len(Tail(q)) = Len(q) - 1 /\ Head(q) = q[1] /\ q[1] \in S
      /\ DOMAIN Tail(q) = 1..(Len(q) - 1)
      /\ \A i \in 1..(Len(q) - 1) : Tail(q)[i] = q[i + 1] /\ i + 1 \in 1..Len(q) /\ i + 1 # 1
  OBVIOUS
<1>2. IsInjective(Tail(q))
  <2> SUFFICES ASSUME NEW i \in DOMAIN Tail(q), NEW j \in DOMAIN Tail(q), Tail(q)[i] = Tail(q)[j]
               PROVE  i = j
    BY DEF IsInjective
  <2>1. q[i + 1] = q[j + 1] BY <1>1
  <2>2. i + 1 = j + 1 BY <1>1, <2>1 DEF IsInjective
  <2> QED BY <1>1, <2>2
<1>3. 1 \in DOMAIN q BY <1>1
<1>4. ASSUME NEW x \in Range(Tail(q)) PROVE x \in Range(q) /\ x # Head(q)
  <2>1. PICK i \in 1..(Len(q) - 1) : x = Tail(q)[i] BY <1>1, <1>4 DEF Range
  <2>2. x = q[i + 1] /\ i + 1 \in DOMAIN q /\ i + 1 # 1 BY <1>1, <2>1
  <2>3. x # q[1] BY <1>3, <2>2 DEF IsInjective
  <2> QED BY <1>1, <2>2, <2>3 DEF Range
<1> QED BY <1>1, <1>2, <1>3, <1>4 DEF Range

LEMMA AppendOnce ==
  ASSUME NEW S, NEW q \in Seq(S), NEW x \in S, IsInjective(q), x \notin Range(q)
  PROVE  /\ Append(q, x) \in Seq(S) /\ IsInjective(Append(q, x))
         /\ Append(q, x) # <<>>
         /\ \A y \in Range(Append(q, x)) : y \in Range(q) \/ y = x
<1>1. /\ Len(q) \in Nat /\ DOMAIN q = 1..Len(q)
      /\ Append(q, x) \in Seq(S) /\ DOMAIN Append(q, x) = 1..(Len(q) + 1)
      /\ Append(q, x) # <<>>
      /\ Append(q, x)[Len(q) + 1] = x
      /\ \A i \in DOMAIN q : Append(q, x)[i] = q[i] /\ q[i] # x
      /\ \A i \in 1..(Len(q) + 1) : i \in DOMAIN q \/ i = Len(q) + 1
  BY DEF Range
<1>2. IsInjective(Append(q, x)) BY <1>1 DEF IsInjective
<1> QED BY <1>1, <1>2 DEF Range

LEMMA KeptOnce ==
  ASSUME NEW t \in Terminal, NEW S, NEW q \in Seq(S), IsInjective(q)
  PROVE  /\ Scanner(t)!Kept(q) \in Seq(S) /\ IsInjective(Scanner(t)!Kept(q))
         /\ Len(Scanner(t)!Kept(q)) <= QueueMaxOf[t]
         /\ \A x \in Range(Scanner(t)!Kept(q)) : x \in Range(q)
<1> DEFINE m == QueueMaxOf[t]
           k == Scanner(t)!Kept(q)
           n == Len(q) - m
<1>1. m \in Nat /\ Len(q) \in Nat /\ DOMAIN q = 1..Len(q) BY TerminalAssumption
<1>2. CASE Len(q) > m
  <2>1. k = SubSeq(q, n + 1, Len(q)) BY <1>2, Zenon DEF Scanner!Kept
  <2> HIDE DEF k
  <2>2. /\ n \in Nat /\ n + m = Len(q)
    BY <1>1, <1>2
  <2> HIDE DEF n, m
  <2>3. /\ k \in Seq(S) /\ Len(k) = m /\ DOMAIN k = 1..m
        /\ \A i \in 1..m : k[i] = q[n + i] /\ n + i \in DOMAIN q
    <3>1. n + 1 \in Int /\ Len(q) \in Int /\ \A i \in n + 1 .. Len(q) : q[i] \in S
      BY <1>1, <2>2
    <3>2. /\ k \in Seq(S)
          /\ Len(k) = IF n + 1 <= Len(q) THEN Len(q) - (n + 1) + 1 ELSE 0
          /\ \A i \in 1 .. Len(q) - (n + 1) + 1 : k[i] = q[n + 1 + i - 1]
      BY <2>1, <3>1, SubSeqProperties
    <3>3. Len(q) - (n + 1) + 1 = m /\ (n + 1 <= Len(q) \/ m = 0)
      <4>1. \A a, b, l \in Nat : a + b = l => l - (a + 1) + 1 = b /\ (a + 1 <= l \/ b = 0)
        OBVIOUS
      <4> QED BY <1>1, <2>2, <4>1, Zenon
    <3>4. Len(k) = m /\ \A i \in 1..m : k[i] = q[n + 1 + i - 1] BY <3>2, <3>3
    <3>5. \A i \in 1..m : n + 1 + i - 1 = n + i /\ n + i \in DOMAIN q BY <1>1, <2>2
    <3>6. DOMAIN k = 1..m BY <3>2, <3>4
    <3> QED BY <3>2, <3>4, <3>5, <3>6
  <2>4. IsInjective(k)
    <3> SUFFICES ASSUME NEW i \in 1..m, NEW j \in 1..m, k[i] = k[j] PROVE i = j
      BY <2>3 DEF IsInjective
    <3>1. n + i = n + j BY <2>3 DEF IsInjective
    <3> QED BY <1>1, <2>2, <3>1
  <2>5. \A x \in Range(k) : x \in Range(q) BY <2>3 DEF Range
  <2> QED BY <1>1, <2>3, <2>4, <2>5 DEF k, m
<1>3. CASE ~(Len(q) > m)
  <2>1. k = q BY <1>3 DEF Scanner!Kept
  <2> QED BY <1>1, <1>3, <2>1
<1> QED BY <1>2, <1>3

(* The gate terminal.  A sequence that is a queue or a part of one: it     *)
(* holds a scan once, and only scans that were shown as queued.            *)
QueuedOnce(q) == IsInjective(q) /\ \A s \in Range(q) : "queued" \in told[s]

(* A scan is shown nothing before it ends, has an answer only while it     *)
(* waits for one, a gate then, and a code since it was read.               *)
ScansInOrder ==
  \A s \in Scan :
    /\ scans[s].status # "done" => told[s] = {}
    /\ scans[s].status # "sent" => scans[s].answer = NULL
    /\ scans[s].status = "sent" => scans[s].token # NULL
    /\ scans[s].status # "none" => scans[s].code \in Code

(* A flush sends each scan of its snapshot once, and ends with the last.   *)
FlushInOrder(flush) ==
  /\ QueuedOnce(flush.todo) /\ QueuedOnce(flush.remaining)
  /\ \A s \in Range(flush.todo) : s \notin Range(flush.remaining)
  /\ flush.token # NULL => flush.todo # <<>>
FlushesInOrder(t) ==
  /\ QueuedOnce(queue) /\ Len(queue) <= QueueMaxOf[t]
  /\ \A f \in FlushesOf[t] : FlushInOrder(flushes[f])

(* The server has given verdict v on scan s: it was shown, or is on its    *)
(* way, to the page or to a flush.                                         *)
GivenToFlush(t, f, s, v) ==
  flushes[f].token # NULL /\ flushes[f].answer = v /\ Head(flushes[f].todo) = s
Given(t, s, v) ==
  v \in told[s] \/ scans[s].answer = v \/ \E f \in FlushesOf[t] : GivenToFlush(t, f, s, v)

VerdictsAreTrue(t) ==
  /\ \A s, u \in Scan : Given(t, s, "accepted") /\ Given(t, u, "accepted")
                          /\ scans[s].code = scans[u].code => s = u
  /\ \A s \in Scan, v \in {"accepted", "already-used"} :
       Given(t, s, v) => usedBy[scans[s].code] # NULL

GateIInv(t) ==
  /\ Scanner(t)!TypeOK
  /\ ScansInOrder
  /\ FlushesInOrder(t)
  /\ VerdictsAreTrue(t)

GateToken(t) == DOMAIN AdmitsAt[t] \union {NULL}
FlushRecord(t) == [token : GateToken(t), todo : Seq(Scan), remaining : Seq(Scan),
                   answer : Scanner(t)!Answer]

LEMMA GateInit == ASSUME NEW t \in Terminal, Scanner(t)!Init PROVE GateIInv(t)
<1> USE TerminalAssumption
<1>0. <<>> \in Seq(Scan) /\ QueuedOnce(<<>>) BY DEF QueuedOnce, IsInjective, Range
<1>1. Scanner(t)!TypeOK
  BY <1>0 DEF Scanner!Init, Scanner!TypeOK, Scanner!NotRead, Scanner!NoFlush,
              Scanner!Answer, Scanner!Outcome, Scanner!Verdict
<1>2. ScansInOrder BY DEF Scanner!Init, Scanner!NotRead, ScansInOrder
<1>3. FlushesInOrder(t)
  <2>1. QueuedOnce(queue) /\ Len(queue) <= QueueMaxOf[t] BY <1>0 DEF Scanner!Init
  <2>2. ASSUME NEW f \in FlushesOf[t] PROVE FlushInOrder(flushes[f])
    BY <1>0 DEF Scanner!Init, Scanner!NoFlush, FlushInOrder, Range
  <2> QED BY <2>1, <2>2 DEF FlushesInOrder
<1>4. VerdictsAreTrue(t)
  <2>1. \A s \in Scan, v \in {"accepted", "already-used"} : ~Given(t, s, v)
    BY DEF Scanner!Init, Scanner!NotRead, Scanner!NoFlush, Given, GivenToFlush
  <2> QED BY <2>1 DEF VerdictsAreTrue
<1> QED BY <1>1, <1>2, <1>3, <1>4 DEF GateIInv

(* A verdict on code c in this step is about what the server knew of it.   *)
TrueVerdict(v, c) ==
  /\ v \in {"accepted", "already-used", "rejected", "refused"}
  /\ v = "accepted" => usedBy[c] = NULL /\ usedBy'[c] # NULL
  /\ v = "already-used" => usedBy[c] # NULL

(* What verifyQr says, and what it leaves on the record of the code.       *)
LEMMA VerifyQr ==
  ASSUME NEW t \in Terminal, Scanner(t)!TypeOK, NEW c \in Code, NEW g \in GateToken(t), g # NULL,
         Scanner(t)!Consume(c, g)
  PROVE  /\ usedBy' \in [Code -> GateToken(t)]
         /\ \A d \in Code : usedBy[d] # NULL => usedBy'[d] # NULL
         /\ TrueVerdict(Scanner(t)!verifyQr(c, g), c)
<1> DEFINE v == Scanner(t)!verifyQr(c, g)
<1>1. /\ v \in {"accepted", "already-used", "rejected", "refused"}
      /\ v = "accepted" => usedBy[c] = NULL
      /\ v = "already-used" => usedBy[c] # NULL
  BY DEF Scanner!verifyQr
<1>2. usedBy' = IF v = "accepted" THEN [usedBy EXCEPT ![c] = g] ELSE usedBy
  BY DEF Scanner!Consume
<1>3. usedBy \in [Code -> GateToken(t)] BY DEF Scanner!TypeOK, GateToken
<1> HIDE DEF v
<1>4. /\ usedBy' \in [Code -> GateToken(t)]
      /\ \A d \in Code : usedBy[d] # NULL => usedBy'[d] # NULL
      /\ v = "accepted" => usedBy'[c] # NULL
  BY <1>2, <1>3
<1>5. TrueVerdict(v, c) BY <1>1, <1>4 DEF TrueVerdict
<1> QED BY <1>4, <1>5 DEF v

-----------------------------------------------------------------------------
(* Sequences of scans stay as they are when more is shown.                 *)
LEMMA QueuedStays ==
  ASSUME NEW t \in Terminal, Scanner(t)!TypeOK, \A s \in Scan : told[s] \subseteq told'[s],
         NEW q \in Seq(Scan), QueuedOnce(q)
  PROVE  IsInjective(q) /\ \A s \in Range(q) : "queued" \in told'[s]
<1>1. \A s \in Range(q) : s \in Scan BY DEF Range
<1> QED BY <1>1 DEF QueuedOnce

(* The end of a turn of a flush.                                           *)
LEMMA TurnEnds ==
  ASSUME NEW t \in Terminal, GateIInv(t), NEW f \in FlushesOf[t], flushes[f].token # NULL,
         NEW rest \in Seq(Scan), QueuedOnce(rest),
         \A s \in Range(rest) : s \in Range(flushes[f].remaining) \/ s = Head(flushes[f].todo),
         Scanner(t)!NextInFlush(f, rest)
  PROVE  /\ queue' \in Seq(Scan) /\ QueuedOnce(queue') /\ Len(queue') <= QueueMaxOf[t]
         /\ flushes' \in [FlushesOf[t] -> FlushRecord(t)]
         /\ \A g \in FlushesOf[t] :
              /\ FlushInOrder(flushes'[g])
              /\ g # f => flushes'[g] = flushes[g]
              /\ g = f => flushes'[g].answer = NULL
<1> DEFINE todo == flushes[f].todo
           left == Tail(todo)
<1> USE TerminalAssumption
<1>1. /\ queue \in Seq(Scan) /\ QueuedOnce(queue) /\ Len(queue) <= QueueMaxOf[t]
      /\ flushes \in [FlushesOf[t] -> FlushRecord(t)]
      /\ \A g \in FlushesOf[t] : FlushInOrder(flushes[g])
  BY DEF GateIInv, Scanner!TypeOK, FlushesInOrder, FlushRecord, GateToken
<1>2. /\ todo \in Seq(Scan) /\ todo # <<>> /\ QueuedOnce(todo)
      /\ \A s \in Range(todo) : s \notin Range(flushes[f].remaining)
  BY <1>1, Zenon DEF FlushInOrder, FlushRecord
<1>3. /\ left \in Seq(Scan) /\ IsInjective(left) /\ Head(todo) \in Scan
      /\ \A s \in Range(left) : s \in Range(todo) /\ s # Head(todo)
  BY <1>2, TailOnce DEF QueuedOnce
<1>4. QueuedOnce(left) /\ \A s \in Range(left) : s \notin Range(rest)
  BY <1>2, <1>3 DEF QueuedOnce
<1>5. CASE left = <<>>
  <2>1. flushes' = [flushes EXCEPT ![f] = Scanner(t)!NoFlush] /\ queue' = Scanner(t)!Kept(rest)
    BY <1>5 DEF Scanner!NextInFlush, Scanner!WriteBack
  <2>2. queue' \in Seq(Scan) /\ QueuedOnce(queue') /\ Len(queue') <= QueueMaxOf[t]
    BY <2>1, KeptOnce DEF QueuedOnce
  <2>3. Scanner(t)!NoFlush \in FlushRecord(t) /\ FlushInOrder(Scanner(t)!NoFlush)
    BY DEF Scanner!NoFlush, Scanner!Answer, FlushRecord, GateToken, FlushInOrder, QueuedOnce,
           IsInjective, Range
  <2>4. Scanner(t)!NoFlush.answer = NULL BY DEF Scanner!NoFlush
  <2> HIDE DEF todo, left
  <2> QED BY <1>1, <2>1, <2>2, <2>3, <2>4
<1>6. CASE left # <<>>
  <2> DEFINE next == [flushes[f] EXCEPT !.todo = left, !.remaining = rest, !.answer = NULL]
  <2>1. flushes' = [flushes EXCEPT ![f] = next] /\ queue' = queue
    BY <1>6 DEF Scanner!NextInFlush
  <2>2. /\ next \in FlushRecord(t) /\ next.todo = left /\ next.remaining = rest
        /\ next.answer = NULL
    BY <1>1, <1>3, Zenon DEF FlushRecord, Scanner!Answer
  <2> HIDE DEF todo, left, next
  <2>3. FlushInOrder(next) BY <1>4, <1>6, <2>2 DEF FlushInOrder
  <2> QED BY <1>1, <2>1, <2>2, <2>3
<1> QED BY <1>5, <1>6

(* A flush that starts, or finds nothing to do.                            *)
LEMMA FlushStarts ==
  ASSUME NEW t \in Terminal, GateIInv(t), NEW token \in GateToken(t),
         NEW running \in [FlushesOf[t] -> FlushRecord(t)],
         \A g \in FlushesOf[t] : FlushInOrder(running[g]),
         Scanner(t)!StartFlush(token, running)
  PROVE  /\ flushes' \in [FlushesOf[t] -> FlushRecord(t)]
         /\ \A g \in FlushesOf[t] :
              /\ FlushInOrder(flushes'[g])
              /\ flushes'[g] = running[g] \/ flushes'[g].answer = NULL
<1> USE TerminalAssumption
<1>1. CASE flushes' = running BY <1>1
<1>2. CASE \E f \in FlushesOf[t] : /\ token # NULL /\ queue # <<>>
             /\ flushes' = [running EXCEPT ![f] =
                  [token |-> token, todo |-> queue, remaining |-> <<>>, answer |-> NULL]]
  <2> DEFINE new == [token |-> token, todo |-> queue, remaining |-> <<>>, answer |-> NULL]
  <2>1. PICK f \in FlushesOf[t] : flushes' = [running EXCEPT ![f] = new] /\ queue # <<>>
    BY <1>2, Zenon
  <2>2. new \in FlushRecord(t) /\ new.answer = NULL
    BY DEF FlushRecord, Scanner!Answer, GateIInv, Scanner!TypeOK
  <2>3. FlushInOrder(new)
    BY <2>1 DEF GateIInv, FlushesInOrder, FlushInOrder, QueuedOnce, IsInjective, Range
  <2> HIDE DEF new
  <2> QED BY <2>1, <2>2, <2>3
<1> QED BY <1>1, <1>2 DEF Scanner!StartFlush

(* Nothing was given on a scan that has not been read.                     *)
LEMMA UnreadUngiven ==
  ASSUME NEW t \in Terminal, GateIInv(t), NEW s \in Scan, told[s] = {}, scans[s].answer = NULL
  PROVE  \A w \in {"accepted", "already-used"} : ~Given(t, s, w)
<1> SUFFICES ASSUME NEW f \in FlushesOf[t], flushes[f].token # NULL, Head(flushes[f].todo) = s
             PROVE  FALSE
  BY TerminalAssumption DEF Given, GivenToFlush
<1>1. flushes[f].todo \in Seq(Scan) /\ flushes[f].todo # <<>> /\ QueuedOnce(flushes[f].todo)
  BY DEF GateIInv, Scanner!TypeOK, FlushesInOrder, FlushInOrder
<1>2. s \in Range(flushes[f].todo) BY <1>1, TailOnce DEF QueuedOnce
<1> QED BY <1>1, <1>2 DEF QueuedOnce

(* Verdicts stay true as long as no more are given than the server gives.  *)
LEMMA VerdictsStay ==
  ASSUME NEW t \in Terminal, GateIInv(t),
         \A c \in Code : usedBy[c] # NULL => usedBy'[c] # NULL,
         \A s \in Scan, w \in {"accepted", "already-used"} :
           Given(t, s, w)' => Given(t, s, w) /\ scans'[s].code = scans[s].code
  PROVE  VerdictsAreTrue(t)'
<1>1. \A s \in Scan : scans[s].status # "none" => scans[s].code \in Code
  BY DEF GateIInv, ScansInOrder
<1>2. ASSUME NEW s \in Scan, NEW w \in {"accepted", "already-used"}, Given(t, s, w)
      PROVE  scans[s].code \in Code
  <2>1. scans[s].status # "none" \/ (told[s] = {} /\ scans[s].answer = NULL)
    BY DEF GateIInv, ScansInOrder
  <2> QED BY <1>1, <1>2, <2>1, UnreadUngiven
<1>3. \A s, u \in Scan : Given(t, s, "accepted")' /\ Given(t, u, "accepted")'
                           /\ scans'[s].code = scans'[u].code => s = u
  BY DEF GateIInv, VerdictsAreTrue
<1>4. \A s \in Scan, w \in {"accepted", "already-used"} :
        Given(t, s, w)' => usedBy'[scans'[s].code] # NULL
  BY <1>2 DEF GateIInv, VerdictsAreTrue
<1> QED BY <1>3, <1>4 DEF VerdictsAreTrue

LEMMA VerdictsGrow ==
  ASSUME NEW t \in Terminal, GateIInv(t), NEW x \in Scan, NEW v, scans[x].code \in Code,
         TrueVerdict(v, scans[x].code),
         \A c \in Code : usedBy[c] # NULL => usedBy'[c] # NULL,
         \A s \in Scan : scans'[s].code = scans[s].code,
         \A s \in Scan, w \in {"accepted", "already-used"} :
           Given(t, s, w)' => Given(t, s, w) \/ (s = x /\ w = v)
  PROVE  VerdictsAreTrue(t)'
<1>1. ASSUME NEW s \in Scan, NEW w \in {"accepted", "already-used"}, Given(t, s, w)
      PROVE  scans[s].code \in Code
  <2>1. scans[s].status # "none" => scans[s].code \in Code BY DEF GateIInv, ScansInOrder
  <2>2. scans[s].status = "none" => told[s] = {} /\ scans[s].answer = NULL
    BY DEF GateIInv, ScansInOrder
  <2> QED BY <1>1, <2>1, <2>2, UnreadUngiven
<1>2. \A s \in Scan, w \in {"accepted", "already-used"} :
        Given(t, s, w) => usedBy[scans[s].code] # NULL
  BY DEF GateIInv, VerdictsAreTrue
<1>3. \A s, u \in Scan : Given(t, s, "accepted") /\ Given(t, u, "accepted")
                           /\ scans[s].code = scans[u].code => s = u
  BY DEF GateIInv, VerdictsAreTrue
<1>4. ASSUME NEW s \in Scan, NEW u \in Scan, Given(t, s, "accepted")', Given(t, u, "accepted")',
             scans'[s].code = scans'[u].code
      PROVE  s = u
  <2>1. CASE v = "accepted"
    <3>1. \A y \in Scan : scans[y].code = scans[x].code => ~Given(t, y, "accepted")
      BY <1>2, <2>1 DEF TrueVerdict
    <3> QED BY <1>3, <1>4, <3>1
  <2>2. CASE v # "accepted" BY <1>3, <1>4, <2>2
  <2> QED BY <2>1, <2>2
<1>5. ASSUME NEW s \in Scan, NEW w \in {"accepted", "already-used"}, Given(t, s, w)'
      PROVE  usedBy'[scans'[s].code] # NULL
  <2>1. CASE Given(t, s, w) BY <1>1, <1>2, <2>1
  <2>2. CASE s = x /\ w = v BY <2>2 DEF TrueVerdict
  <2> QED BY <1>5, <2>1, <2>2
<1> QED BY <1>4, <1>5 DEF VerdictsAreTrue

(* The page and its queue as they are.                                     *)
LEMMA SameQueues ==
  ASSUME NEW t \in Terminal, GateIInv(t),
         queue' = queue, flushes' = flushes, told' = told
  PROVE  FlushesInOrder(t)'
BY DEF GateIInv, FlushesInOrder, FlushInOrder, QueuedOnce

-----------------------------------------------------------------------------
LEMMA ServerSteps ==
  ASSUME NEW t \in Terminal, GateIInv(t),
         \/ \E g \in DOMAIN AdmitsAt[t] :
              Scanner(t)!issueGateSession(g) \/ Scanner(t)!revokeGateSession(g)
         \/ \E c \in Code :
              \/ Scanner(t)!Expire(c)
              \/ \E g \in DOMAIN AdmitsAt[t] : Scanner(t)!ScannedElsewhere(c, g)
  PROVE  GateIInv(t)'
<1> USE TerminalAssumption
<1>0. /\ Scanner(t)!TypeOK
      /\ \A g \in DOMAIN AdmitsAt[t] : g # NULL /\ g \in GateToken(t)
  BY DEF GateIInv, GateToken
<1>1. /\ <<storedToken, queue, gateToken, lastPayload, scans, flushes, told>>' =
         <<storedToken, queue, gateToken, lastPayload, scans, flushes, told>>
      /\ \/ usedBy' = usedBy
         \/ \E c \in Code, g \in DOMAIN AdmitsAt[t] : Scanner(t)!Consume(c, g)
  BY DEF Scanner!issueGateSession, Scanner!revokeGateSession, Scanner!Expire,
         Scanner!ScannedElsewhere, Scanner!pageVars
<1>2. /\ usedBy' \in [Code -> GateToken(t)]
      /\ \A d \in Code : usedBy[d] # NULL => usedBy'[d] # NULL
  <2>1. usedBy \in [Code -> GateToken(t)] BY <1>0 DEF Scanner!TypeOK, GateToken
  <2> QED BY <1>0, <1>1, <2>1, VerifyQr
<1>3. Scanner(t)!TypeOK'
  <2>1. /\ gates' \in [DOMAIN AdmitsAt[t] -> {"NONE", "ACTIVE", "REVOKED"}]
        /\ expired' \in [Code -> BOOLEAN]
    BY <1>0, Zenon DEF Scanner!TypeOK, Scanner!issueGateSession, Scanner!revokeGateSession,
                Scanner!Expire, Scanner!ScannedElsewhere
  <2> QED BY <1>0, <1>1, <1>2, <2>1 DEF Scanner!TypeOK, GateToken
<1>4. ScansInOrder' BY <1>1 DEF GateIInv, ScansInOrder
<1>5. FlushesInOrder(t)' BY <1>1, SameQueues
<1>6. VerdictsAreTrue(t)'
  <2>1. \A s \in Scan, w \in {"accepted", "already-used"} : Given(t, s, w)' = Given(t, s, w)
    BY <1>1 DEF Given, GivenToFlush
  <2> QED BY <1>1, <1>2, <2>1, VerdictsStay
<1> QED BY <1>3, <1>4, <1>5, <1>6 DEF GateIInv

LEMMA PageSteps ==
  ASSUME NEW t \in Terminal, GateIInv(t),
         \/ \E g \in DOMAIN AdmitsAt[t] : Scanner(t)!saveGateToken(g)
         \/ Scanner(t)!Mount \/ Scanner(t)!resetGateToken
         \/ Scanner(t)!handleOnline \/ Scanner(t)!CooldownEnds
  PROVE  GateIInv(t)'
<1> USE TerminalAssumption
<1> DEFINE Ended(s) == [status |-> "done", code |-> scans[s].code, token |-> NULL, answer |-> NULL]
<1>0. Scanner(t)!TypeOK BY DEF GateIInv
<1>1. /\ <<gates, usedBy, expired, queue, told>>' = <<gates, usedBy, expired, queue, told>>
      /\ \/ scans' = scans
         \/ scans' = [s \in Scan |-> IF scans[s].status = "sent" THEN Ended(s) ELSE scans[s]]
  BY ZenonT(60)
     DEF Scanner!Mount, Scanner!saveGateToken, Scanner!resetGateToken, Scanner!handleOnline,
         Scanner!CooldownEnds, Scanner!serverVars, Scanner!Done, Scanner!NotRead
<1>2. \A s \in Scan : /\ \/ scans'[s] = scans[s]
                         \/ scans'[s] = Ended(s) /\ scans[s].status = "sent"
                      /\ scans'[s].code = scans[s].code
                      /\ scans'[s].answer \in {scans[s].answer, NULL}
  <2>1. CASE scans' = scans BY <2>1
  <2>2. CASE scans' = [s \in Scan |-> IF scans[s].status = "sent" THEN Ended(s) ELSE scans[s]]
    <3> SUFFICES ASSUME NEW s \in Scan
                 PROVE  /\ \/ scans'[s] = scans[s]
                           \/ scans'[s] = Ended(s) /\ scans[s].status = "sent"
                        /\ scans'[s].code = scans[s].code
                        /\ scans'[s].answer \in {scans[s].answer, NULL}
      OBVIOUS
    <3>1. Ended(s).code = scans[s].code /\ Ended(s).answer = NULL OBVIOUS
    <3> HIDE DEF Ended
    <3> QED BY <2>2, <3>1
  <2> QED BY <1>1, <2>1, <2>2
<1>3. storedToken' \in GateToken(t) /\ gateToken' \in GateToken(t)
      /\ lastPayload' \in Code \union {NULL}
  BY <1>0 DEF Scanner!TypeOK, GateToken, Scanner!Mount, Scanner!saveGateToken,
              Scanner!resetGateToken, Scanner!handleOnline, Scanner!CooldownEnds
<1>4. /\ flushes' \in [FlushesOf[t] -> FlushRecord(t)]
      /\ \A f \in FlushesOf[t] : /\ FlushInOrder(flushes'[f])
                                 /\ flushes'[f] = flushes[f] \/ flushes'[f].answer = NULL
  <2>1. /\ flushes \in [FlushesOf[t] -> FlushRecord(t)]
        /\ storedToken \in GateToken(t) /\ gateToken \in GateToken(t)
        /\ \A f \in FlushesOf[t] : FlushInOrder(flushes[f])
    BY <1>0 DEF Scanner!TypeOK, GateToken, FlushRecord, GateIInv, FlushesInOrder
  <2>2. CASE Scanner(t)!Mount
    <3> DEFINE none == [f \in FlushesOf[t] |-> Scanner(t)!NoFlush]
    <3>1. Scanner(t)!NoFlush \in FlushRecord(t) /\ FlushInOrder(Scanner(t)!NoFlush)
      BY DEF Scanner!NoFlush, Scanner!Answer, FlushRecord, GateToken, FlushInOrder, QueuedOnce,
             IsInjective, Range
    <3>2. Scanner(t)!NoFlush.answer = NULL BY DEF Scanner!NoFlush
    <3>3. /\ none \in [FlushesOf[t] -> FlushRecord(t)]
          /\ \A f \in FlushesOf[t] : FlushInOrder(none[f]) /\ none[f].answer = NULL
      BY <3>1, <3>2
    <3>4. Scanner(t)!StartFlush(storedToken, none) BY <2>2 DEF Scanner!Mount
    <3> HIDE DEF none
    <3>5. /\ flushes' \in [FlushesOf[t] -> FlushRecord(t)]
          /\ \A f \in FlushesOf[t] : /\ FlushInOrder(flushes'[f])
                                     /\ flushes'[f] = none[f] \/ flushes'[f].answer = NULL
      BY <2>1, <3>3, <3>4, FlushStarts
    <3> QED BY <3>3, <3>5
  <2>3. ASSUME NEW g \in DOMAIN AdmitsAt[t], Scanner(t)!saveGateToken(g)
        PROVE  /\ flushes' \in [FlushesOf[t] -> FlushRecord(t)]
               /\ \A f \in FlushesOf[t] : /\ FlushInOrder(flushes'[f])
                                          /\ flushes'[f] = flushes[f] \/ flushes'[f].answer = NULL
    <3>1. g \in GateToken(t) BY DEF GateToken
    <3> QED BY <2>1, <2>3, <3>1, FlushStarts DEF Scanner!saveGateToken
  <2>4. CASE Scanner(t)!handleOnline
    BY <1>0, <2>1, <2>4, FlushStarts DEF Scanner!handleOnline
  <2>5. CASE Scanner(t)!resetGateToken \/ Scanner(t)!CooldownEnds
    <3>1. flushes' = flushes BY <2>5 DEF Scanner!resetGateToken, Scanner!CooldownEnds
    <3> QED BY <2>1, <3>1
  <2> QED BY <2>2, <2>3, <2>4, <2>5
<1>5. Scanner(t)!TypeOK'
  <2>1. scans' \in [Scan -> [status : {"none", "sent", "done"}, code : Code \union {NULL},
                             token : GateToken(t), answer : Scanner(t)!Answer]]
    BY <1>0, <1>1 DEF Scanner!TypeOK, GateToken, Scanner!Answer
  <2> QED BY <1>0, <1>1, <1>3, <1>4, <2>1 DEF Scanner!TypeOK, GateToken, FlushRecord
<1>6. ScansInOrder' BY <1>1, <1>2 DEF GateIInv, ScansInOrder
<1>7. FlushesInOrder(t)'
  <2>1. QueuedOnce(queue)' /\ Len(queue') <= QueueMaxOf[t]
    BY <1>1 DEF GateIInv, FlushesInOrder, QueuedOnce
  <2>2. \A f \in FlushesOf[t] : FlushInOrder(flushes[f])'
    BY <1>1, <1>4, Zenon DEF FlushInOrder, QueuedOnce
  <2> QED BY <2>1, <2>2 DEF FlushesInOrder
<1>8. VerdictsAreTrue(t)'
  <2>1. ASSUME NEW s \in Scan, NEW w \in {"accepted", "already-used"}, Given(t, s, w)'
        PROVE  Given(t, s, w) /\ scans'[s].code = scans[s].code
    <3>1. w # NULL OBVIOUS
    <3>2. scans'[s].answer = w => scans[s].answer = w BY <1>2, <3>1, Zenon
    <3>3. \A f \in FlushesOf[t] : GivenToFlush(t, f, s, w)' => GivenToFlush(t, f, s, w)
      BY <1>4, <3>1 DEF GivenToFlush
    <3>4. Given(t, s, w) BY <1>1, <2>1, <3>2, <3>3 DEF Given
    <3> QED BY <1>2, <3>4, Zenon
  <2> QED BY <1>1, <2>1, VerdictsStay
<1> QED BY <1>5, <1>6, <1>7, <1>8 DEF GateIInv

-----------------------------------------------------------------------------
LEMMA ReadStep ==
  ASSUME NEW t \in Terminal, GateIInv(t), NEW x \in Scan, NEW c \in Code,
         Scanner(t)!handleDecodedText(x, c)
  PROVE  GateIInv(t)'
<1> USE TerminalAssumption
<1> DEFINE sent == [status |-> "sent", code |-> c, token |-> gateToken, answer |-> NULL]
<1>0. Scanner(t)!TypeOK BY DEF GateIInv
<1>1. /\ UNCHANGED <<gates, usedBy, expired, storedToken, queue, gateToken, flushes, told>>
      /\ lastPayload' = c /\ scans' = [scans EXCEPT ![x] = sent] /\ scans[x].status = "none"
      /\ gateToken # NULL
  BY DEF Scanner!handleDecodedText, Scanner!serverVars
<1>2. \A s \in Scan : scans'[s] = IF s = x THEN sent ELSE scans[s]
  BY <1>0, <1>1 DEF Scanner!TypeOK
<1>3. told[x] = {} /\ scans[x].answer = NULL BY <1>1 DEF GateIInv, ScansInOrder
<1>4. Scanner(t)!TypeOK' BY <1>0, <1>1 DEF Scanner!TypeOK, Scanner!Answer
<1>5. ScansInOrder' BY <1>1, <1>2, <1>3 DEF GateIInv, ScansInOrder
<1>6. FlushesInOrder(t)' BY <1>1, SameQueues
<1>7. VerdictsAreTrue(t)'
  <2>1. ASSUME NEW s \in Scan, NEW w \in {"accepted", "already-used"}, Given(t, s, w)'
        PROVE  Given(t, s, w) /\ scans'[s].code = scans[s].code
    <3>1. Given(t, s, w) BY <1>1, <1>2, <2>1 DEF Given, GivenToFlush
    <3>2. s # x BY <1>3, <3>1, UnreadUngiven
    <3> QED BY <1>2, <3>1, <3>2
  <2> QED BY <1>1, <2>1, VerdictsStay
<1> QED BY <1>4, <1>5, <1>6, <1>7 DEF GateIInv

LEMMA ScanVerifiedStep ==
  ASSUME NEW t \in Terminal, GateIInv(t), NEW x \in Scan, Scanner(t)!ScanVerified(x)
  PROVE  GateIInv(t)'
<1> USE TerminalAssumption
<1> DEFINE code == scans[x].code
           token == scans[x].token
           v == Scanner(t)!verifyQr(code, token)
<1>0. Scanner(t)!TypeOK BY DEF GateIInv
<1>1. /\ UNCHANGED <<gates, expired, storedToken, queue, gateToken, lastPayload, flushes, told>>
      /\ scans' = [scans EXCEPT ![x].answer = v] /\ Scanner(t)!Consume(code, token)
      /\ scans[x].status = "sent"
  BY DEF Scanner!ScanVerified
<1>2. code \in Code /\ token \in GateToken(t) /\ token # NULL
  BY <1>0, <1>1 DEF GateIInv, ScansInOrder, Scanner!TypeOK, GateToken
<1>3. /\ usedBy' \in [Code -> GateToken(t)]
      /\ \A d \in Code : usedBy[d] # NULL => usedBy'[d] # NULL
      /\ TrueVerdict(v, code)
  BY <1>0, <1>1, <1>2, VerifyQr
<1>4. v \in Scanner(t)!Answer BY <1>3 DEF TrueVerdict, Scanner!Answer, Scanner!Verdict
<1>5. scans \in [Scan -> [status : {"none", "sent", "done"}, code : Code \union {NULL},
                          token : GateToken(t), answer : Scanner(t)!Answer]]
  BY <1>0 DEF Scanner!TypeOK, GateToken
<1> HIDE DEF v
<1>6. /\ scans' \in [Scan -> [status : {"none", "sent", "done"}, code : Code \union {NULL},
                              token : GateToken(t), answer : Scanner(t)!Answer]]
      /\ \A s \in Scan : /\ s # x => scans'[s] = scans[s]
                         /\ scans'[s].code = scans[s].code
                         /\ scans'[s].status = scans[s].status
                         /\ scans'[s].token = scans[s].token
      /\ scans'[x].answer = v
  BY <1>1, <1>4, <1>5
<1>7. Scanner(t)!TypeOK' BY <1>0, <1>1, <1>3, <1>6 DEF Scanner!TypeOK, GateToken
<1>8. ScansInOrder' BY <1>1, <1>6 DEF GateIInv, ScansInOrder
<1>9. FlushesInOrder(t)' BY <1>1, SameQueues
<1>10. VerdictsAreTrue(t)'
  <2>1. ASSUME NEW s \in Scan, NEW w \in {"accepted", "already-used"}, Given(t, s, w)',
               ~Given(t, s, w)
        PROVE  s = x /\ w = v
    BY <1>1, <1>6, <2>1 DEF Given, GivenToFlush
  <2>2. \A s \in Scan, w \in {"accepted", "already-used"} :
          Given(t, s, w)' => Given(t, s, w) \/ (s = x /\ w = v)
    BY <2>1
  <2>3. \A s \in Scan : scans'[s].code = scans[s].code BY <1>6
  <2> QED BY <1>2, <1>3, <2>2, <2>3, VerdictsGrow
<1> QED BY <1>7, <1>8, <1>9, <1>10 DEF GateIInv

(* A scan ends: it is shown an outcome, and only a verdict it was given.   *)
LEMMA ScanEnds ==
  ASSUME NEW t \in Terminal, GateIInv(t), NEW x \in Scan,
         \/ Scanner(t)!ScanAnswered(x) \/ Scanner(t)!ScanLost(x) \/ Scanner(t)!ScanUnreadable(x)
  PROVE  GateIInv(t)'
<1> USE TerminalAssumption
<1> DEFINE Ended == [status |-> "done", code |-> scans[x].code, token |-> NULL, answer |-> NULL]
<1>0. Scanner(t)!TypeOK BY DEF GateIInv
<1>1. PICK o \in {"accepted", "already-used", "rejected", "queued", "error"} :
        /\ scans' = [scans EXCEPT ![x] = Ended]
        /\ told' = [told EXCEPT ![x] = @ \union {o}]
        /\ UNCHANGED <<gates, usedBy, expired, storedToken, gateToken, lastPayload, flushes>>
        /\ scans[x].status = "sent"
        /\ o \in {"accepted", "already-used"} => scans[x].answer = o
        /\ \/ queue' = queue
           \/ queue' = Scanner(t)!Kept(Append(queue, x)) /\ o = "queued"
  BY Zenon DEF Scanner!ScanAnswered, Scanner!ScanLost, Scanner!ScanUnreadable, Scanner!EndScan,
         Scanner!Done, Scanner!NotRead, Scanner!serverVars, Scanner!Verdict
<1>2. /\ scans \in [Scan -> [status : {"none", "sent", "done"}, code : Code \union {NULL},
                             token : GateToken(t), answer : Scanner(t)!Answer]]
      /\ told \in [Scan -> SUBSET Scanner(t)!Outcome]
  BY <1>0 DEF Scanner!TypeOK, GateToken
<1>3. /\ Ended.code = scans[x].code /\ Ended.answer = NULL /\ Ended.status = "done"
      /\ Ended \in [status : {"none", "sent", "done"}, code : Code \union {NULL},
                    token : GateToken(t), answer : Scanner(t)!Answer]
      /\ o \in Scanner(t)!Outcome
  BY <1>2 DEF GateToken, Scanner!Answer, Scanner!Outcome, Scanner!Verdict
<1> HIDE DEF Ended
<1>4. /\ scans' \in [Scan -> [status : {"none", "sent", "done"}, code : Code \union {NULL},
                              token : GateToken(t), answer : Scanner(t)!Answer]]
      /\ told' \in [Scan -> SUBSET Scanner(t)!Outcome]
      /\ \A s \in Scan : /\ s # x => scans'[s] = scans[s] /\ told'[s] = told[s]
                         /\ scans'[s].code = scans[s].code
                         /\ told[s] \subseteq told'[s]
      /\ scans'[x].answer = NULL /\ scans'[x].status = "done" /\ told'[x] = told[x] \union {o}
  BY <1>1, <1>2, <1>3
<1>5. /\ queue' \in Seq(Scan) /\ Len(queue') <= QueueMaxOf[t] /\ IsInjective(queue')
      /\ \A s \in Range(queue') : "queued" \in told'[s]
  <2>1. /\ queue \in Seq(Scan) /\ QueuedOnce(queue) /\ Len(queue) <= QueueMaxOf[t]
    BY <1>0 DEF Scanner!TypeOK, GateIInv, FlushesInOrder
  <2>2. IsInjective(queue) /\ \A s \in Range(queue) : "queued" \in told'[s]
    BY <1>0, <1>4, <2>1, QueuedStays
  <2>3. CASE queue' = Scanner(t)!Kept(Append(queue, x)) /\ o = "queued"
    <3>1. told[x] = {} BY <1>1 DEF GateIInv, ScansInOrder
    <3>2. x \notin Range(queue) BY <2>1, <3>1 DEF QueuedOnce
    <3>3. /\ Append(queue, x) \in Seq(Scan) /\ IsInjective(Append(queue, x))
          /\ \A y \in Range(Append(queue, x)) : y \in Range(queue) \/ y = x
      BY <2>1, <2>2, <3>2, AppendOnce
    <3> QED BY <1>4, <2>2, <2>3, <3>3, KeptOnce, Zenon
  <2> QED BY <1>1, <2>1, <2>2, <2>3
<1>6. Scanner(t)!TypeOK' BY <1>0, <1>1, <1>4, <1>5 DEF Scanner!TypeOK, GateToken
<1>7. ScansInOrder'
  <2>1. scans[x].code \in Code BY <1>1 DEF GateIInv, ScansInOrder
  <2> QED BY <1>4, <2>1 DEF GateIInv, ScansInOrder
<1>8. FlushesInOrder(t)'
  <2>1. ASSUME NEW f \in FlushesOf[t] PROVE FlushInOrder(flushes[f])'
    <3>1. flushes[f].todo \in Seq(Scan) /\ flushes[f].remaining \in Seq(Scan)
      BY <1>0 DEF Scanner!TypeOK
    <3>2. FlushInOrder(flushes[f]) BY DEF GateIInv, FlushesInOrder
    <3>3. \A q \in {flushes[f].todo, flushes[f].remaining} :
            IsInjective(q) /\ \A s \in Range(q) : "queued" \in told'[s]
      BY <1>0, <1>4, <3>1, <3>2, QueuedStays DEF FlushInOrder
    <3> QED BY <1>1, <3>2, <3>3 DEF FlushInOrder, QueuedOnce
  <2> QED BY <1>5, <2>1 DEF FlushesInOrder, QueuedOnce
<1>9. VerdictsAreTrue(t)'
  <2>1. ASSUME NEW s \in Scan, NEW w \in {"accepted", "already-used"}, Given(t, s, w)'
        PROVE  Given(t, s, w)
    BY <1>1, <1>4, <2>1 DEF Given, GivenToFlush
  <2> QED BY <1>1, <1>4, <2>1, VerdictsStay
<1> QED BY <1>6, <1>7, <1>8, <1>9 DEF GateIInv

-----------------------------------------------------------------------------
LEMMA FlushVerifiedStep ==
  ASSUME NEW t \in Terminal, GateIInv(t), NEW f \in FlushesOf[t], Scanner(t)!FlushVerified(f)
  PROVE  GateIInv(t)'
<1> USE TerminalAssumption
<1> DEFINE x == Head(flushes[f].todo)
           code == scans[x].code
           token == flushes[f].token
           v == Scanner(t)!verifyQr(code, token)
<1>0. Scanner(t)!TypeOK BY DEF GateIInv
<1>1. /\ UNCHANGED <<gates, expired, storedToken, queue, gateToken, lastPayload, scans, told>>
      /\ flushes' = [flushes EXCEPT ![f].answer = v] /\ Scanner(t)!Consume(code, token)
      /\ token # NULL
  BY DEF Scanner!FlushVerified, Scanner!Idle
<1>2. /\ flushes \in [FlushesOf[t] -> FlushRecord(t)]
      /\ \A g \in FlushesOf[t] : FlushInOrder(flushes[g])
  BY <1>0 DEF Scanner!TypeOK, FlushRecord, GateToken, GateIInv, FlushesInOrder
<1>3. /\ flushes[f].todo \in Seq(Scan) /\ flushes[f].todo # <<>> /\ QueuedOnce(flushes[f].todo)
      /\ token \in GateToken(t)
  BY <1>1, <1>2 DEF FlushInOrder, FlushRecord
<1>4. x \in Scan /\ "queued" \in told[x] BY <1>3, TailOnce DEF QueuedOnce
<1>5. code \in Code
  <2>1. scans[x].status = "done" BY <1>4 DEF GateIInv, ScansInOrder
  <2> QED BY <1>4, <2>1 DEF GateIInv, ScansInOrder
<1>6. /\ usedBy' \in [Code -> GateToken(t)]
      /\ \A d \in Code : usedBy[d] # NULL => usedBy'[d] # NULL
      /\ TrueVerdict(v, code)
  BY <1>0, <1>1, <1>3, <1>5, VerifyQr
<1>7. v \in Scanner(t)!Answer BY <1>6 DEF TrueVerdict, Scanner!Answer, Scanner!Verdict
<1> HIDE DEF v
<1>8. /\ flushes' \in [FlushesOf[t] -> FlushRecord(t)]
      /\ \A g \in FlushesOf[t] : /\ g # f => flushes'[g] = flushes[g]
                                 /\ flushes'[g].todo = flushes[g].todo
                                 /\ flushes'[g].remaining = flushes[g].remaining
                                 /\ flushes'[g].token = flushes[g].token
      /\ flushes'[f].answer = v
  BY <1>1, <1>2, <1>7 DEF FlushRecord
<1>9. Scanner(t)!TypeOK'
  BY <1>0, <1>1, <1>6, <1>8 DEF Scanner!TypeOK, GateToken, FlushRecord
<1>10. ScansInOrder' BY <1>1 DEF GateIInv, ScansInOrder
<1>11. FlushesInOrder(t)'
  <2>1. QueuedOnce(queue)' /\ Len(queue') <= QueueMaxOf[t]
    BY <1>1 DEF GateIInv, FlushesInOrder, QueuedOnce
  <2>2. \A g \in FlushesOf[t] : FlushInOrder(flushes[g])'
    BY <1>1, <1>2, <1>8, Zenon DEF FlushInOrder, QueuedOnce
  <2> QED BY <2>1, <2>2 DEF FlushesInOrder
<1>12. VerdictsAreTrue(t)'
  <2>1. ASSUME NEW s \in Scan, NEW w \in {"accepted", "already-used"}, Given(t, s, w)',
               ~Given(t, s, w)
        PROVE  s = x /\ w = v
    <3>1. PICK g \in FlushesOf[t] : GivenToFlush(t, g, s, w)' /\ ~GivenToFlush(t, g, s, w)
      BY <1>1, <2>1 DEF Given
    <3>2. g = f BY <1>8, <3>1 DEF GivenToFlush
    <3> QED BY <1>8, <3>1, <3>2 DEF GivenToFlush
  <2>2. \A s \in Scan, w \in {"accepted", "already-used"} :
          Given(t, s, w)' => Given(t, s, w) \/ (s = x /\ w = v)
    BY <2>1
  <2>3. \A s \in Scan : scans'[s].code = scans[s].code BY <1>1
  <2> QED BY <1>4, <1>5, <1>6, <2>2, <2>3, VerdictsGrow
<1> QED BY <1>9, <1>10, <1>11, <1>12 DEF GateIInv

(* The turn of a flush ends: the verdict is shown, or the scan is kept.    *)
LEMMA FlushTurn ==
  ASSUME NEW t \in Terminal, GateIInv(t), NEW f \in FlushesOf[t],
         Scanner(t)!FlushAnswered(f) \/ Scanner(t)!FlushFails(f)
  PROVE  GateIInv(t)'
<1> USE TerminalAssumption
<1> DEFINE x == Head(flushes[f].todo)
           left == flushes[f].remaining
<1>0. Scanner(t)!TypeOK BY DEF GateIInv
<1>1. /\ flushes \in [FlushesOf[t] -> FlushRecord(t)]
      /\ \A g \in FlushesOf[t] : FlushInOrder(flushes[g])
      /\ told \in [Scan -> SUBSET Scanner(t)!Outcome]
  BY <1>0 DEF Scanner!TypeOK, FlushRecord, GateToken, GateIInv, FlushesInOrder
<1>2. UNCHANGED <<gates, usedBy, expired, storedToken, gateToken, lastPayload, scans>>
      /\ flushes[f].token # NULL
  BY DEF Scanner!FlushAnswered, Scanner!FlushFails, Scanner!Idle, Scanner!serverVars
<1>3. /\ flushes[f].todo \in Seq(Scan) /\ flushes[f].todo # <<>> /\ QueuedOnce(flushes[f].todo)
      /\ left \in Seq(Scan) /\ QueuedOnce(left)
      /\ \A s \in Range(flushes[f].todo) : s \notin Range(left)
  BY <1>1, <1>2, Zenon DEF FlushInOrder, FlushRecord
<1>4. x \in Scan /\ x \in Range(flushes[f].todo) /\ "queued" \in told[x] /\ x \notin Range(left)
  BY <1>3, TailOnce DEF QueuedOnce
<1>5. /\ \A s \in Scan : told[s] \subseteq told'[s]
      /\ told' \in [Scan -> SUBSET Scanner(t)!Outcome]
      /\ \A s \in Scan, w \in {"accepted", "already-used"} :
           w \in told'[s] => w \in told[s] \/ (s = x /\ flushes[f].answer = w)
  <2>1. CASE Scanner(t)!FlushFails(f)
    <3>1. told' = told BY <2>1 DEF Scanner!FlushFails
    <3> QED BY <1>1, <3>1
  <2>2. CASE Scanner(t)!FlushAnswered(f)
    <3>1. /\ told' = [told EXCEPT ![x] = @ \union {flushes[f].answer}]
          /\ flushes[f].answer \in Scanner(t)!Outcome
      BY <2>2 DEF Scanner!FlushAnswered, Scanner!Outcome
    <3> QED BY <1>1, <1>4, <3>1
  <2> QED BY <2>1, <2>2
<1>6. /\ queue' \in Seq(Scan) /\ QueuedOnce(queue') /\ Len(queue') <= QueueMaxOf[t]
      /\ flushes' \in [FlushesOf[t] -> FlushRecord(t)]
      /\ \A g \in FlushesOf[t] :
           /\ FlushInOrder(flushes'[g])
           /\ g # f => flushes'[g] = flushes[g]
           /\ g = f => flushes'[g].answer = NULL
  <2>1. CASE Scanner(t)!FlushAnswered(f)
    <3>1. Scanner(t)!NextInFlush(f, left) BY <2>1 DEF Scanner!FlushAnswered
    <3>2. \A s \in Range(left) : s \in Range(flushes[f].remaining) \/ s = Head(flushes[f].todo)
      OBVIOUS
    <3> QED BY <1>2, <1>3, <3>1, <3>2, TurnEnds
  <2>2. CASE Scanner(t)!FlushFails(f)
    <3> DEFINE rest == Append(left, x)
    <3>1. Scanner(t)!NextInFlush(f, rest) BY <2>2 DEF Scanner!FlushFails
    <3>2. /\ rest \in Seq(Scan) /\ IsInjective(rest)
          /\ \A s \in Range(rest) : s \in Range(left) \/ s = x
      BY <1>3, <1>4, AppendOnce DEF QueuedOnce
    <3>3. QueuedOnce(rest) BY <1>3, <1>4, <3>2 DEF QueuedOnce
    <3> HIDE DEF rest
    <3> QED BY <1>2, <3>1, <3>2, <3>3, TurnEnds
  <2> QED BY <2>1, <2>2
<1>7. Scanner(t)!TypeOK'
  BY <1>0, <1>2, <1>5, <1>6 DEF Scanner!TypeOK, GateToken, FlushRecord
<1>8. ScansInOrder'
  <2>1. ASSUME NEW s \in Scan, scans[s].status # "done" PROVE told'[s] = {}
    <3>1. told[s] = {} /\ s # x BY <1>4, <2>1 DEF GateIInv, ScansInOrder
    <3> QED BY <1>1, <1>4, <3>1 DEF Scanner!FlushAnswered, Scanner!FlushFails
  <2> QED BY <1>2, <2>1 DEF GateIInv, ScansInOrder
<1>9. FlushesInOrder(t)'
  <2>1. QueuedOnce(queue)' /\ Len(queue') <= QueueMaxOf[t]
    BY <1>0, <1>5, <1>6, QueuedStays DEF QueuedOnce
  <2>2. ASSUME NEW g \in FlushesOf[t] PROVE FlushInOrder(flushes[g])'
    <3>1. FlushInOrder(flushes'[g]) /\ flushes'[g] \in FlushRecord(t) BY <1>6
    <3>2. \A q \in {flushes'[g].todo, flushes'[g].remaining} :
            IsInjective(q) /\ \A s \in Range(q) : "queued" \in told'[s]
      BY <1>0, <1>5, <3>1, QueuedStays DEF FlushInOrder, FlushRecord
    <3> QED BY <3>1, <3>2 DEF FlushInOrder, QueuedOnce
  <2> QED BY <2>1, <2>2 DEF FlushesInOrder
<1>10. VerdictsAreTrue(t)'
  <2>1. ASSUME NEW s \in Scan, NEW w \in {"accepted", "already-used"}, Given(t, s, w)'
        PROVE  Given(t, s, w)
    <3>1. CASE scans[s].answer = w BY <3>1 DEF Given
    <3>2. CASE w \in told'[s]
      <4>1. flushes[f].answer = w /\ s = x => GivenToFlush(t, f, s, w)
        BY <1>2 DEF GivenToFlush
      <4> QED BY <1>5, <3>2, <4>1 DEF Given
    <3>3. ASSUME NEW g \in FlushesOf[t], GivenToFlush(t, g, s, w)' PROVE GivenToFlush(t, g, s, w)
      <4>1. w # NULL OBVIOUS
      <4>2. flushes'[g].answer = w BY <3>3 DEF GivenToFlush
      <4>3. g # f BY <1>6, <4>1, <4>2
      <4> QED BY <1>6, <3>3, <4>3 DEF GivenToFlush
    <3> QED BY <1>2, <2>1, <3>1, <3>2, <3>3 DEF Given
  <2> QED BY <1>2, <2>1, VerdictsStay
<1> QED BY <1>7, <1>8, <1>9, <1>10 DEF GateIInv

-----------------------------------------------------------------------------
(* Every step of a terminal keeps its invariant.                           *)
LEMMA GateNext == ASSUME NEW t \in Terminal, GateIInv(t), Scanner(t)!Next PROVE GateIInv(t)'
<1>1. CASE \/ \E g \in DOMAIN AdmitsAt[t] :
                Scanner(t)!issueGateSession(g) \/ Scanner(t)!revokeGateSession(g)
           \/ \E c \in Code :
                \/ Scanner(t)!Expire(c)
                \/ \E g \in DOMAIN AdmitsAt[t] : Scanner(t)!ScannedElsewhere(c, g)
  BY <1>1, ServerSteps
<1>2. CASE \/ \E g \in DOMAIN AdmitsAt[t] : Scanner(t)!saveGateToken(g)
           \/ Scanner(t)!Mount \/ Scanner(t)!resetGateToken
           \/ Scanner(t)!handleOnline \/ Scanner(t)!CooldownEnds
  BY <1>2, PageSteps
<1>3. ASSUME NEW s \in Scan, \E c \in Code : Scanner(t)!handleDecodedText(s, c)
      PROVE  GateIInv(t)'
  BY <1>3, ReadStep
<1>4. ASSUME NEW s \in Scan, Scanner(t)!ScanVerified(s) PROVE GateIInv(t)'
  BY <1>4, ScanVerifiedStep
<1>5. ASSUME NEW s \in Scan, \/ Scanner(t)!ScanAnswered(s) \/ Scanner(t)!ScanLost(s)
                             \/ Scanner(t)!ScanUnreadable(s)
      PROVE  GateIInv(t)'
  BY <1>5, ScanEnds
<1>6. ASSUME NEW f \in FlushesOf[t], Scanner(t)!FlushVerified(f) PROVE GateIInv(t)'
  BY <1>6, FlushVerifiedStep
<1>7. ASSUME NEW f \in FlushesOf[t], Scanner(t)!FlushAnswered(f) \/ Scanner(t)!FlushFails(f)
      PROVE  GateIInv(t)'
  BY <1>7, FlushTurn
<1> QED BY <1>1, <1>2, <1>3, <1>4, <1>5, <1>6, <1>7 DEF Scanner!Next

LEMMA GateAlways == Spec => [](\A t \in Terminal : component = t => GateIInv(t))
<1> USE ComponentsAssumption DEF Service
<1>1. Init => \A t \in Terminal : component = t => GateIInv(t)
  <2> SUFFICES ASSUME Init, NEW t \in Terminal, component = t PROVE GateIInv(t)
    OBVIOUS
  <2>1. Scanner(t)!Init BY DEF Init, RunOf
  <2> QED BY <2>1, GateInit
<1>2. (\A t \in Terminal : component = t => GateIInv(t)) /\ [Next]_vars
        => (\A t \in Terminal : component = t => GateIInv(t))'
  <2> SUFFICES ASSUME \A t \in Terminal : component = t => GateIInv(t), [Next]_vars,
                      NEW t \in Terminal, component' = t
               PROVE  GateIInv(t)'
    OBVIOUS
  <2>1. component = t /\ GateIInv(t)
    BY DEF Next, vars
  <2>2. Scanner(t)!Next \/ UNCHANGED gateVars
    BY <2>1 DEF Next, vars, webVars
  <2>3. CASE UNCHANGED gateVars
    <3> USE <2>3 DEF gateVars
    <3>1. Scanner(t)!TypeOK' BY <2>1 DEF GateIInv, Scanner!TypeOK
    <3>2. ScansInOrder' BY <2>1 DEF GateIInv, ScansInOrder
    <3>3. FlushesInOrder(t)' BY <2>1, SameQueues
    <3>4. VerdictsAreTrue(t)' BY <2>1 DEF GateIInv, VerdictsAreTrue, Given, GivenToFlush
    <3> QED BY <3>1, <3>2, <3>3, <3>4 DEF GateIInv
  <2> QED BY <2>1, <2>2, <2>3, GateNext
<1> QED BY <1>1, <1>2, PTL DEF Spec

(* src/src/components/gate/gate-scanner-panel.tsx:94-211: whatever answers *)
(* are lost and however flushes and scans overlap, a code is accepted once *)
(* and its scans wait in the queue once.                                   *)
THEOREM ScansCountOnce == Spec => []GateScansCountOnce
<1>1. (\A t \in Terminal : component = t => GateIInv(t)) => GateScansCountOnce
  <2> SUFFICES ASSUME NEW t \in Terminal, GateIInv(t)
               PROVE  Scanner(t)!AcceptedOnce /\ Scanner(t)!QueueHoldsScansOnce
    BY DEF GateScansCountOnce
  <2>1. Scanner(t)!AcceptedOnce
    BY DEF GateIInv, VerdictsAreTrue, Given, Scanner!AcceptedOnce
  <2>2. Scanner(t)!QueueHoldsScansOnce
    BY DEF GateIInv, FlushesInOrder, QueuedOnce, Scanner!QueueHoldsScansOnce,
           Scanner!IsInjective, IsInjective, Scanner!Range, Range
  <2> QED BY <2>1, <2>2
<1> QED BY <1>1, GateAlways, PTL

-----------------------------------------------------------------------------
(* The Android app.  An attempt is booked once it has its seat; screens,   *)
(* calls and the checkout are about booked attempts.                       *)
Booked(p, a) == a \in Android(p)!Attempt /\ seatOf[a] \in AppSeat

BookedScreen(p, r) == r.screen \in {"booking", "checkout"} => Booked(p, r.attempt)

BookedStack(p) == \A i \in DOMAIN backStack : BookedScreen(p, backStack[i])

BookedCall(p, call) ==
  IF call.stage = NULL THEN call = Android(p)!NoCall ELSE Booked(p, call.attempt)

HoldStatus == {"NONE", "ACTIVE", "CONVERTED", "RELEASED", "EXPIRED"}
DraftStatus == {"NONE", "PENDING_PAYMENT", "CONFIRMED", "CANCELLED", "EXPIRED"}
SeatRecord(p) == [status : {"ON_SALE", "HELD", "RESERVED", "OWNED", "ELSEWHERE"},
                  by : Android(p)!Attempt \union {NULL}]
ServerTypes(p) ==
  /\ appSeats \in [AppSeat -> SeatRecord(p)]
  /\ appHolds \in [Android(p)!Attempt -> HoldStatus]
  /\ appDrafts \in [Android(p)!Attempt -> DraftStatus]

ScreenTypes(p) ==
  /\ seatOf \in [Android(p)!Attempt -> AppSeat \union {NULL}]
  /\ route \in Android(p)!Route /\ BookedScreen(p, route)
  /\ backStack \in Seq(Android(p)!Route) /\ BookedStack(p)
  /\ lastBookingAttempt # NULL => Booked(p, lastBookingAttempt)

CallTypes(p) ==
  /\ {bookingPending, login} \subseteq BOOLEAN /\ unguarded \subseteq CallsOf[p]
  /\ calls \in [CallsOf[p] -> Android(p)!CallRecord]
  /\ \A c \in CallsOf[p] : BookedCall(p, calls[c])
  /\ checkout \in Android(p)!CallRecord /\ BookedCall(p, checkout)
  /\ checkout.stage \in {NULL, "paid", "given up", "confirmed"}

RecordTypes(p) ==
  /\ bought \subseteq Android(p)!Attempt
  /\ confirmedTicket \in AppSeat \union {NULL}
  /\ retryStore \in [seat : AppSeat \union {NULL}, confirmed : BOOLEAN]
  /\ outcome \in [Android(p)!Attempt -> {NULL, "FAILED", "HELD", "CONFIRMED"}]
  /\ uncertain \subseteq Android(p)!Attempt

(* A live claim has its seat, and what was bought or said to be confirmed  *)
(* is owned.                                                               *)
OwnedSeat(s) == s \in AppSeat /\ appSeats[s].status = "OWNED"

HasSeat(a, status) ==
  /\ seatOf[a] \in AppSeat
  /\ appSeats[seatOf[a]].status = status /\ appSeats[seatOf[a]].by = a

NoDraft(a) ==
  /\ appDrafts[a] = "NONE"
  /\ \A s \in AppSeat : appSeats[s].status = "RESERVED" => appSeats[s].by # a

ClaimsHaveSeats(p) ==
  \A a \in Android(p)!Attempt :
    /\ appHolds[a] \in {"NONE", "ACTIVE"} => NoDraft(a)
    /\ appHolds[a] = "ACTIVE" => HasSeat(a, "HELD")
    /\ appDrafts[a] = "PENDING_PAYMENT" => HasSeat(a, "RESERVED")

SaidIsOwned(p) ==
  /\ \A a \in Android(p)!Attempt : a \in bought \/ outcome[a] = "CONFIRMED" => OwnedSeat(seatOf[a])
  /\ retryStore.confirmed => OwnedSeat(retryStore.seat)
  /\ checkout.stage = "confirmed" => OwnedSeat(seatOf[checkout.attempt])

(* Somebody cares for a live claim: the app has shown it, an answer or a   *)
(* clean-up was lost, or a call under way will show it or undo it.         *)
InCare(p, a, stages) ==
  \/ outcome[a] \in {"HELD", "CONFIRMED"} \/ a \in uncertain
  \/ \E c \in CallsOf[p] : calls[c].attempt = a /\ calls[c].stage \in stages

ClaimsInCare(p) ==
  \A a \in Android(p)!Attempt :
    /\ appHolds[a] = "ACTIVE" => InCare(p, a, {"draft", "release"})
    /\ appDrafts[a] = "PENDING_PAYMENT" => InCare(p, a, {"prepare", "cancel"})

(* The pending flag covers every call under which nothing else has cleared *)
(* it, and such a call is wanted as long as it is current.                 *)
CurrentIsWanted(p) ==
  \A c \in CallsOf[p] :
    /\ calls[c].current => calls[c].wanted \/ c \in unguarded
    /\ calls[c].stage # NULL => bookingPending \/ c \in unguarded

AppIInv(p) ==
  /\ ServerTypes(p) /\ ScreenTypes(p) /\ CallTypes(p) /\ RecordTypes(p)
  /\ ClaimsHaveSeats(p) /\ SaidIsOwned(p) /\ ClaimsInCare(p) /\ CurrentIsWanted(p)

(* NULL is none of the values an app distinguishes.                        *)
LEMMA AppConstants ==
  ASSUME NEW p \in App
  PROVE  /\ NULL \notin AppSeat /\ NULL \notin CallsOf[p] /\ NULL \notin Android(p)!Attempt
         /\ NULL \notin {"queue", "refresh", "hold", "draft", "prepare", "cancel", "release",
                         "paid", "given up", "confirmed"}
         /\ NULL \notin {"FAILED", "HELD", "CONFIRMED"}
<1>1. /\ NULL \notin AppSeat /\ NULL \notin CallsOf[p]
      /\ NULL \notin {"FAILED", "HELD", "CONFIRMED"}
  BY AppAssumption
<1>2. NULL \notin Android(p)!Attempt BY AppAssumption, ReceiptAssumption DEF Android!Attempt
<1>3. NULL \notin {"queue", "refresh", "hold", "draft", "prepare", "cancel", "release",
                  "paid", "given up", "confirmed"}
  BY AppAssumption, Zenon DEF Android!Stages
<1> QED BY <1>1, <1>2, <1>3, Zenon

(* What a request does to the records of the server, for a booked attempt: *)
(* claims keep their seats, and what is owned stays owned.                 *)
OwnedStays == \A s \in AppSeat : appSeats[s].status = "OWNED" => appSeats'[s].status = "OWNED"

ServerKeeps(p) == ServerTypes(p)' /\ ClaimsHaveSeats(p)' /\ OwnedStays

NoNewClaims(p) ==
  \A a \in Android(p)!Attempt :
    /\ appHolds'[a] = "ACTIVE" => appHolds[a] = "ACTIVE"
    /\ appDrafts'[a] = "PENDING_PAYMENT" => appDrafts[a] = "PENDING_PAYMENT"

(* The server, request by request.                                        *)
LEMMA ServerStill ==
  ASSUME NEW p \in App, ServerTypes(p), ClaimsHaveSeats(p), seatOf' = seatOf,
         Android(p)!Unchanged
  PROVE  ServerKeeps(p) /\ NoNewClaims(p)
BY DEF Android!Unchanged, ServerTypes, ClaimsHaveSeats, HasSeat, NoDraft, ServerKeeps,
       NoNewClaims, OwnedStays

LEMMA ServerHold ==
  ASSUME NEW p \in App, ServerTypes(p), ClaimsHaveSeats(p), seatOf' = seatOf,
         NEW a \in Android(p)!Attempt, seatOf[a] \in AppSeat, Android(p)!createSeatHold(a)
  PROVE  /\ ServerKeeps(p)
         /\ appDrafts' = appDrafts
         /\ \A b \in Android(p)!Attempt : appHolds'[b] = "ACTIVE" => appHolds[b] = "ACTIVE" \/ b = a
         /\ Android(p)!HoldRefused(a) => appHolds' = appHolds
<1>1. CASE appHolds[a] # "NONE" \/ Android(p)!HoldRefused(a)
  <2>1. Android(p)!Unchanged BY <1>1 DEF Android!createSeatHold
  <2> QED BY <2>1, ServerStill DEF NoNewClaims, Android!Unchanged
<1>2. CASE ~(appHolds[a] # "NONE" \/ Android(p)!HoldRefused(a))
  <2> DEFINE held == [status |-> "HELD", by |-> a]
  <2>1. /\ appHolds' = [appHolds EXCEPT ![a] = "ACTIVE"]
        /\ appSeats' = [appSeats EXCEPT ![seatOf[a]] = held]
        /\ appDrafts' = appDrafts
        /\ appSeats[seatOf[a]] = [status |-> "ON_SALE", by |-> NULL]
    BY <1>2 DEF Android!createSeatHold, Android!HoldRefused, Android!Free
  <2>2. held \in SeatRecord(p) BY DEF SeatRecord
  <2>3. ServerTypes(p)' BY <2>1, <2>2 DEF ServerTypes, HoldStatus
  <2>4. ClaimsHaveSeats(p)'
    <3> SUFFICES ASSUME NEW b \in Android(p)!Attempt
                 PROVE  /\ appHolds'[b] \in {"NONE", "ACTIVE"} => NoDraft(b)'
                        /\ appHolds'[b] = "ACTIVE" => HasSeat(b, "HELD")'
                        /\ appDrafts'[b] = "PENDING_PAYMENT" => HasSeat(b, "RESERVED")'
      BY DEF ClaimsHaveSeats
    <3>1. CASE b = a BY <1>2, <2>1, <3>1 DEF ClaimsHaveSeats, ServerTypes, HasSeat, NoDraft
    <3>2. CASE b # a BY <1>2, <2>1, <3>2 DEF ClaimsHaveSeats, ServerTypes, HasSeat, NoDraft
    <3> QED BY <3>1, <3>2
  <2>5. OwnedStays BY <2>1 DEF OwnedStays, ServerTypes
  <2> QED BY <1>2, <2>1, <2>3, <2>4, <2>5 DEF ServerKeeps, ServerTypes
<1> QED BY <1>1, <1>2

LEMMA ServerDraft ==
  ASSUME NEW p \in App, ServerTypes(p), ClaimsHaveSeats(p), seatOf' = seatOf,
         NEW a \in Android(p)!Attempt, Android(p)!createReservationDraft(a)
  PROVE  /\ ServerKeeps(p)
         /\ \A b \in Android(p)!Attempt :
              /\ appHolds'[b] = "ACTIVE" => appHolds[b] = "ACTIVE" /\ b # a
              /\ appDrafts'[b] = "PENDING_PAYMENT" =>
                   appDrafts[b] = "PENDING_PAYMENT" \/ (b = a /\ ~Android(p)!DraftRefused(a))
<1>1. CASE appDrafts[a] # "NONE" \/ Android(p)!DraftRefused(a)
  <2>1. Android(p)!Unchanged BY <1>1 DEF Android!createReservationDraft
  <2>2. appHolds[a] # "ACTIVE" BY <1>1 DEF ClaimsHaveSeats, NoDraft, Android!DraftRefused
  <2> QED BY <2>1, <2>2, ServerStill DEF NoNewClaims, Android!Unchanged
<1>2. CASE ~(appDrafts[a] # "NONE" \/ Android(p)!DraftRefused(a))
  <2> DEFINE reserved == [status |-> "RESERVED", by |-> a]
  <2>1. /\ appHolds' = [appHolds EXCEPT ![a] = "CONVERTED"]
        /\ appDrafts' = [appDrafts EXCEPT ![a] = "PENDING_PAYMENT"]
        /\ appSeats' = [appSeats EXCEPT ![seatOf[a]] = reserved]
        /\ appHolds[a] = "ACTIVE"
    BY <1>2 DEF Android!createReservationDraft, Android!DraftRefused
  <2>2. reserved \in SeatRecord(p) BY DEF SeatRecord
  <2>3. seatOf[a] \in AppSeat /\ HasSeat(a, "HELD")
    BY <2>1 DEF ClaimsHaveSeats, HasSeat, NoDraft
  <2>4. ServerTypes(p)' BY <2>1, <2>2, <2>3 DEF ServerTypes, HoldStatus, DraftStatus
  <2>5. ClaimsHaveSeats(p)'
    <3> SUFFICES ASSUME NEW b \in Android(p)!Attempt
                 PROVE  /\ appHolds'[b] \in {"NONE", "ACTIVE"} => NoDraft(b)'
                        /\ appHolds'[b] = "ACTIVE" => HasSeat(b, "HELD")'
                        /\ appDrafts'[b] = "PENDING_PAYMENT" => HasSeat(b, "RESERVED")'
      BY DEF ClaimsHaveSeats
    <3>1. CASE b = a BY <2>1, <2>3, <3>1 DEF ServerTypes, HasSeat, NoDraft
    <3>2. CASE b # a BY <2>1, <2>3, <3>2 DEF ClaimsHaveSeats, ServerTypes, HasSeat, NoDraft
    <3> QED BY <3>1, <3>2
  <2>6. OwnedStays BY <2>1, <2>3 DEF OwnedStays, ServerTypes, HasSeat, NoDraft
  <2> QED BY <1>2, <2>1, <2>4, <2>5, <2>6 DEF ServerKeeps, ServerTypes
<1> QED BY <1>1, <1>2

(* A claim that ends frees its seat.                                       *)
LEMMA ServerEnds ==
  ASSUME NEW p \in App, ServerTypes(p), ClaimsHaveSeats(p), seatOf' = seatOf,
         NEW a \in Android(p)!Attempt, NEW status,
         \/ /\ appHolds[a] = "ACTIVE" /\ status \in {"RELEASED", "EXPIRED"}
            /\ Android(p)!EndHold(a, status)
         \/ /\ appDrafts[a] = "PENDING_PAYMENT" /\ status \in {"CANCELLED", "EXPIRED"}
            /\ Android(p)!EndDraft(a, status)
  PROVE  /\ ServerKeeps(p) /\ NoNewClaims(p)
         /\ appHolds'[a] # "ACTIVE" \/ appHolds' = appHolds
         /\ appDrafts'[a] # "PENDING_PAYMENT" \/ appDrafts' = appDrafts
<1> DEFINE free == [status |-> "ON_SALE", by |-> NULL]
           seat == seatOf[a]
<1>1. /\ \/ /\ appHolds[a] = "ACTIVE" /\ appDrafts' = appDrafts
            /\ appHolds' = [appHolds EXCEPT ![a] = status] /\ status \in {"RELEASED", "EXPIRED"}
         \/ /\ appDrafts[a] = "PENDING_PAYMENT" /\ appHolds' = appHolds
            /\ appDrafts' = [appDrafts EXCEPT ![a] = status] /\ status \in {"CANCELLED", "EXPIRED"}
      /\ appSeats' = [appSeats EXCEPT ![seat] = free]
  BY DEF Android!EndHold, Android!EndDraft, Android!Free
<1>2. seat \in AppSeat /\ appSeats[seat].by = a /\ appSeats[seat].status # "OWNED"
  BY <1>1 DEF ClaimsHaveSeats, HasSeat, NoDraft
<1>3. free \in SeatRecord(p) /\ free.status = "ON_SALE" BY DEF SeatRecord
<1> HIDE DEF free
<1>4. ServerTypes(p)' BY <1>1, <1>2, <1>3 DEF ServerTypes, HoldStatus, DraftStatus
<1>5. ClaimsHaveSeats(p)'
  <2> SUFFICES ASSUME NEW b \in Android(p)!Attempt
               PROVE  /\ appHolds'[b] \in {"NONE", "ACTIVE"} => NoDraft(b)'
                      /\ appHolds'[b] = "ACTIVE" => HasSeat(b, "HELD")'
                      /\ appDrafts'[b] = "PENDING_PAYMENT" => HasSeat(b, "RESERVED")'
    BY DEF ClaimsHaveSeats
  <2>1. CASE b = a BY <1>1, <1>2, <1>3, <2>1 DEF ClaimsHaveSeats, ServerTypes, HasSeat, NoDraft
  <2>2. CASE b # a
    <3>1. appHolds[b] = "ACTIVE" \/ appDrafts[b] = "PENDING_PAYMENT" => seatOf[b] # seat
      BY <1>2, <2>2 DEF ClaimsHaveSeats, HasSeat, NoDraft
    <3> QED BY <1>1, <1>2, <1>3, <2>2, <3>1 DEF ClaimsHaveSeats, ServerTypes, HasSeat, NoDraft
  <2> QED BY <2>1, <2>2
<1>6. OwnedStays BY <1>1, <1>2 DEF OwnedStays, ServerTypes
<1>7. NoNewClaims(p) BY <1>1 DEF NoNewClaims, ServerTypes
<1> QED BY <1>1, <1>4, <1>5, <1>6, <1>7 DEF ServerKeeps, ServerTypes

(* A seat that is sold is owned, and the claim on it is used up.           *)
LEMMA ServerSells ==
  ASSUME NEW p \in App, ServerTypes(p), ClaimsHaveSeats(p), seatOf' = seatOf,
         NEW a \in Android(p)!Attempt, seatOf[a] \in AppSeat,
         Android(p)!Purchasable(a), Android(p)!Sell(a)
  PROVE  /\ ServerKeeps(p) /\ NoNewClaims(p)
         /\ bought' = bought \union {a} /\ appSeats'[seatOf[a]].status = "OWNED"
<1> DEFINE seat == seatOf[a]
           owned == [status |-> "OWNED", by |-> a]
<1>1. /\ bought' = bought \union {a} /\ appSeats' = [appSeats EXCEPT ![seat] = owned]
      /\ appHolds' = IF appSeats[seat].status = "HELD"
                     THEN [appHolds EXCEPT ![appSeats[seat].by] = "CONVERTED"] ELSE appHolds
      /\ appDrafts' = IF appSeats[seat].status = "RESERVED"
                      THEN [appDrafts EXCEPT ![a] = "CONFIRMED"] ELSE appDrafts
      /\ appSeats[seat].status = "RESERVED" => appSeats[seat].by = a
  BY DEF Android!Sell, Android!Purchasable
<1>2. owned \in SeatRecord(p) /\ owned.status = "OWNED" BY DEF SeatRecord
<1> HIDE DEF owned
<1>3. ServerTypes(p)' BY <1>1, <1>2, Zenon DEF ServerTypes, HoldStatus, DraftStatus
<1>4. NoNewClaims(p) BY <1>1 DEF NoNewClaims, ServerTypes
<1>5. ClaimsHaveSeats(p)'
  <2> SUFFICES ASSUME NEW b \in Android(p)!Attempt
               PROVE  /\ appHolds'[b] \in {"NONE", "ACTIVE"} => NoDraft(b)'
                      /\ appHolds'[b] = "ACTIVE" => HasSeat(b, "HELD")'
                      /\ appDrafts'[b] = "PENDING_PAYMENT" => HasSeat(b, "RESERVED")'
    BY DEF ClaimsHaveSeats
  <2>1. appHolds'[b] = "ACTIVE" => seatOf[b] # seat
    BY <1>1 DEF ClaimsHaveSeats, ServerTypes, HasSeat, NoDraft
  <2>2. appDrafts'[b] = "PENDING_PAYMENT" => seatOf[b] # seat
    BY <1>1 DEF ClaimsHaveSeats, ServerTypes, HasSeat, NoDraft
  <2>3. appHolds'[b] \in {"NONE", "ACTIVE"} => NoDraft(b)'
    BY <1>1, <1>2 DEF ClaimsHaveSeats, ServerTypes, HasSeat, NoDraft
  <2> QED BY <1>1, <1>4, <2>1, <2>2, <2>3 DEF ClaimsHaveSeats, ServerTypes, HasSeat,
         NoDraft, NoNewClaims
<1>6. OwnedStays BY <1>1, <1>2 DEF OwnedStays, ServerTypes
<1> QED BY <1>1, <1>2, <1>3, <1>4, <1>5, <1>6 DEF ServerKeeps, ServerTypes

LEMMA ServerElsewhere ==
  ASSUME NEW p \in App, ServerTypes(p), ClaimsHaveSeats(p), seatOf' = seatOf,
         NEW s \in AppSeat, Android(p)!SoldElsewhere(s)
  PROVE  ServerKeeps(p) /\ NoNewClaims(p)
<1> DEFINE sold == [status |-> "ELSEWHERE", by |-> NULL]
<1>1. /\ appSeats' = [appSeats EXCEPT ![s] = sold]
      /\ appHolds' = appHolds /\ appDrafts' = appDrafts
      /\ appSeats[s].status = "ON_SALE"
  BY DEF Android!SoldElsewhere, Android!Free
<1>2. sold \in SeatRecord(p) /\ sold.status = "ELSEWHERE" BY DEF SeatRecord
<1> HIDE DEF sold
<1>3. ServerTypes(p)' BY <1>1, <1>2 DEF ServerTypes
<1>4. ClaimsHaveSeats(p)' BY <1>1, <1>2 DEF ClaimsHaveSeats, ServerTypes, HasSeat, NoDraft
<1>5. OwnedStays BY <1>1 DEF OwnedStays, ServerTypes
<1>6. NoNewClaims(p) BY <1>1 DEF NoNewClaims
<1> QED BY <1>3, <1>4, <1>5, <1>6 DEF ServerKeeps

-----------------------------------------------------------------------------

LEMMA AppInit == ASSUME NEW p \in App, Android(p)!Init PROVE AppIInv(p)
<1> USE DEF Android!Init
<1>1. ServerTypes(p) BY DEF ServerTypes, SeatRecord, HoldStatus, DraftStatus, Android!Free
<1>2. ScreenTypes(p) BY DEF ScreenTypes, BookedStack, BookedScreen, Android!Route, Android!Tab
<1>3. CallTypes(p) BY Zenon DEF CallTypes, BookedCall, Android!CallRecord, Android!NoCall
<1>4. RecordTypes(p) BY DEF RecordTypes, Android!NoState
<1>5. ClaimsHaveSeats(p) BY DEF ClaimsHaveSeats, NoDraft, Android!Free
<1>6. SaidIsOwned(p)
  <2>1. NULL # "confirmed" /\ NULL # "CONFIRMED" BY AppConstants, Zenon
  <2> QED BY <2>1 DEF SaidIsOwned, Android!NoState, Android!NoCall
<1>7. ClaimsInCare(p) BY DEF ClaimsInCare
<1>8. CurrentIsWanted(p) BY DEF CurrentIsWanted, Android!NoCall
<1> QED BY <1>1, <1>2, <1>3, <1>4, <1>5, <1>6, <1>7, <1>8 DEF AppIInv

(* Nothing of the app moves.                                               *)
LEMMA AppStill ==
  ASSUME NEW p \in App, AppIInv(p), UNCHANGED appVars PROVE AppIInv(p)'
<1> USE DEF AppIInv, appVars
<1>1. ServerTypes(p)' /\ ScreenTypes(p)' /\ CallTypes(p)' /\ RecordTypes(p)'
  BY Zenon DEF ServerTypes, ScreenTypes, CallTypes, RecordTypes, BookedStack, BookedScreen,
         BookedCall, Booked
<1>2. ClaimsHaveSeats(p)' BY DEF ClaimsHaveSeats, HasSeat, NoDraft
<1>3. SaidIsOwned(p)' BY DEF SaidIsOwned, OwnedSeat
<1>4. ClaimsInCare(p)' BY DEF ClaimsInCare, InCare
<1>5. CurrentIsWanted(p)' BY DEF CurrentIsWanted
<1> QED BY <1>1, <1>2, <1>3, <1>4, <1>5

(* The server forgets, or another customer is faster.                      *)
LEMMA AppLapses ==
  ASSUME NEW p \in App, AppIInv(p),
         \/ \E a \in Android(p)!Attempt : Android(p)!HoldLapses(a) \/ Android(p)!DraftLapses(a)
         \/ \E s \in AppSeat : Android(p)!SoldElsewhere(s)
  PROVE  AppIInv(p)'
<1>0. /\ ServerTypes(p) /\ ScreenTypes(p) /\ CallTypes(p) /\ RecordTypes(p)
      /\ ClaimsHaveSeats(p) /\ SaidIsOwned(p) /\ ClaimsInCare(p) /\ CurrentIsWanted(p)
  BY DEF AppIInv
<1>1. UNCHANGED <<bought, route, backStack, lastBookingAttempt, seatOf, bookingPending, calls,
                  login, checkout, confirmedTicket, retryStore, outcome, uncertain, unguarded>>
  BY DEF Android!HoldLapses, Android!DraftLapses, Android!SoldElsewhere, Android!appVars,
         Android!screenVars, Android!historyVars
<1>2. ServerKeeps(p) /\ NoNewClaims(p)
  <2>1. ASSUME NEW a \in Android(p)!Attempt, Android(p)!HoldLapses(a) \/ Android(p)!DraftLapses(a)
        PROVE  ServerKeeps(p) /\ NoNewClaims(p)
    BY <1>0, <1>1, <2>1, ServerEnds DEF Android!HoldLapses, Android!DraftLapses
  <2>2. ASSUME NEW s \in AppSeat, Android(p)!SoldElsewhere(s)
        PROVE  ServerKeeps(p) /\ NoNewClaims(p)
    BY <1>0, <1>1, <2>2, ServerElsewhere
  <2> QED BY <2>1, <2>2
<1>3. ScreenTypes(p)' /\ CallTypes(p)' /\ RecordTypes(p)'
  BY <1>0, <1>1, Zenon DEF ScreenTypes, CallTypes, RecordTypes, BookedStack, BookedScreen,
         BookedCall, Booked
<1>4. SaidIsOwned(p)'
  BY <1>0, <1>1, <1>2 DEF SaidIsOwned, OwnedSeat, ServerKeeps, OwnedStays
<1>5. ClaimsInCare(p)' BY <1>0, <1>1, <1>2 DEF ClaimsInCare, InCare, NoNewClaims
<1>6. CurrentIsWanted(p)' BY <1>0, <1>1 DEF CurrentIsWanted
<1> QED BY <1>2, <1>3, <1>4, <1>5, <1>6 DEF AppIInv, ServerKeeps

-----------------------------------------------------------------------------
(* The screens.  What is turned away from loses its flags and nothing else.*)
(* A call that is none has no flag to lose.                                *)
LEMMA NoCallKept ==
  ASSUME NEW p \in App
  PROVE  LET none == Android(p)!NoCall
         IN /\ [none EXCEPT !.current = FALSE, !.wanted = FALSE] = none
            /\ [none EXCEPT !.wanted = FALSE] = none
<1> DEFINE none == Android(p)!NoCall
<1>1. none \in Android(p)!CallRecord /\ none.current = FALSE /\ none.wanted = FALSE
  BY DEF Android!NoCall, Android!CallRecord
<1> HIDE DEF none
<1>2. /\ [none EXCEPT !.current = FALSE, !.wanted = FALSE] = none
      /\ [none EXCEPT !.wanted = FALSE] = none
  BY <1>1, Zenon DEF Android!CallRecord
<1> QED BY <1>2 DEF none

LEMMA OutdatedCalls ==
  ASSUME NEW p \in App, AppIInv(p)
  PROVE  /\ calls \in [CallsOf[p] -> Android(p)!CallRecord]
         /\ Android(p)!Outdated \in [CallsOf[p] -> Android(p)!CallRecord]
         /\ \A c \in CallsOf[p] :
              /\ Android(p)!Outdated[c].attempt = calls[c].attempt
              /\ Android(p)!Outdated[c].stage = calls[c].stage
              /\ ~Android(p)!Outdated[c].current
              /\ calls[c] = Android(p)!NoCall => Android(p)!Outdated[c] = Android(p)!NoCall
<1>1. calls \in [CallsOf[p] -> Android(p)!CallRecord] BY Zenon DEF AppIInv, CallTypes
<1>2. \A c \in CallsOf[p] : /\ Android(p)!Outdated[c] \in Android(p)!CallRecord
                            /\ Android(p)!Outdated[c].attempt = calls[c].attempt
                            /\ Android(p)!Outdated[c].stage = calls[c].stage
                            /\ ~Android(p)!Outdated[c].current
  <2> SUFFICES ASSUME NEW c \in CallsOf[p]
               PROVE  LET o == [calls[c] EXCEPT !.current = FALSE, !.wanted = FALSE]
                      IN /\ o \in Android(p)!CallRecord /\ o.attempt = calls[c].attempt
                         /\ o.stage = calls[c].stage /\ ~o.current
    BY Zenon DEF Android!Outdated
  <2> QED BY <1>1, Zenon DEF Android!CallRecord
<1>3. Android(p)!Outdated \in [CallsOf[p] -> Android(p)!CallRecord]
  BY <1>2, Zenon DEF Android!Outdated
<1>4. ASSUME NEW c \in CallsOf[p], calls[c] = Android(p)!NoCall
      PROVE  Android(p)!Outdated[c] = Android(p)!NoCall
  <2>1. [Android(p)!NoCall EXCEPT !.current = FALSE, !.wanted = FALSE] = Android(p)!NoCall
    BY NoCallKept, Zenon
  <2> QED BY <1>4, <2>1, Zenon DEF Android!Outdated
<1> QED BY <1>1, <1>2, <1>3, <1>4

(* What leaving a screen may do to the calls.                              *)
LEMMA CallsLeft ==
  ASSUME NEW p \in App, AppIInv(p),
         \/ calls' = calls \/ calls' = Android(p)!Outdated
         \/ calls' = [c \in CallsOf[p] |-> [calls[c] EXCEPT !.wanted = FALSE]]
  PROVE  /\ calls' \in [CallsOf[p] -> Android(p)!CallRecord]
         /\ \A c \in CallsOf[p] :
              /\ calls'[c].attempt = calls[c].attempt
              /\ calls'[c].stage = calls[c].stage
              /\ calls'[c].current => calls[c].current
              /\ calls' = Android(p)!Outdated => ~calls'[c].current
              /\ calls[c] = Android(p)!NoCall => calls'[c] = Android(p)!NoCall
<1>1. calls \in [CallsOf[p] -> Android(p)!CallRecord] BY OutdatedCalls
<1>2. CASE calls' = Android(p)!Outdated BY <1>2, OutdatedCalls
<1>3. CASE calls' = [c \in CallsOf[p] |-> [calls[c] EXCEPT !.wanted = FALSE]]
  <2>1. calls' \in [CallsOf[p] -> Android(p)!CallRecord] BY <1>1, <1>3, Zenon
      DEF Android!CallRecord
  <2>2. \A c \in CallsOf[p] : /\ calls'[c].attempt = calls[c].attempt
                              /\ calls'[c].stage = calls[c].stage
                              /\ calls'[c].current = calls[c].current
    BY <1>1, <1>3 DEF Android!CallRecord
  <2>3. ASSUME NEW c \in CallsOf[p], calls[c] = Android(p)!NoCall
        PROVE  calls'[c] = Android(p)!NoCall
    <3>1. [Android(p)!NoCall EXCEPT !.wanted = FALSE] = Android(p)!NoCall BY NoCallKept, Zenon
    <3> QED BY <1>3, <2>3, <3>1
  <2> QED BY <1>2, <2>1, <2>2, <2>3
<1>4. CASE calls' = calls BY <1>1, <1>2, <1>4
<1> QED BY <1>2, <1>3, <1>4

(* Server and attempts stay as they are, and calls lose at most flags.     *)
LEMMA AppOnScreen ==
  ASSUME NEW p \in App, AppIInv(p),
         UNCHANGED <<appSeats, appHolds, appDrafts, bought, seatOf, checkout, confirmedTicket,
                     retryStore, outcome, uncertain>>,
         ScreenTypes(p)', {bookingPending', login'} \subseteq BOOLEAN,
         unguarded' \subseteq CallsOf[p],
         \/ calls' = calls \/ calls' = Android(p)!Outdated
         \/ calls' = [c \in CallsOf[p] |-> [calls[c] EXCEPT !.wanted = FALSE]],
         CurrentIsWanted(p)'
  PROVE  AppIInv(p)'
<1>0. /\ ServerTypes(p) /\ ScreenTypes(p) /\ CallTypes(p) /\ RecordTypes(p)
      /\ ClaimsHaveSeats(p) /\ SaidIsOwned(p) /\ ClaimsInCare(p)
  BY DEF AppIInv
<1>1. /\ calls' \in [CallsOf[p] -> Android(p)!CallRecord]
      /\ \A c \in CallsOf[p] : /\ calls'[c].attempt = calls[c].attempt
                               /\ calls'[c].stage = calls[c].stage
                               /\ calls'[c].current => calls[c].current
                               /\ calls[c] = Android(p)!NoCall => calls'[c] = Android(p)!NoCall
  BY CallsLeft
<1>2. ServerTypes(p)' /\ RecordTypes(p)' BY <1>0 DEF ServerTypes, RecordTypes
<1>3. CallTypes(p)' BY <1>0, <1>1, Zenon DEF CallTypes, BookedCall, Booked
<1>4. ClaimsHaveSeats(p)' BY <1>0 DEF ClaimsHaveSeats, HasSeat, NoDraft
<1>5. SaidIsOwned(p)' BY <1>0 DEF SaidIsOwned, OwnedSeat
<1>6. ClaimsInCare(p)' BY <1>0, <1>1 DEF ClaimsInCare, InCare
<1> QED BY <1>2, <1>3, <1>4, <1>5, <1>6 DEF AppIInv

(* The stack of screens, as it is popped and pushed.                       *)
LEMMA PoppedSeq ==
  ASSUME NEW S, NEW q \in Seq(S), q # <<>>
  PROVE  LET rest == SubSeq(q, 1, Len(q) - 1)
         IN /\ Len(q) \in DOMAIN q /\ q[Len(q)] \in S /\ rest \in Seq(S)
            /\ \A i \in DOMAIN rest : i \in DOMAIN q /\ rest[i] = q[i]
<1> DEFINE n == Len(q)
           rest == SubSeq(q, 1, n - 1)
<1>1. n \in Nat /\ n >= 1 /\ DOMAIN q = 1..n /\ \A i \in 1..n : q[i] \in S OBVIOUS
<1> HIDE DEF n
<1>2. 1 \in Int /\ n - 1 \in Int /\ \A i \in 1..(n - 1) : q[i] \in S BY <1>1
<1>3. /\ rest \in Seq(S)
      /\ Len(rest) = IF 1 <= n - 1 THEN n - 1 - 1 + 1 ELSE 0
      /\ \A i \in 1..(n - 1 - 1 + 1) : rest[i] = q[1 + i - 1]
  BY <1>2, SubSeqProperties
<1>4. /\ n - 1 - 1 + 1 = n - 1 /\ (1 <= n - 1 \/ n - 1 = 0)
      /\ \A i \in 1..(n - 1) : 1 + i - 1 = i /\ i \in 1..n
  BY <1>1
<1>5. Len(rest) = n - 1 BY <1>1, <1>3, <1>4
<1>6. DOMAIN rest = 1..(n - 1) BY <1>3, <1>5
<1>7. \A i \in DOMAIN rest : i \in DOMAIN q /\ rest[i] = q[i] BY <1>1, <1>3, <1>4, <1>6
<1> QED BY <1>1, <1>3, <1>7 DEF n

LEMMA Pushed ==
  ASSUME NEW p \in App, ScreenTypes(p), seatOf' = seatOf,
         backStack' = Append(backStack, route) \/ backStack' = backStack
  PROVE  backStack' \in Seq(Android(p)!Route) /\ BookedStack(p)'
<1>1. CASE backStack' = backStack
  BY <1>1 DEF ScreenTypes, BookedStack, BookedScreen, Booked
<1>2. CASE backStack' = Append(backStack, route)
  <2> DEFINE R == Android(p)!Route
  <2>1. backStack \in Seq(R) /\ route \in R /\ BookedScreen(p, route) /\ BookedStack(p)
    BY DEF ScreenTypes
  <2> HIDE DEF R
  <2>2. /\ backStack' \in Seq(R)
        /\ \A i \in DOMAIN backStack' :
             \/ i \in DOMAIN backStack /\ backStack'[i] = backStack[i]
             \/ backStack'[i] = route
    BY <1>2, <2>1
  <2>3. BookedStack(p)' BY <2>1, <2>2 DEF BookedStack, BookedScreen, Booked
  <2> QED BY <2>2, <2>3 DEF R
<1> QED BY <1>1, <1>2

LEMMA AppScreens ==
  ASSUME NEW p \in App, AppIInv(p),
         \/ Android(p)!closeRoute \/ Android(p)!navigate \/ Android(p)!openSeatMap
         \/ Android(p)!completeNativeLogin \/ Android(p)!LoginAnswered
         \/ Android(p)!continueToCheckout
  PROVE  AppIInv(p)'
<1> USE AppConstants
<1>0. /\ ScreenTypes(p) /\ CallTypes(p) /\ CurrentIsWanted(p)
  BY Zenon DEF AppIInv
<1>1. CASE Android(p)!closeRoute
  <2>1. /\ UNCHANGED <<appSeats, appHolds, appDrafts, bought, seatOf, checkout, confirmedTicket,
                       retryStore, outcome, uncertain, bookingPending, login, unguarded,
                       lastBookingAttempt>>
        /\ backStack # <<>> /\ route' = backStack[Len(backStack)]
        /\ backStack' = SubSeq(backStack, 1, Len(backStack) - 1)
        /\ calls' = IF bookingPending THEN Android(p)!Outdated
                    ELSE [c \in CallsOf[p] |-> [calls[c] EXCEPT !.wanted = FALSE]]
    BY <1>1, Zenon DEF Android!closeRoute, Android!Pop, Android!LeftBehind, Android!Unwanted,
                Android!serverVars, Android!historyVars
  <2>2. ScreenTypes(p)'
    <3> DEFINE R == Android(p)!Route
    <3>1. backStack \in Seq(R) BY <1>0, Zenon DEF ScreenTypes
    <3> HIDE DEF R
    <3>2. /\ Len(backStack) \in DOMAIN backStack /\ route' \in R
          /\ backStack' \in Seq(R)
          /\ \A i \in DOMAIN backStack' : i \in DOMAIN backStack /\ backStack'[i] = backStack[i]
      BY <2>1, <3>1, PoppedSeq, ZenonT(60)
    <3> QED BY <1>0, <2>1, <3>2, Zenon DEF R, ScreenTypes, BookedStack, BookedScreen, Booked
  <2>3. \/ calls' = calls \/ calls' = Android(p)!Outdated
        \/ calls' = [c \in CallsOf[p] |-> [calls[c] EXCEPT !.wanted = FALSE]]
    BY <2>1, Zenon
  <2>4. \A c \in CallsOf[p] : /\ calls'[c].stage = calls[c].stage
                              /\ calls'[c].current => calls[c].current
                              /\ calls' = Android(p)!Outdated => ~calls'[c].current
    BY <2>3, CallsLeft, Zenon
  <2>5. CurrentIsWanted(p)'
    <3>1. CASE bookingPending BY <1>0, <2>1, <2>4, <3>1, Zenon DEF CurrentIsWanted
    <3>2. CASE ~bookingPending
      <4>1. Android(p)!NoCall.current = FALSE BY Zenon DEF Android!NoCall
      <4>2. ASSUME NEW c \in CallsOf[p], calls[c].stage = NULL PROVE ~calls'[c].current
        <5>1. calls[c] = Android(p)!NoCall BY <1>0, <4>2, Zenon DEF CallTypes, BookedCall
        <5>2. calls[c].current = FALSE BY <4>1, <5>1, Zenon
        <5> QED BY <2>4, <5>2, Zenon
      <4>3. \A c \in CallsOf[p] : calls[c].stage # NULL => c \in unguarded
        BY <1>0, <3>2, Zenon DEF CurrentIsWanted
      <4> QED BY <2>1, <2>4, <4>2, <4>3, Zenon DEF CurrentIsWanted
    <3> QED BY <3>1, <3>2, Zenon
  <2> QED BY <1>0, <2>1, <2>2, <2>3, <2>5, AppOnScreen, Zenon DEF CallTypes
<1>2. CASE Android(p)!navigate \/ Android(p)!openSeatMap \/ Android(p)!continueToCheckout
  <2>1. /\ UNCHANGED <<appSeats, appHolds, appDrafts, bought, seatOf, checkout, confirmedTicket,
                       retryStore, outcome, uncertain, bookingPending, login, unguarded>>
        /\ calls' = calls \/ calls' = Android(p)!Outdated
        /\ backStack' = Append(backStack, route)
        /\ lastBookingAttempt' \in {lastBookingAttempt, NULL}
    BY <1>2, Zenon DEF Android!navigate, Android!openSeatMap, Android!continueToCheckout,
                Android!pushSnapshot, Android!serverVars, Android!historyVars
  <2>2. ScreenTypes(p)'
    <3>1. CASE Android(p)!navigate \/ Android(p)!openSeatMap
      <4>1. route'.screen \in {"tab", "seatmap"} /\ route' \in Android(p)!Route
        <5>1. PICK s \in {"tab", "seatmap"} :
                route' = [screen |-> s, attempt |-> NULL, progress |-> NULL]
          BY <3>1, Zenon DEF Android!navigate, Android!openSeatMap, Android!Tab, Android!Screen
        <5>2. route'.screen = s BY <5>1, Zenon
        <5>3. route' \in Android(p)!Route BY <5>1, Zenon DEF Android!Route
        <5> QED BY <5>2, <5>3, Zenon
      <4>2. BookedScreen(p, route)' BY <4>1, Zenon DEF BookedScreen
      <4> QED BY <1>0, <2>1, <4>1, <4>2, Pushed, Zenon DEF ScreenTypes, Booked
    <3>2. CASE Android(p)!continueToCheckout
      <4>1. /\ route.screen = "booking" /\ Booked(p, route.attempt)
            /\ route' = [screen |-> "checkout", attempt |-> route.attempt, progress |-> NULL]
        BY <1>0, <3>2, Zenon
            DEF Android!continueToCheckout, Android!Screen, ScreenTypes, BookedScreen
      <4>2. route' \in Android(p)!Route /\ BookedScreen(p, route)'
        BY <2>1, <4>1, Zenon DEF Android!Route, BookedScreen, Booked
      <4> QED BY <1>0, <2>1, <4>2, Pushed, Zenon DEF ScreenTypes, Booked
    <3> QED BY <1>2, <3>1, <3>2, Zenon
  <2>3. CurrentIsWanted(p)'
    <3>1. \A c \in CallsOf[p] : /\ calls'[c].stage = calls[c].stage
                                /\ calls'[c].current => calls[c].current
                                /\ calls' = Android(p)!Outdated => ~calls'[c].current
      BY <2>1, CallsLeft, Zenon
    <3> QED BY <1>0, <2>1, <3>1, Zenon DEF CurrentIsWanted
  <2> QED BY <1>0, <2>1, <2>2, <2>3, AppOnScreen, Zenon DEF CallTypes
<1>3. CASE Android(p)!completeNativeLogin \/ Android(p)!LoginAnswered
  <2>1. /\ UNCHANGED <<appSeats, appHolds, appDrafts, bought, seatOf, checkout, confirmedTicket,
                       retryStore, outcome, uncertain, route, backStack, lastBookingAttempt, calls>>
        /\ login' \in BOOLEAN /\ bookingPending' \in BOOLEAN
        /\ \/ bookingPending' = TRUE /\ unguarded' = unguarded
           \/ unguarded' = Android(p)!Others(NULL)
    BY <1>3, Zenon DEF Android!completeNativeLogin, Android!LoginAnswered, Android!Clear,
                Android!serverVars, Android!historyVars, Android!screenVars
  <2>2. ScreenTypes(p)' BY <1>0, <2>1, Zenon DEF ScreenTypes, BookedStack, BookedScreen, Booked
  <2>3. \A c \in CallsOf[p] : calls[c].stage # NULL => c \in Android(p)!Others(NULL)
    <3>1. Android(p)!NoCall.stage = NULL BY Zenon DEF Android!NoCall
    <3> QED BY <3>1, Zenon DEF Android!Others
  <2>4. \A c \in CallsOf[p] : calls[c].current => calls[c].stage # NULL
    <3>1. Android(p)!NoCall.current = FALSE BY Zenon DEF Android!NoCall
    <3> QED BY <1>0, <3>1, Zenon DEF CallTypes, BookedCall
  <2>5. unguarded' \subseteq CallsOf[p] BY <1>0, <2>1, Zenon DEF CallTypes, Android!Others
  <2>6. CurrentIsWanted(p)' BY <1>0, <2>1, <2>3, <2>4, Zenon DEF CurrentIsWanted
  <2> QED BY <2>1, <2>2, <2>5, <2>6, AppOnScreen, Zenon
<1> QED BY <1>1, <1>2, <1>3, Zenon

-----------------------------------------------------------------------------
(* A booking call begins.                                                  *)
LEMMA AppStarts ==
  ASSUME NEW p \in App, AppIInv(p), NEW a \in Android(p)!Attempt,
         NEW stage \in {"queue", "refresh"},
         Android(p)!StartCall(a, stage),
         seatOf' \in [Android(p)!Attempt -> AppSeat \union {NULL}],
         \A b \in Android(p)!Attempt : seatOf[b] \in AppSeat => seatOf'[b] = seatOf[b],
         seatOf'[a] \in AppSeat, lastBookingAttempt' \in {lastBookingAttempt, a}
  PROVE  AppIInv(p)'
<1> USE AppConstants
<1> DEFINE new == [attempt |-> a, stage |-> stage, current |-> TRUE, wanted |-> TRUE]
           out == Android(p)!Outdated
<1>0. /\ ServerTypes(p) /\ ScreenTypes(p) /\ CallTypes(p) /\ RecordTypes(p)
      /\ ClaimsHaveSeats(p) /\ SaidIsOwned(p) /\ ClaimsInCare(p)
  BY Zenon DEF AppIInv
<1>1. PICK c \in CallsOf[p] :
        /\ calls[c] = Android(p)!NoCall /\ bookingPending' = TRUE
        /\ calls' = [out EXCEPT ![c] = new]
        /\ UNCHANGED <<appSeats, appHolds, appDrafts, bought, route, backStack, login, checkout,
                       confirmedTicket, retryStore, outcome, uncertain, unguarded>>
  BY Zenon DEF Android!StartCall, Android!serverVars, Android!historyVars
<1>2. /\ calls \in [CallsOf[p] -> Android(p)!CallRecord]
      /\ out \in [CallsOf[p] -> Android(p)!CallRecord]
      /\ \A d \in CallsOf[p] : /\ out[d].attempt = calls[d].attempt
                               /\ out[d].stage = calls[d].stage /\ ~out[d].current
                               /\ calls[d] = Android(p)!NoCall => out[d] = Android(p)!NoCall
  BY OutdatedCalls, Zenon
<1>3. /\ new \in Android(p)!CallRecord /\ new.attempt = a /\ new.stage = stage /\ stage # NULL
      /\ new.wanted = TRUE
  BY Zenon DEF Android!CallRecord, Android!Stages
<1>4. calls[c].stage = NULL
  <2>1. Android(p)!NoCall.stage = NULL BY Zenon DEF Android!NoCall
  <2> QED BY <1>1, <2>1, Zenon
<1> HIDE DEF new, out
<1>5. /\ calls' \in [CallsOf[p] -> Android(p)!CallRecord]
      /\ calls'[c] = new
      /\ \A d \in CallsOf[p] : d # c => /\ calls'[d].attempt = calls[d].attempt
                                        /\ calls'[d].stage = calls[d].stage
                                        /\ ~calls'[d].current
                                        /\ calls[d] = Android(p)!NoCall =>
                                             calls'[d] = Android(p)!NoCall
  BY <1>1, <1>2, <1>3, Zenon
<1>6. \A b : Booked(p, b) => Booked(p, b)' BY Zenon DEF Booked
<1>7. ServerTypes(p)' /\ RecordTypes(p)' BY <1>0, <1>1, Zenon DEF ServerTypes, RecordTypes
<1>8. ScreenTypes(p)'
  <2>1. lastBookingAttempt' # NULL => Booked(p, lastBookingAttempt)'
    BY <1>0, <1>6, Zenon DEF ScreenTypes, Booked
  <2> QED BY <1>0, <1>1, <1>6, <2>1, Zenon DEF ScreenTypes, BookedStack, BookedScreen
<1>9. CallTypes(p)'
  <2>2. {bookingPending', login'} \subseteq BOOLEAN /\ unguarded' \subseteq CallsOf[p]
    BY <1>0, <1>1, Zenon DEF CallTypes
  <2>3. Booked(p, a)' BY Zenon DEF Booked
  <2>4. ASSUME NEW d \in CallsOf[p] PROVE BookedCall(p, calls[d])'
    <3>1. CASE d = c BY <1>3, <1>5, <2>3, <3>1, Zenon DEF BookedCall
    <3>2. CASE d # c BY <1>0, <1>5, <1>6, <3>2, Zenon DEF CallTypes, BookedCall, Booked
    <3> QED BY <3>1, <3>2, Zenon
  <2>5. BookedCall(p, checkout)' BY <1>0, <1>1, <1>6, Zenon DEF CallTypes, BookedCall
  <2> QED BY <1>0, <1>1, <1>5, <2>2, <2>4, <2>5, Zenon DEF CallTypes
<1>10. ClaimsHaveSeats(p)'
  <2>1. ASSUME NEW b \in Android(p)!Attempt, NEW status, HasSeat(b, status)
        PROVE  HasSeat(b, status)'
    BY <1>1, <2>1, Zenon DEF HasSeat
  <2>2. ASSUME NEW b \in Android(p)!Attempt, NoDraft(b) PROVE NoDraft(b)'
    BY <1>1, <2>2, Zenon DEF NoDraft
  <2> QED BY <1>0, <1>1, <2>1, <2>2, Zenon DEF ClaimsHaveSeats
<1>11. SaidIsOwned(p)'
  <2>1. checkout.stage = "confirmed" => checkout.attempt \in Android(p)!Attempt
    BY <1>0, Zenon DEF CallTypes, BookedCall, Booked
  <2> QED BY <1>0, <1>1, <2>1, Zenon DEF SaidIsOwned, OwnedSeat
<1>12. ClaimsInCare(p)'
  <2>1. ASSUME NEW b, NEW S, InCare(p, b, S), NULL \notin S PROVE InCare(p, b, S)'
    BY <1>1, <1>4, <1>5, <2>1, Zenon DEF InCare
  <2> QED BY <1>0, <1>1, <2>1, Zenon DEF ClaimsInCare
<1>13. CurrentIsWanted(p)' BY <1>1, <1>3, <1>5, Zenon DEF CurrentIsWanted
<1> QED BY <1>7, <1>8, <1>9, <1>10, <1>11, <1>12, <1>13, Zenon DEF AppIInv

LEMMA AppBooks ==
  ASSUME NEW p \in App, AppIInv(p),
         \/ \E a \in Android(p)!Attempt, s \in AppSeat : Android(p)!book(a, s)
         \/ Android(p)!retryBooking \/ Android(p)!refreshBooking
  PROVE  AppIInv(p)'
<1> USE AppConstants
<1>0. ScreenTypes(p) BY Zenon DEF AppIInv
<1>1. ASSUME NEW a \in Android(p)!Attempt, NEW s \in AppSeat, Android(p)!book(a, s)
      PROVE  AppIInv(p)'
  <2>1. /\ seatOf[a] = NULL /\ seatOf' = [seatOf EXCEPT ![a] = s] /\ lastBookingAttempt' = a
        /\ Android(p)!StartCall(a, "queue")
    BY <1>1, Zenon DEF Android!book
  <2>2. /\ seatOf' \in [Android(p)!Attempt -> AppSeat \union {NULL}] /\ seatOf'[a] \in AppSeat
        /\ \A b \in Android(p)!Attempt : seatOf[b] \in AppSeat => seatOf'[b] = seatOf[b]
    BY <1>0, <2>1, Zenon DEF ScreenTypes
  <2> QED BY <2>1, <2>2, AppStarts, Zenon
<1>2. CASE Android(p)!retryBooking \/ Android(p)!refreshBooking
  <2>1. /\ lastBookingAttempt # NULL /\ UNCHANGED <<lastBookingAttempt, seatOf>>
        /\ \E stage \in {"queue", "refresh"} : Android(p)!StartCall(lastBookingAttempt, stage)
    BY <1>2, Zenon DEF Android!retryBooking, Android!refreshBooking
  <2>2. /\ lastBookingAttempt \in Android(p)!Attempt /\ seatOf[lastBookingAttempt] \in AppSeat
        /\ seatOf \in [Android(p)!Attempt -> AppSeat \union {NULL}]
    BY <1>0, <2>1, Zenon DEF ScreenTypes, Booked
  <2> QED BY <2>1, <2>2, AppStarts, Zenon
<1> QED BY <1>1, <1>2, Zenon

-----------------------------------------------------------------------------
(* The steps of a booking call.  What is shown of an attempt gets no worse,*)
(* and the other calls go on as they were.                                 *)
CallMoved(p, c) ==
  /\ ScreenTypes(p)' /\ CallTypes(p)' /\ CurrentIsWanted(p)'
  /\ seatOf' = seatOf
  /\ outcome' \in [Android(p)!Attempt -> {NULL, "FAILED", "HELD", "CONFIRMED"}]
  /\ \A b \in Android(p)!Attempt :
       /\ outcome[b] \in {"HELD", "CONFIRMED"} => outcome'[b] = outcome[b]
       /\ outcome'[b] = "CONFIRMED" => outcome[b] = "CONFIRMED"
  /\ \A d \in CallsOf[p] : d # c => calls'[d].attempt = calls[d].attempt
                                    /\ calls'[d].stage = calls[d].stage

LEMMA StageMoves ==
  ASSUME NEW p \in App, AppIInv(p), NEW c \in CallsOf[p],
         NEW stage \in {"queue", "refresh", "hold", "draft", "prepare", "cancel", "release"},
         calls[c].stage # NULL, Android(p)!Stage(c, stage), Android(p)!CallRest
  PROVE  /\ CallMoved(p, c)
         /\ calls'[c].attempt = calls[c].attempt /\ calls'[c].stage = stage
<1> USE AppConstants
<1>0. /\ ScreenTypes(p) /\ CallTypes(p) /\ RecordTypes(p) /\ CurrentIsWanted(p)
  BY Zenon DEF AppIInv
<1>1. /\ calls' = [calls EXCEPT ![c].stage = stage]
      /\ UNCHANGED <<route, backStack, lastBookingAttempt, seatOf, bookingPending, outcome,
                     unguarded, login, checkout, confirmedTicket>>
  BY Zenon DEF Android!Stage, Android!CallRest, Android!screenVars
<1>2. calls \in [CallsOf[p] -> Android(p)!CallRecord] BY <1>0, Zenon DEF CallTypes
<1>3. stage \in Android(p)!Stages BY Zenon DEF Android!Stages
<1>4. /\ calls' \in [CallsOf[p] -> Android(p)!CallRecord]
      /\ calls'[c].attempt = calls[c].attempt /\ calls'[c].stage = stage
      /\ calls'[c].current = calls[c].current /\ calls'[c].wanted = calls[c].wanted
      /\ \A d \in CallsOf[p] : d # c => calls'[d] = calls[d]
  BY <1>1, <1>2, <1>3, Zenon DEF Android!CallRecord
<1>5. ScreenTypes(p)' BY <1>0, <1>1, Zenon DEF ScreenTypes, BookedStack, BookedScreen, Booked
<1>6. CallTypes(p)'
  <2>1. Booked(p, calls[c].attempt) BY <1>0, Zenon DEF CallTypes, BookedCall
  <2>2. \A d \in CallsOf[p] : BookedCall(p, calls[d])'
    BY <1>0, <1>1, <1>4, <2>1, Zenon DEF CallTypes, BookedCall, Booked
  <2> QED BY <1>0, <1>1, <1>4, <2>2, Zenon DEF CallTypes, BookedCall, Booked
<1>7. CurrentIsWanted(p)' BY <1>0, <1>1, <1>4, Zenon DEF CurrentIsWanted
<1> QED BY <1>0, <1>1, <1>4, <1>5, <1>6, <1>7, Zenon DEF CallMoved, RecordTypes

LEMMA CallEnds ==
  ASSUME NEW p \in App, AppIInv(p), NEW c \in CallsOf[p], calls[c].stage # NULL,
         NEW progress \in {"WAITING", "HELD", "FAILED"},
         Android(p)!EndCall(c, progress), Android(p)!CallRest
  PROVE  /\ CallMoved(p, c)
         /\ progress = "HELD" => outcome'[calls[c].attempt] \in {"HELD", "CONFIRMED"}
<1> USE AppConstants
<1> DEFINE a == calls[c].attempt
           none == Android(p)!NoCall
<1>0. /\ ScreenTypes(p) /\ CallTypes(p) /\ RecordTypes(p) /\ CurrentIsWanted(p)
  BY Zenon DEF AppIInv
<1>1. /\ calls' = [calls EXCEPT ![c] = none]
      /\ bookingPending' = FALSE /\ unguarded' = Android(p)!Others(c)
      /\ outcome' = [outcome EXCEPT ![a] = IF @ \in {"HELD", "CONFIRMED"} \/ progress = "WAITING"
                                          THEN @ ELSE progress]
      /\ UNCHANGED <<lastBookingAttempt, seatOf, login, checkout, confirmedTicket>>
      /\ \/ UNCHANGED <<route, backStack>>
         \/ /\ route' = [screen |-> "booking", attempt |-> a, progress |-> progress]
            /\ backStack' \in {backStack, Append(backStack, route)}
  BY Zenon
      DEF Android!EndCall, Android!CallRest, Android!Clear, Android!openBooking, Android!Screen,
         Android!pushSnapshot
<1>2. /\ calls \in [CallsOf[p] -> Android(p)!CallRecord]
      /\ outcome \in [Android(p)!Attempt -> {NULL, "FAILED", "HELD", "CONFIRMED"}]
      /\ Booked(p, a)
  BY <1>0, Zenon DEF CallTypes, RecordTypes, BookedCall
<1>3. none \in Android(p)!CallRecord /\ none.stage = NULL /\ none.current = FALSE
  BY Zenon DEF Android!NoCall, Android!CallRecord
<1>4. /\ outcome' \in [Android(p)!Attempt -> {NULL, "FAILED", "HELD", "CONFIRMED"}]
      /\ \A b \in Android(p)!Attempt :
           /\ outcome[b] \in {"HELD", "CONFIRMED"} => outcome'[b] = outcome[b]
           /\ outcome'[b] = "CONFIRMED" => outcome[b] = "CONFIRMED"
      /\ progress = "HELD" => outcome'[a] \in {"HELD", "CONFIRMED"}
  <2>1. a \in Android(p)!Attempt BY <1>2, Zenon DEF Booked
  <2>2. \A b \in Android(p)!Attempt :
          outcome'[b] = IF b = a /\ ~(outcome[b] \in {"HELD", "CONFIRMED"} \/ progress = "WAITING")
                        THEN progress ELSE outcome[b]
    BY <1>1, <1>2, Zenon
  <2>3. outcome' \in [Android(p)!Attempt -> {NULL, "FAILED", "HELD", "CONFIRMED"}]
    BY <1>1, <1>2, <2>2, Zenon
  <2> QED BY <2>1, <2>2, <2>3, Zenon
<1> HIDE DEF none
<1>5. /\ calls' \in [CallsOf[p] -> Android(p)!CallRecord] /\ calls'[c] = none
      /\ \A d \in CallsOf[p] : d # c => calls'[d] = calls[d]
  BY <1>1, <1>2, <1>3, Zenon
<1>6. ScreenTypes(p)'
  <2>1. route' \in Android(p)!Route /\ BookedScreen(p, route)'
    <3>1. CASE route' = route BY <1>0, <1>1, <3>1, Zenon DEF ScreenTypes, BookedScreen, Booked
    <3>2. CASE route' = [screen |-> "booking", attempt |-> a, progress |-> progress]
      BY <1>1, <1>2, <3>2, Zenon DEF Android!Route, BookedScreen, Booked
    <3> QED BY <1>1, <3>1, <3>2, Zenon
  <2>2. backStack' \in Seq(Android(p)!Route) /\ BookedStack(p)' BY <1>0, <1>1, Pushed, Zenon
  <2> QED BY <1>0, <1>1, <2>1, <2>2, Zenon DEF ScreenTypes, Booked
<1>7. CallTypes(p)'
  <2>1. ASSUME NEW d \in CallsOf[p] PROVE BookedCall(p, calls[d])'
    <3>1. CASE d = c BY <1>3, <1>5, <3>1, Zenon DEF BookedCall, none
    <3>2. CASE d # c BY <1>0, <1>1, <1>5, <3>2, Zenon DEF CallTypes, BookedCall, Booked
    <3> QED BY <3>1, <3>2, Zenon
  <2>3. {bookingPending', login'} \subseteq BOOLEAN /\ unguarded' \subseteq CallsOf[p]
    BY <1>0, <1>1, Zenon DEF CallTypes, Android!Others
  <2> QED BY <1>0, <1>1, <1>5, <2>1, <2>3, Zenon DEF CallTypes, BookedCall, Booked
<1>8. CurrentIsWanted(p)'
  <2>1. \A d \in CallsOf[p] : d # c /\ calls[d].stage # NULL => d \in Android(p)!Others(c)
    BY <1>3, Zenon DEF Android!Others, none
  <2>2. \A d \in CallsOf[p] : calls[d].current => calls[d].stage # NULL
    BY <1>0, <1>3, Zenon DEF CallTypes, BookedCall, none
  <2> QED BY <1>0, <1>1, <1>3, <1>5, <2>1, <2>2, Zenon DEF CurrentIsWanted
<1> QED BY <1>1, <1>4, <1>5, <1>6, <1>7, <1>8, Zenon DEF CallMoved

(* A claim stays in care unless it was the call that moved which cared.    *)
LEMMA CareStays ==
  ASSUME NEW p \in App, AppIInv(p), NEW c \in CallsOf[p], CallMoved(p, c),
         uncertain \subseteq uncertain',
         NEW b \in Android(p)!Attempt, NEW S, InCare(p, b, S),
         \/ calls[c].attempt # b \/ calls[c].stage \notin S
         \/ calls'[c].attempt = b /\ calls'[c].stage \in S
         \/ outcome'[b] \in {"HELD", "CONFIRMED"} \/ b \in uncertain'
  PROVE  InCare(p, b, S)'
BY DEF InCare, CallMoved

(* The rest follows from what a call leaves of the claims.                 *)
LEMMA AppCallMoved ==
  ASSUME NEW p \in App, AppIInv(p), NEW c \in CallsOf[p], CallMoved(p, c), ServerKeeps(p),
         UNCHANGED <<bought, checkout, confirmedTicket>>,
         \/ retryStore' = retryStore
         \/ retryStore' = [seat |-> seatOf[calls[c].attempt], confirmed |-> FALSE]
            /\ Booked(p, calls[c].attempt),
         uncertain' \in {uncertain, uncertain \union {calls[c].attempt}},
         uncertain' # uncertain => Booked(p, calls[c].attempt),
         \A b \in Android(p)!Attempt :
           /\ appHolds'[b] = "ACTIVE" => InCare(p, b, {"draft", "release"})'
           /\ appDrafts'[b] = "PENDING_PAYMENT" => InCare(p, b, {"prepare", "cancel"})'
  PROVE  AppIInv(p)'
<1>0. RecordTypes(p) /\ SaidIsOwned(p) BY DEF AppIInv
<1>1. RecordTypes(p)'
  <2>1. uncertain' \subseteq Android(p)!Attempt BY <1>0 DEF RecordTypes, Booked
  <2>2. retryStore' \in [seat : AppSeat \union {NULL}, confirmed : BOOLEAN]
    <3>1. CASE retryStore' = retryStore BY <1>0, <3>1 DEF RecordTypes
    <3>2. CASE retryStore' # retryStore
      <4>1. /\ retryStore' = [seat |-> seatOf[calls[c].attempt], confirmed |-> FALSE]
            /\ seatOf[calls[c].attempt] \in AppSeat
        BY <3>2 DEF Booked
      <4> HIDE DEF Booked
      <4> QED BY <4>1
    <3> QED BY <3>1, <3>2
  <2> QED BY <1>0, <2>1, <2>2 DEF RecordTypes, CallMoved
<1>2. SaidIsOwned(p)'
  BY <1>0 DEF SaidIsOwned, OwnedSeat, CallMoved, ServerKeeps, OwnedStays
<1>3. ClaimsInCare(p)' BY DEF ClaimsInCare
<1> QED BY <1>1, <1>2, <1>3 DEF AppIInv, CallMoved, ServerKeeps

LEMMA AppCall ==
  ASSUME NEW p \in App, AppIInv(p), NEW c \in CallsOf[p], Android(p)!BookingStep(c)
  PROVE  AppIInv(p)'
<1> USE AppConstants
<1> DEFINE a == calls[c].attempt
           stage == calls[c].stage
           heldBy == {"draft", "release"}
           draftBy == {"prepare", "cancel"}
<1>0. /\ ServerTypes(p) /\ ScreenTypes(p) /\ CallTypes(p) /\ RecordTypes(p)
      /\ ClaimsHaveSeats(p) /\ ClaimsInCare(p)
  BY Zenon DEF AppIInv
<1>1. stage \in {"queue", "refresh", "hold", "draft", "prepare", "cancel", "release"}
      /\ Android(p)!CallRest /\ stage # NULL
  BY Zenon
      DEF Android!BookingStep, Android!enterQueue, Android!queueEntry, Android!NothingBegun,
         Android!SeatHeld, Android!HoldAnswerLost, Android!DraftMade, Android!DraftAnswerLost,
         Android!DraftRequestLost, Android!prepare, Android!PrepareFails, Android!CancelDraft,
         Android!ReleaseHold, Android!CleanupFails, Android!At
<1>2. Booked(p, a) /\ a \in Android(p)!Attempt /\ seatOf[a] \in AppSeat
  BY <1>0, <1>1, Zenon DEF CallTypes, BookedCall, Booked
<1>3. ASSUME NEW b \in Android(p)!Attempt
      PROVE  /\ appHolds[b] = "ACTIVE" => InCare(p, b, heldBy)
             /\ appDrafts[b] = "PENDING_PAYMENT" => InCare(p, b, draftBy)
  BY <1>0, Zenon DEF ClaimsInCare
(* The call goes on, or ends; nothing happens on the server.               *)
<1>4. CASE \/ Android(p)!enterQueue(c) \/ Android(p)!queueEntry(c) \/ Android(p)!NothingBegun(c)
           \/ Android(p)!DraftRequestLost(c) \/ Android(p)!prepare(c) \/ Android(p)!PrepareFails(c)
           \/ Android(p)!CleanupFails(c)
  <2>1. /\ UNCHANGED <<appSeats, appHolds, appDrafts, bought>>
        /\ Android(p)!Unchanged
    BY <1>4, Zenon DEF Android!enterQueue, Android!queueEntry, Android!NothingBegun,
         Android!DraftRequestLost, Android!prepare, Android!PrepareFails, Android!CleanupFails,
         Android!serverVars, Android!Unchanged
  <2>2. /\ \/ uncertain' = uncertain
           \/ uncertain' = uncertain \union {a} /\ stage \in {"cancel", "release"}
        /\ \/ retryStore' = retryStore
           \/ retryStore' = [seat |-> seatOf[a], confirmed |-> FALSE]
    BY <1>4, Zenon DEF Android!enterQueue, Android!queueEntry, Android!NothingBegun,
         Android!DraftRequestLost, Android!prepare, Android!PrepareFails, Android!CleanupFails
  <2>3. \/ /\ stage \in {"queue", "refresh", "hold"}
           /\ \/ Android(p)!Stage(c, "hold")
              \/ \E progress \in {"WAITING", "FAILED"} : Android(p)!EndCall(c, progress)
        \/ stage = "draft" /\ Android(p)!Stage(c, "release")
        \/ stage = "prepare" /\ Android(p)!EndCall(c, "HELD")
        \/ stage = "prepare" /\ Android(p)!Stage(c, "cancel")
        \/ /\ stage \in {"cancel", "release"} /\ uncertain' = uncertain \union {a}
           /\ Android(p)!Stage(c, "release") \/ Android(p)!EndCall(c, "FAILED")
    BY <1>4, Zenon DEF Android!enterQueue, Android!queueEntry, Android!NothingBegun,
         Android!DraftRequestLost, Android!prepare, Android!PrepareFails, Android!CleanupFails,
         Android!AfterQueue, Android!At
  <2>4. /\ CallMoved(p, c)
        /\ \/ stage \in {"queue", "refresh", "hold"}
           \/ stage = "draft" /\ calls'[c].attempt = a /\ calls'[c].stage = "release"
           \/ stage = "prepare" /\ outcome'[a] \in {"HELD", "CONFIRMED"}
           \/ stage = "prepare" /\ calls'[c].attempt = a /\ calls'[c].stage = "cancel"
           \/ a \in uncertain'
    BY <1>1, <2>3, StageMoves, CallEnds, Zenon
  <2>5. ServerKeeps(p) BY <1>0, <2>1, <2>4, ServerStill, Zenon DEF CallMoved
  <2>6. ASSUME NEW b \in Android(p)!Attempt
        PROVE  /\ appHolds'[b] = "ACTIVE" => InCare(p, b, heldBy)'
               /\ appDrafts'[b] = "PENDING_PAYMENT" => InCare(p, b, draftBy)'
    <3>1. uncertain \subseteq uncertain' BY <2>2, Zenon
    <3>2. InCare(p, b, heldBy) => InCare(p, b, heldBy)' BY <2>4, <3>1, CareStays, Zenon
    <3>3. InCare(p, b, draftBy) => InCare(p, b, draftBy)' BY <2>4, <3>1, CareStays, Zenon
    <3> QED BY <1>3, <2>1, <3>2, <3>3, Zenon
  <2> QED BY <1>1, <1>2, <2>1, <2>2, <2>4, <2>5, <2>6, AppCallMoved, Zenon DEF Android!CallRest
<1>5. CASE Android(p)!SeatHeld(c) \/ Android(p)!HoldAnswerLost(c)
  <2>1. /\ Android(p)!createSeatHold(a) /\ bought' = bought /\ retryStore' = retryStore
        /\ stage = "hold"
        /\ \/ /\ Android(p)!HoldRefused(a) /\ Android(p)!EndCall(c, "FAILED")
              /\ uncertain' = uncertain
           \/ Android(p)!Stage(c, "draft") /\ uncertain' = uncertain
           \/ Android(p)!EndCall(c, "FAILED") /\ uncertain' = uncertain \union {a}
    BY <1>5, Zenon DEF Android!SeatHeld, Android!HoldAnswerLost, Android!At
  <2>2. /\ CallMoved(p, c)
        /\ \/ Android(p)!HoldRefused(a)
           \/ calls'[c].attempt = a /\ calls'[c].stage = "draft"
           \/ a \in uncertain'
    BY <1>1, <2>1, StageMoves, CallEnds, Zenon
  <2>3. /\ ServerKeeps(p) /\ appDrafts' = appDrafts
        /\ \A b \in Android(p)!Attempt : appHolds'[b] = "ACTIVE" => appHolds[b] = "ACTIVE" \/ b = a
        /\ Android(p)!HoldRefused(a) => appHolds' = appHolds
    BY <1>0, <1>2, <2>1, <2>2, ServerHold, Zenon DEF CallMoved
  <2>4. ASSUME NEW b \in Android(p)!Attempt
        PROVE  /\ appHolds'[b] = "ACTIVE" => InCare(p, b, heldBy)'
               /\ appDrafts'[b] = "PENDING_PAYMENT" => InCare(p, b, draftBy)'
    <3>1. uncertain \subseteq uncertain' BY <2>1, Zenon
    <3>2. InCare(p, b, heldBy) => InCare(p, b, heldBy)' BY <2>1, <2>2, <3>1, CareStays, Zenon
    <3>3. InCare(p, b, draftBy) => InCare(p, b, draftBy)' BY <2>1, <2>2, <3>1, CareStays, Zenon
    <3>4. b = a => InCare(p, b, heldBy)' \/ Android(p)!HoldRefused(a) BY <2>2, Zenon DEF InCare
    <3> QED BY <1>3, <2>3, <3>2, <3>3, <3>4, Zenon
  <2> QED BY <1>1, <1>2, <2>1, <2>2, <2>3, <2>4, AppCallMoved, Zenon DEF Android!CallRest
<1>6. CASE Android(p)!DraftMade(c) \/ Android(p)!DraftAnswerLost(c)
  <2>1. /\ Android(p)!createReservationDraft(a) /\ bought' = bought /\ retryStore' = retryStore
        /\ stage = "draft"
        /\ \/ /\ Android(p)!DraftRefused(a) /\ Android(p)!Stage(c, "release")
              /\ uncertain' = uncertain
           \/ Android(p)!Stage(c, "prepare") /\ uncertain' = uncertain
           \/ Android(p)!Stage(c, "release") /\ uncertain' = uncertain \union {a}
    BY <1>6, Zenon DEF Android!DraftMade, Android!DraftAnswerLost, Android!At
  <2>2. /\ CallMoved(p, c)
        /\ \/ Android(p)!DraftRefused(a)
           \/ calls'[c].attempt = a /\ calls'[c].stage = "prepare"
           \/ a \in uncertain'
    BY <1>1, <2>1, StageMoves, Zenon
  <2>3. /\ ServerKeeps(p)
        /\ \A b \in Android(p)!Attempt :
             /\ appHolds'[b] = "ACTIVE" => appHolds[b] = "ACTIVE" /\ b # a
             /\ appDrafts'[b] = "PENDING_PAYMENT" =>
                  appDrafts[b] = "PENDING_PAYMENT" \/ (b = a /\ ~Android(p)!DraftRefused(a))
    BY <1>0, <1>2, <2>1, <2>2, ServerDraft, Zenon DEF CallMoved
  <2>4. ASSUME NEW b \in Android(p)!Attempt
        PROVE  /\ appHolds'[b] = "ACTIVE" => InCare(p, b, heldBy)'
               /\ appDrafts'[b] = "PENDING_PAYMENT" => InCare(p, b, draftBy)'
    <3>1. uncertain \subseteq uncertain' BY <2>1, Zenon
    <3>2. b # a /\ InCare(p, b, heldBy) => InCare(p, b, heldBy)'
      BY <2>2, <3>1, CareStays, Zenon
    <3>3. InCare(p, b, draftBy) => InCare(p, b, draftBy)' BY <2>1, <2>2, <3>1, CareStays, Zenon
    <3>4. b = a => InCare(p, b, draftBy)' \/ Android(p)!DraftRefused(a) BY <2>2, Zenon
        DEF InCare
    <3> QED BY <1>3, <2>3, <3>2, <3>3, <3>4, Zenon
  <2> QED BY <1>1, <1>2, <2>1, <2>2, <2>3, <2>4, AppCallMoved, Zenon DEF Android!CallRest
<1>7. CASE Android(p)!CancelDraft(c) \/ Android(p)!ReleaseHold(c)
  <2>1. /\ \/ /\ Android(p)!cancelReservationDraft(a) /\ stage = "cancel"
              /\ Android(p)!Stage(c, "release")
           \/ /\ Android(p)!releaseSeatHold(a) /\ stage = "release"
              /\ Android(p)!EndCall(c, "FAILED")
        /\ bought' = bought /\ retryStore' = retryStore /\ uncertain' = uncertain
    BY <1>7, Zenon DEF Android!CancelDraft, Android!ReleaseHold, Android!At
  <2>2. CallMoved(p, c) BY <1>1, <2>1, StageMoves, CallEnds, Zenon
  <2>3. /\ ServerKeeps(p) /\ NoNewClaims(p)
        /\ stage = "cancel" => appDrafts'[a] # "PENDING_PAYMENT"
        /\ stage = "release" => appHolds'[a] # "ACTIVE"
    <3>0. seatOf' = seatOf BY <2>2, Zenon DEF CallMoved
    <3>1. CASE Android(p)!Unchanged /\ (stage = "cancel" => appDrafts[a] # "PENDING_PAYMENT")
               /\ (stage = "release" => appHolds[a] # "ACTIVE")
      BY <1>0, <3>0, <3>1, ServerStill, Zenon DEF Android!Unchanged
    <3>2. CASE /\ stage = "cancel" /\ appDrafts[a] = "PENDING_PAYMENT"
               /\ Android(p)!EndDraft(a, "CANCELLED")
      <4>1. appDrafts' = [appDrafts EXCEPT ![a] = "CANCELLED"] BY <3>2, Zenon
          DEF Android!EndDraft
      <4>2. appDrafts'[a] # "PENDING_PAYMENT" BY <1>0, <1>2, <4>1, Zenon DEF ServerTypes
      <4>3. ServerKeeps(p) /\ NoNewClaims(p) BY <1>0, <1>2, <3>0, <3>2, ServerEnds, Zenon
      <4> QED BY <3>2, <4>2, <4>3, Zenon
    <3>3. CASE /\ stage = "release" /\ appHolds[a] = "ACTIVE"
               /\ Android(p)!EndHold(a, "RELEASED")
      <4>1. appHolds' = [appHolds EXCEPT ![a] = "RELEASED"] BY <3>3, Zenon DEF Android!EndHold
      <4>2. appHolds'[a] # "ACTIVE" BY <1>0, <1>2, <4>1, Zenon DEF ServerTypes
      <4>3. ServerKeeps(p) /\ NoNewClaims(p) BY <1>0, <1>2, <3>0, <3>3, ServerEnds, Zenon
      <4> QED BY <3>3, <4>2, <4>3, Zenon
    <3> QED
      BY <2>1, <3>1, <3>2, <3>3, Zenon
          DEF Android!cancelReservationDraft, Android!releaseSeatHold
  <2>4. ASSUME NEW b \in Android(p)!Attempt
        PROVE  /\ appHolds'[b] = "ACTIVE" => InCare(p, b, heldBy)'
               /\ appDrafts'[b] = "PENDING_PAYMENT" => InCare(p, b, draftBy)'
    <3>1. uncertain \subseteq uncertain' BY <2>1, Zenon
    <3>2. (stage = "release" => b # a) /\ InCare(p, b, heldBy) => InCare(p, b, heldBy)'
      BY <2>1, <2>2, <3>1, CareStays, Zenon
    <3>3. (stage = "cancel" => b # a) /\ InCare(p, b, draftBy) => InCare(p, b, draftBy)'
      BY <2>1, <2>2, <3>1, CareStays, Zenon
    <3> QED BY <1>3, <2>3, <3>2, <3>3, Zenon DEF NoNewClaims
  <2> QED BY <1>1, <1>2, <2>1, <2>2, <2>3, <2>4, AppCallMoved, Zenon DEF Android!CallRest
<1> QED BY <1>4, <1>5, <1>6, <1>7, Zenon DEF Android!BookingStep

-----------------------------------------------------------------------------
(* The checkout, and the end of the process.                               *)
CheckoutEnds(p) ==
  /\ checkout' = Android(p)!NoCall /\ bookingPending' = FALSE
  /\ unguarded' = Android(p)!Others(NULL)

(* A checkout moves on or ends; booking calls and screens stay.            *)
LEMMA CheckoutMoves ==
  ASSUME NEW p \in App, AppIInv(p), ServerKeeps(p), NoNewClaims(p),
         UNCHANGED <<route, backStack, lastBookingAttempt, seatOf, calls, login, uncertain>>,
         \/ CheckoutEnds(p)
         \/ /\ bookingPending' = bookingPending \/ bookingPending' = TRUE
            /\ unguarded' = unguarded
            /\ checkout' \in Android(p)!CallRecord /\ BookedCall(p, checkout)'
            /\ checkout'.stage \in {"paid", "given up", "confirmed"},
         RecordTypes(p)', SaidIsOwned(p)',
         \A b \in Android(p)!Attempt : outcome'[b] \in {outcome[b], "CONFIRMED"}
  PROVE  AppIInv(p)'
<1> USE AppConstants
<1>0. /\ ScreenTypes(p) /\ CallTypes(p) /\ ClaimsInCare(p) /\ CurrentIsWanted(p)
  BY Zenon DEF AppIInv
<1>1. ScreenTypes(p)' BY <1>0, Zenon DEF ScreenTypes, BookedStack, BookedScreen, Booked
<1>2. Android(p)!NoCall \in Android(p)!CallRecord /\ Android(p)!NoCall.stage = NULL
      /\ ~Android(p)!NoCall.current
  BY Zenon DEF Android!NoCall, Android!CallRecord
<1>3. /\ Android(p)!Others(NULL) \subseteq CallsOf[p]
      /\ \A c \in CallsOf[p] : /\ calls[c].stage # NULL => c \in Android(p)!Others(NULL)
                               /\ calls[c].current => calls[c].stage # NULL
  BY <1>0, <1>2, Zenon DEF Android!Others, CallTypes, BookedCall
<1>4. CallTypes(p)'
  <2>1. {bookingPending', login'} \subseteq BOOLEAN /\ unguarded' \subseteq CallsOf[p]
    BY <1>0, <1>3, Zenon DEF CallTypes, CheckoutEnds
  <2>2. \A c \in CallsOf[p] : BookedCall(p, calls[c])'
    BY <1>0, Zenon DEF CallTypes, BookedCall, Booked
  <2>3. /\ checkout' \in Android(p)!CallRecord /\ BookedCall(p, checkout)'
        /\ checkout'.stage \in {NULL, "paid", "given up", "confirmed"}
    BY <1>2, Zenon DEF CheckoutEnds, BookedCall
  <2> QED BY <1>0, <2>1, <2>2, <2>3, Zenon DEF CallTypes
<1>5. ClaimsInCare(p)' BY <1>0, ZenonT(60) DEF ClaimsInCare, InCare, NoNewClaims
<1>6. CurrentIsWanted(p)'
  <2>1. CASE CheckoutEnds(p) BY <1>0, <1>3, <2>1, Zenon DEF CurrentIsWanted, CheckoutEnds
  <2>2. CASE /\ bookingPending' = bookingPending \/ bookingPending' = TRUE
            /\ unguarded' = unguarded
    <3>1. bookingPending => bookingPending' BY <2>2, Zenon
    <3> QED BY <1>0, <2>2, <3>1, Zenon DEF CurrentIsWanted
  <2> QED BY <2>1, <2>2, Zenon
<1> QED BY <1>1, <1>4, <1>5, <1>6, Zenon DEF AppIInv, ServerKeeps

LEMMA AppCheckout ==
  ASSUME NEW p \in App, AppIInv(p),
         \/ \E stage \in {"paid", "given up"} : Android(p)!completeCheckout(stage)
         \/ Android(p)!confirm \/ Android(p)!ConfirmAnswerLost \/ Android(p)!ownedTicket
         \/ Android(p)!cancelDraft \/ Android(p)!CheckoutLost
  PROVE  AppIInv(p)'
<1> USE AppConstants
<1> DEFINE none == Android(p)!NoCall
<1> PICK a : a = checkout.attempt OBVIOUS
<1>0. /\ ServerTypes(p) /\ ScreenTypes(p) /\ CallTypes(p) /\ RecordTypes(p)
      /\ ClaimsHaveSeats(p) /\ SaidIsOwned(p)
  BY Zenon DEF AppIInv
<1>1. none.stage = NULL BY Zenon DEF Android!NoCall
<1>2. UNCHANGED <<route, backStack, lastBookingAttempt, seatOf, calls, login, uncertain>>
  BY Zenon DEF Android!completeCheckout, Android!confirm, Android!ConfirmAnswerLost,
         Android!ownedTicket, Android!cancelDraft, Android!CheckoutLost, Android!screenVars,
         Android!historyVars
<1>3. checkout.stage # NULL => Booked(p, a) /\ a \in Android(p)!Attempt /\ seatOf[a] \in AppSeat
  BY <1>0, Zenon DEF CallTypes, BookedCall, Booked
<1>4. checkout \in Android(p)!CallRecord BY <1>0, Zenon DEF CallTypes
(* The payment window answers. *)
<1>5. ASSUME NEW stage \in {"paid", "given up"}, Android(p)!completeCheckout(stage)
      PROVE  AppIInv(p)'
  <2> DEFINE new == [none EXCEPT !.attempt = route.attempt, !.stage = stage]
  <2>1. /\ UNCHANGED <<appSeats, appHolds, appDrafts, bought, confirmedTicket, retryStore,
                       outcome, unguarded>>
        /\ Android(p)!Unchanged
        /\ route.screen = "checkout" /\ bookingPending' = TRUE
        /\ checkout' = [Android(p)!NoCall EXCEPT !.attempt = route.attempt, !.stage = stage]
    BY <1>5, Zenon DEF Android!completeCheckout, Android!serverVars, Android!historyVars,
                Android!Unchanged
  <2>2. Booked(p, route.attempt) BY <1>0, <2>1, Zenon DEF ScreenTypes, BookedScreen
  <2>3. /\ checkout' \in Android(p)!CallRecord /\ checkout'.stage = stage
        /\ checkout'.attempt = route.attempt
    BY <2>1, <2>2, Zenon DEF Android!NoCall, Android!CallRecord, Android!Stages, Booked
  <2>4. BookedCall(p, checkout)' BY <1>2, <2>2, <2>3, Zenon DEF BookedCall, Booked
  <2>5. ServerKeeps(p) /\ NoNewClaims(p) BY <1>0, <1>2, <2>1, ServerStill, Zenon
  <2>6. RecordTypes(p)' BY <1>0, <1>2, <2>1, Zenon DEF RecordTypes
  <2>7. SaidIsOwned(p)' BY <1>0, <1>2, <2>1, <2>3, Zenon DEF SaidIsOwned, OwnedSeat
  <2> QED BY <1>2, <2>1, <2>3, <2>4, <2>5, <2>6, <2>7, CheckoutMoves, Zenon
(* A purchase is confirmed, or refused. *)
<1>6. CASE Android(p)!confirm \/ Android(p)!ConfirmAnswerLost
  <2>1. /\ checkout.stage = "paid" /\ confirmedTicket' = confirmedTicket /\ outcome' = outcome
    BY <1>6, Zenon DEF Android!confirm, Android!ConfirmAnswerLost
  <2>2. /\ \/ /\ Android(p)!Unchanged /\ bought' = bought
              /\ a \in bought \/ retryStore' = retryStore
           \/ Android(p)!Purchasable(a) /\ Android(p)!Sell(a)
        /\ \/ retryStore' = retryStore
           \/ retryStore' = [seat |-> seatOf[a], confirmed |-> TRUE]
        /\ \/ CheckoutEnds(p)
           \/ /\ checkout' = [checkout EXCEPT !.stage = "confirmed"]
              /\ UNCHANGED <<bookingPending, unguarded>>
              /\ Android(p)!AlreadyConfirmed(a) \/ a \in bought \/ Android(p)!Sell(a)
    BY <1>6, Zenon
        DEF Android!confirm, Android!ConfirmAnswerLost, Android!Unchanged, CheckoutEnds,
         Android!EndCheckout, Android!Clear, Android!serverVars
  <2>3. Booked(p, a) /\ a \in Android(p)!Attempt /\ seatOf[a] \in AppSeat BY <1>3, <2>1, Zenon
  <2>4. /\ ServerKeeps(p) /\ NoNewClaims(p)
        /\ \/ Android(p)!Unchanged /\ bought' = bought
           \/ bought' = bought \union {a} /\ OwnedSeat(seatOf[a])'
    <3>1. CASE Android(p)!Unchanged /\ bought' = bought BY <1>0, <1>2, <3>1, ServerStill, Zenon
    <3>2. CASE Android(p)!Purchasable(a) /\ Android(p)!Sell(a)
      <4>1. /\ ServerKeeps(p) /\ NoNewClaims(p) /\ bought' = bought \union {a}
            /\ appSeats'[seatOf[a]].status = "OWNED"
        BY <1>0, <1>2, <2>3, <3>2, ServerSells, Zenon
      <4> QED BY <1>2, <2>3, <4>1, Zenon DEF OwnedSeat
    <3> QED BY <2>2, <3>1, <3>2, Zenon
  <2>5. ASSUME retryStore' = retryStore \/ OwnedSeat(seatOf[a])' PROVE SaidIsOwned(p)'
    <3>1. \A s : OwnedSeat(s) => OwnedSeat(s)' BY <2>4, Zenon
        DEF OwnedSeat, ServerKeeps, OwnedStays
    <3>2. retryStore'.confirmed => OwnedSeat(retryStore.seat)'
      <4>1. CASE retryStore' = retryStore BY <1>0, <3>1, <4>1, Zenon DEF SaidIsOwned, OwnedSeat
      <4>2. CASE retryStore' # retryStore
        <5> DEFINE s == seatOf[a]
        <5>1. retryStore' = [seat |-> s, confirmed |-> TRUE] BY <2>2, <4>2, Zenon
        <5> HIDE DEF s
        <5>2. retryStore'.seat = s BY <5>1, Zenon
        <5> QED BY <1>2, <2>5, <4>2, <5>2, Zenon DEF OwnedSeat, s
      <4> QED BY <4>1, <4>2, Zenon
    <3>3. checkout'.stage = "confirmed" => OwnedSeat(seatOf[checkout.attempt])'
      <4>1. CASE CheckoutEnds(p) BY <1>1, <4>1, Zenon DEF CheckoutEnds
      <4>2. CASE /\ checkout' = [checkout EXCEPT !.stage = "confirmed"]
                 /\ Android(p)!AlreadyConfirmed(a) \/ a \in bought \/ Android(p)!Sell(a)
        <5>1. checkout'.attempt = a BY <1>4, <4>2, Zenon DEF Android!CallRecord
        <5>2. CASE Android(p)!AlreadyConfirmed(a)
          <6>1. OwnedSeat(seatOf[a]) BY <1>0, <5>2, Zenon
              DEF SaidIsOwned, Android!AlreadyConfirmed
          <6> QED BY <1>2, <3>1, <5>1, <6>1, Zenon DEF OwnedSeat
        <5>3. CASE a \in bought
          <6>1. OwnedSeat(seatOf[a]) BY <1>0, <2>3, <5>3, Zenon DEF SaidIsOwned
          <6> QED BY <1>2, <3>1, <5>1, <6>1, Zenon DEF OwnedSeat
        <5>4. CASE Android(p)!Sell(a)
          <6>1. appSeats'[seatOf[a]].status = "OWNED"
            BY <1>0, <2>3, <5>4, Zenon DEF Android!Sell, ServerTypes
          <6> QED BY <1>2, <2>3, <5>1, <6>1, Zenon DEF OwnedSeat
        <5> QED BY <4>2, <5>2, <5>3, <5>4, Zenon
      <4> QED BY <2>2, <4>1, <4>2, Zenon
    <3>4. \A b \in Android(p)!Attempt :
            b \in bought' \/ outcome'[b] = "CONFIRMED" => OwnedSeat(seatOf[b])'
      BY <1>0, <1>2, <2>1, <2>4, <3>1, Zenon DEF SaidIsOwned, OwnedSeat
    <3> QED BY <3>2, <3>3, <3>4, Zenon DEF SaidIsOwned
  <2>6. retryStore' = retryStore \/ OwnedSeat(seatOf[a])'
    <3>1. CASE Android(p)!Purchasable(a) /\ Android(p)!Sell(a)
      <4>1. appSeats'[seatOf[a]].status = "OWNED"
        BY <1>0, <2>3, <3>1, Zenon DEF Android!Sell, ServerTypes
      <4> QED BY <1>2, <2>3, <4>1, Zenon DEF OwnedSeat
    <3>2. CASE a \in bought
      <4>1. OwnedSeat(seatOf[a]) BY <1>0, <2>3, <3>2, Zenon DEF SaidIsOwned
      <4> QED BY <1>2, <2>4, <4>1, Zenon DEF OwnedSeat, ServerKeeps, OwnedStays
    <3> QED BY <2>2, <3>1, <3>2, Zenon
  <2>7. RecordTypes(p)'
    <3>1. bought' \subseteq Android(p)!Attempt BY <1>0, <2>3, <2>4, Zenon DEF RecordTypes
    <3>2. retryStore' \in [seat : AppSeat \union {NULL}, confirmed : BOOLEAN]
      <4> DEFINE s == seatOf[a]
      <4>1. retryStore' = retryStore \/ retryStore' = [seat |-> s, confirmed |-> TRUE] BY
          <2>2, Zenon
      <4>2. s \in AppSeat BY <2>3, Zenon
      <4> HIDE DEF s
      <4>3. CASE retryStore' = retryStore BY <1>0, <4>3, Zenon DEF RecordTypes
      <4>4. CASE retryStore' = [seat |-> s, confirmed |-> TRUE] BY <4>2, <4>4, Zenon
      <4> QED BY <4>1, <4>3, <4>4, Zenon
    <3> QED BY <1>0, <1>2, <2>1, <3>1, <3>2, Zenon DEF RecordTypes
  <2>8. \/ CheckoutEnds(p)
        \/ /\ bookingPending' = bookingPending \/ bookingPending' = TRUE
           /\ unguarded' = unguarded
           /\ checkout' \in Android(p)!CallRecord /\ BookedCall(p, checkout)'
           /\ checkout'.stage \in {"paid", "given up", "confirmed"}
    <3>1. CASE /\ checkout' = [checkout EXCEPT !.stage = "confirmed"]
               /\ UNCHANGED <<bookingPending, unguarded>>
      <4>1. /\ checkout' \in Android(p)!CallRecord /\ checkout'.stage = "confirmed"
            /\ checkout'.attempt = a
        BY <1>4, <3>1, Zenon DEF Android!CallRecord, Android!Stages
      <4>2. BookedCall(p, checkout)' BY <1>2, <2>3, <4>1, Zenon DEF BookedCall, Booked
      <4> QED BY <3>1, <4>1, <4>2, Zenon
    <3> QED BY <2>2, <3>1, Zenon
  <2> QED BY <1>2, <2>1, <2>4, <2>5, <2>6, <2>7, <2>8, CheckoutMoves, Zenon
(* The ticket is shown, the draft given back, or an answer is lost. *)
<1>7. CASE Android(p)!ownedTicket
  <2>1. /\ checkout.stage = "confirmed" /\ CheckoutEnds(p)
        /\ UNCHANGED <<appSeats, appHolds, appDrafts, bought, retryStore>>
        /\ Android(p)!Unchanged
        /\ outcome' \in {outcome, [outcome EXCEPT ![a] = "CONFIRMED"]}
        /\ confirmedTicket' \in {confirmedTicket, seatOf[a]}
    BY <1>7, Zenon DEF Android!ownedTicket, Android!EndCheckout, Android!Clear, CheckoutEnds,
         Android!serverVars, Android!Unchanged
  <2>2. Booked(p, a) /\ a \in Android(p)!Attempt /\ seatOf[a] \in AppSeat BY <1>3, <2>1, Zenon
  <2>3. ServerKeeps(p) /\ NoNewClaims(p) BY <1>0, <1>2, <2>1, ServerStill, Zenon
  <2>4. /\ outcome' \in [Android(p)!Attempt -> {NULL, "FAILED", "HELD", "CONFIRMED"}]
        /\ \A b \in Android(p)!Attempt :
             outcome'[b] = outcome[b] \/ (b = a /\ outcome'[b] = "CONFIRMED")
    BY <1>0, <2>1, Zenon DEF RecordTypes
  <2>5. RecordTypes(p)' BY <1>0, <1>2, <2>1, <2>2, <2>4, Zenon DEF RecordTypes
  <2>6. SaidIsOwned(p)'
    <3>1. OwnedSeat(seatOf[a]) BY <1>0, <2>1, Zenon DEF SaidIsOwned
    <3>2. checkout'.stage # "confirmed" BY <1>1, <2>1, Zenon DEF CheckoutEnds
    <3> QED BY <1>0, <1>2, <2>1, <2>4, <3>1, <3>2, Zenon DEF SaidIsOwned, OwnedSeat
  <2>7. \A b \in Android(p)!Attempt : outcome'[b] \in {outcome[b], "CONFIRMED"} BY <2>4, Zenon
  <2> QED BY <1>2, <2>1, <2>3, <2>5, <2>6, <2>7, CheckoutMoves, Zenon
<1>8. CASE Android(p)!cancelDraft \/ Android(p)!CheckoutLost
  <2>1. /\ CheckoutEnds(p) /\ UNCHANGED <<bought, confirmedTicket, retryStore, outcome>>
        /\ \/ Android(p)!Unchanged
           \/ /\ checkout.stage = "given up" /\ appDrafts[a] = "PENDING_PAYMENT"
              /\ Android(p)!EndDraft(a, "CANCELLED")
    BY <1>8, Zenon
        DEF Android!cancelDraft, Android!CheckoutLost, Android!EndCheckout, Android!Clear,
         CheckoutEnds, Android!serverVars, Android!Unchanged, Android!cancelReservationDraft
  <2>2. ServerKeeps(p) /\ NoNewClaims(p)
    <3>1. CASE Android(p)!Unchanged BY <1>0, <1>2, <3>1, ServerStill, Zenon
    <3>2. CASE /\ checkout.stage = "given up" /\ appDrafts[a] = "PENDING_PAYMENT"
               /\ Android(p)!EndDraft(a, "CANCELLED")
      <4>1. a \in Android(p)!Attempt BY <1>3, <3>2, Zenon
      <4> QED BY <1>0, <1>2, <3>2, <4>1, ServerEnds, Zenon
    <3> QED BY <2>1, <3>1, <3>2, Zenon
  <2>3. RecordTypes(p)' BY <1>0, <1>2, <2>1, Zenon DEF RecordTypes
  <2>4. SaidIsOwned(p)'
    <3>1. \A s : OwnedSeat(s) => OwnedSeat(s)' BY <2>2, Zenon
        DEF OwnedSeat, ServerKeeps, OwnedStays
    <3>2. checkout'.stage # "confirmed" BY <1>1, <2>1, Zenon DEF CheckoutEnds
    <3> QED BY <1>0, <1>2, <2>1, <3>1, <3>2, Zenon DEF SaidIsOwned, OwnedSeat
  <2> QED BY <1>2, <2>1, <2>2, <2>3, <2>4, CheckoutMoves, Zenon
<1> QED BY <1>5, <1>6, <1>7, <1>8, Zenon

LEMMA NoScreens == ASSUME NEW R PROVE <<>> \in Seq(R) /\ DOMAIN <<>> = {}
<1>1. <<>> \in Seq(R) OBVIOUS
<1>2. DOMAIN <<>> = {} OBVIOUS
<1> QED BY <1>1, <1>2

(* The calls of a process that dies are among the uncertain.               *)
LEMMA AppDies == ASSUME NEW p \in App, AppIInv(p), Android(p)!Kill PROVE AppIInv(p)'
<1> USE AppConstants
<1> DEFINE none == Android(p)!NoCall
           live == {c \in CallsOf[p] : calls[c] # none}
<1>0. /\ ServerTypes(p) /\ ScreenTypes(p) /\ CallTypes(p) /\ RecordTypes(p)
      /\ ClaimsHaveSeats(p) /\ SaidIsOwned(p) /\ ClaimsInCare(p)
  BY Zenon DEF AppIInv
<1>1. /\ UNCHANGED <<appSeats, appHolds, appDrafts, bought, seatOf, retryStore, outcome>>
      /\ Android(p)!Unchanged
      /\ route' = Android(p)!Tab /\ backStack' = <<>> /\ lastBookingAttempt' = NULL
      /\ bookingPending' = FALSE /\ login' = FALSE /\ unguarded' = {}
      /\ calls' = [c \in CallsOf[p] |-> none] /\ checkout' = none /\ confirmedTicket' = NULL
      /\ uncertain' = uncertain \union {calls[c].attempt : c \in live}
  BY Zenon DEF Android!Kill, Android!serverVars, Android!Unchanged
<1>2. none \in Android(p)!CallRecord /\ none.stage = NULL /\ ~none.current /\ none.attempt = NULL
  BY Zenon DEF Android!NoCall, Android!CallRecord
<1>3. \A c \in CallsOf[p] : calls[c].stage # NULL => c \in live BY <1>2, Zenon
<1> HIDE DEF none
<1>4. ServerKeeps(p) BY <1>0, <1>1, ServerStill, Zenon
<1>5. ScreenTypes(p)'
  <2>1. Android(p)!Tab \in Android(p)!Route /\ Android(p)!Tab.screen = "tab"
    BY Zenon DEF Android!Tab, Android!Route
  <2>2. backStack' \in Seq(Android(p)!Route) /\ DOMAIN backStack' = {}
    BY <1>1, NoScreens, Zenon
  <2> QED BY <1>0, <1>1, <2>1, <2>2, Zenon DEF ScreenTypes, BookedStack, BookedScreen
<1>6. CallTypes(p)'
  <2>1. \A c \in CallsOf[p] : BookedCall(p, calls[c])' BY <1>1, <1>2, Zenon DEF BookedCall, none
  <2>2. BookedCall(p, checkout)' BY <1>1, <1>2, Zenon DEF BookedCall, none
  <2> QED BY <1>1, <1>2, <2>1, <2>2, Zenon DEF CallTypes
<1>7. RecordTypes(p)'
  <2>1. ASSUME NEW c \in live PROVE calls[c].attempt \in Android(p)!Attempt
    BY <1>0, Zenon DEF CallTypes, BookedCall, Booked, none
  <2> QED BY <1>0, <1>1, <2>1, Zenon DEF RecordTypes
<1>8. SaidIsOwned(p)' BY <1>0, <1>1, <1>2, Zenon DEF SaidIsOwned, OwnedSeat
<1>9. ClaimsInCare(p)'
  <2>1. ASSUME NEW b \in Android(p)!Attempt, NEW S, NULL \notin S, InCare(p, b, S)
        PROVE  InCare(p, b, S)'
    BY <1>1, <1>3, <2>1, Zenon DEF InCare
  <2> QED BY <1>0, <1>1, <2>1, Zenon DEF ClaimsInCare
<1>10. CurrentIsWanted(p)' BY <1>1, <1>2, Zenon DEF CurrentIsWanted
<1> QED BY <1>4, <1>5, <1>6, <1>7, <1>8, <1>9, <1>10, Zenon DEF AppIInv, ServerKeeps

-----------------------------------------------------------------------------
(* Every step of the app keeps its invariant.                              *)
LEMMA AppNext == ASSUME NEW p \in App, AppIInv(p), Android(p)!Next PROVE AppIInv(p)'
<1>1. CASE \/ \E a \in Android(p)!Attempt : Android(p)!HoldLapses(a) \/ Android(p)!DraftLapses(a)
           \/ \E s \in AppSeat : Android(p)!SoldElsewhere(s)
  BY <1>1, AppLapses
<1>2. CASE \/ Android(p)!closeRoute \/ Android(p)!navigate \/ Android(p)!openSeatMap
           \/ Android(p)!completeNativeLogin \/ Android(p)!LoginAnswered
           \/ Android(p)!continueToCheckout
  BY <1>2, AppScreens
<1>3. CASE \/ \E a \in Android(p)!Attempt, s \in AppSeat : Android(p)!book(a, s)
           \/ Android(p)!retryBooking \/ Android(p)!refreshBooking
  BY <1>3, AppBooks
<1>4. ASSUME NEW c \in CallsOf[p], Android(p)!BookingStep(c) PROVE AppIInv(p)'
  BY <1>4, AppCall
<1>5. CASE \/ \E stage \in {"paid", "given up"} : Android(p)!completeCheckout(stage)
           \/ Android(p)!confirm \/ Android(p)!ConfirmAnswerLost \/ Android(p)!ownedTicket
           \/ Android(p)!cancelDraft \/ Android(p)!CheckoutLost
  BY <1>5, AppCheckout, Zenon
<1>6. CASE Android(p)!Kill BY <1>6, AppDies
<1> QED BY <1>1, <1>2, <1>3, <1>4, <1>5, <1>6, Zenon DEF Android!Next

LEMMA AppAlways == Spec => [](\A a \in App : component = a => AppIInv(a))
<1> USE ComponentsAssumption DEF Service
<1>1. Init => \A a \in App : component = a => AppIInv(a)
  <2> SUFFICES ASSUME Init, NEW a \in App, component = a PROVE AppIInv(a)
    OBVIOUS
  <2>1. Android(a)!Init BY DEF Init, RunOf
  <2> QED BY <2>1, AppInit
<1>2. (\A a \in App : component = a => AppIInv(a)) /\ [Next]_vars
        => (\A a \in App : component = a => AppIInv(a))'
  <2> SUFFICES ASSUME \A a \in App : component = a => AppIInv(a), [Next]_vars,
                      NEW a \in App, component' = a
               PROVE  AppIInv(a)'
    OBVIOUS
  <2>1. component = a /\ AppIInv(a) BY DEF Next, vars
  <2>2. Android(a)!Next \/ UNCHANGED appVars BY <2>1 DEF Next, vars, webVars
  <2> QED BY <2>1, <2>2, AppNext, AppStill
<1> QED BY <1>1, <1>2, PTL DEF Spec

(* CustomerModels.kt, CustomerApp.kt, TossCheckout.kt of the Android app:  *)
(* a booking that fails leaves neither hold nor draft, the app confirms    *)
(* only what the customer owns, and an answer opens no screen the customer *)
(* has turned away from, except when a login or another operation has      *)
(* cleared the pending flag under its call (CustomerApp.kt:431, 612).      *)
THEOREM AppBookingsSound == Spec => AppBookingsAreSound
<1>1. (\A a \in App : component = a => AppIInv(a)) =>
        \A a \in App : component = a =>
          Android(a)!FailuresLeaveNoClaim /\ Android(a)!ConfirmedIsOwned
  <2> SUFFICES ASSUME NEW a \in App, AppIInv(a)
               PROVE  Android(a)!FailuresLeaveNoClaim /\ Android(a)!ConfirmedIsOwned
    OBVIOUS
  <2>1. Android(a)!FailuresLeaveNoClaim
    BY DEF AppIInv, ClaimsInCare, InCare, Android!FailuresLeaveNoClaim, Android!InFlight
  <2>2. Android(a)!ConfirmedIsOwned
    BY DEF AppIInv, SaidIsOwned, OwnedSeat, Android!ConfirmedIsOwned
  <2> QED BY <2>1, <2>2
<1>2. (\A a \in App : component = a => AppIInv(a)) =>
        [\A a \in App : component = a => Android(a)!OnlyWantedPublishes]_vars
  BY DEF AppIInv, CurrentIsWanted, Android!OnlyWantedPublishes, Android!Publishes
<1>3. Spec => [](\A a \in App : component = a =>
                    Android(a)!FailuresLeaveNoClaim /\ Android(a)!ConfirmedIsOwned)
  BY <1>1, AppAlways, PTL
<1>4. Spec => [][\A a \in App : component = a => Android(a)!OnlyWantedPublishes]_vars
  BY <1>2, AppAlways, PTL
<1> QED BY <1>3, <1>4, PTL DEF AppBookingsAreSound
-----------------------------------------------------------------------------
(* The choice of seats in the web shop.                                    *)
(*                                                                         *)
(* The instance has its own copies of the library's operators.             *)
LEMMA ShopNames ==
  /\ \A f : Shop!Range(f) = Range(f)
  /\ \A f : Shop!IsInjective(f) <=> IsInjective(f)
  /\ \A s, S : Shop!Only(s, S) = Only(s, S)
  /\ \A S : Shop!Cardinality(S) = Cardinality(S)
<1>1. \A f : Shop!Range(f) = Range(f) BY DEF Range, Shop!Range
<1>2. \A f : Shop!IsInjective(f) <=> IsInjective(f) BY DEF IsInjective, Shop!IsInjective
<1>3. \A s, S : Shop!Only(s, S) = Only(s, S) BY DEF Only, Shop!Only
<1>4. \A S : Shop!Cardinality(S) = Cardinality(S) BY DEF Cardinality, Shop!Cardinality
<1> QED BY <1>1, <1>2, <1>3, <1>4

LEMMA GreaterOfTwo ==
  ASSUME NEW a \in Int, NEW b \in Int
  PROVE  Shop!Max({a, b}) \in {a, b} /\ Shop!Max({a, b}) >= a /\ Shop!Max({a, b}) >= b
<1>1. \E x \in {a, b} : \A y \in {a, b} : x >= y
  <2>1. CASE a >= b BY <2>1
  <2>2. CASE ~(a >= b) BY <2>2
  <2> QED BY <2>1, <2>2
<1> DEFINE m == CHOOSE x \in {a, b} : \A y \in {a, b} : x >= y
<1>2. m \in {a, b} /\ \A y \in {a, b} : m >= y BY <1>1
<1>3. Shop!Max({a, b}) = m BY DEF Shop!Max
<1> HIDE DEF m
<1> QED BY <1>2, <1>3

LEMMA SmallerOfTwo ==
  ASSUME NEW a \in Int, NEW b \in Int
  PROVE  Shop!Min({a, b}) \in {a, b} /\ Shop!Min({a, b}) <= a /\ Shop!Min({a, b}) <= b
<1>1. \E x \in {a, b} : \A y \in {a, b} : x <= y
  <2>1. CASE a <= b BY <2>1
  <2>2. CASE ~(a <= b) BY <2>2
  <2> QED BY <2>1, <2>2
<1> DEFINE m == CHOOSE x \in {a, b} : \A y \in {a, b} : x <= y
<1>2. m \in {a, b} /\ \A y \in {a, b} : m <= y BY <1>1
<1>3. Shop!Min({a, b}) = m BY DEF Shop!Min
<1> HIDE DEF m
<1> QED BY <1>2, <1>3

LEMMA LeastOfThree ==
  ASSUME NEW a \in Int, NEW b \in Int, NEW c \in Int
  PROVE  /\ Shop!Min({a, b, c}) \in {a, b, c}
         /\ Shop!Min({a, b, c}) <= a /\ Shop!Min({a, b, c}) <= b /\ Shop!Min({a, b, c}) <= c
<1>1. \E x \in {a, b, c} : \A y \in {a, b, c} : x <= y
  <2>1. CASE a <= b /\ a <= c BY <2>1
  <2>2. CASE b <= a /\ b <= c BY <2>2
  <2>3. CASE c <= a /\ c <= b BY <2>3
  <2> QED BY <2>1, <2>2, <2>3
<1> DEFINE m == CHOOSE x \in {a, b, c} : \A y \in {a, b, c} : x <= y
<1>2. m \in {a, b, c} /\ \A y \in {a, b, c} : m <= y BY <1>1
<1>3. Shop!Min({a, b, c}) = m BY DEF Shop!Min
<1> HIDE DEF m
<1> QED BY <1>2, <1>3

(* Sequences of sequences, joined. *)
LEMMA FlattenFacts ==
  ASSUME NEW T, NEW ss \in Seq(Seq(T))
  PROVE  /\ Shop!FlattenSeq(ss) \in Seq(T)
         /\ Range(Shop!FlattenSeq(ss)) = UNION {Range(ss[i]) : i \in 1..Len(ss)}
         /\ IsInjective(Shop!FlattenSeq(ss)) =>
              \A i, j \in 1..Len(ss) : /\ IsInjective(ss[i])
                                       /\ i # j => Range(ss[i]) \intersect Range(ss[j]) = {}
<1>0. Len(ss) \in Nat OBVIOUS
<1>1. CASE Len(ss) = 0
  <2>1. Shop!FlattenSeq(ss) = ss BY <1>1 DEF Shop!FlattenSeq
  <2>2. ss = <<>> BY <1>1
  <2>3. Range(<<>>) = {} BY DEF Range
  <2> QED BY <2>1, <2>2, <2>3
<1>2. CASE Len(ss) # 0
  <2> DEFINE Rule(g) == [i \in 1..Len(ss) |-> IF i = 1 THEN ss[i] ELSE g[i - 1] \o ss[i]]
             flat == CHOOSE g : g = Rule(g)
  <2>1. \E g : g = Rule(g) BY <1>0, JoinsExist, Zenon
  <2>2. flat = Rule(flat) BY <2>1, Zenon
  <2>3. Shop!FlattenSeq(ss) = flat[Len(ss)] BY <1>2 DEF Shop!FlattenSeq
  <2> HIDE DEF flat
  <2>4. JoinsOf(flat, ss, Len(ss)) BY <2>2, Zenon DEF JoinsOf
  <2>5. PICK g : g = flat OBVIOUS
  <2>6. JoinsOf(g, ss, Len(ss)) BY <2>4, <2>5
  <2>7. /\ g[Len(ss)] \in Seq(T)
        /\ Range(g[Len(ss)]) = UNION {Range(ss[i]) : i \in 1..Len(ss)}
        /\ IsInjective(g[Len(ss)]) =>
             \A i, j \in 1..Len(ss) : /\ IsInjective(ss[i])
                                      /\ i # j => Range(ss[i]) \intersect Range(ss[j]) = {}
    BY <1>2, <2>6, JoinedFacts, Zenon
  <2>8. Shop!FlattenSeq(ss) = g[Len(ss)] BY <2>3, <2>5
  <2> QED BY <2>7, <2>8, Zenon
<1> QED BY <1>1, <1>2, Zenon

-----------------------------------------------------------------------------
(* A place's key is that of a seat the chart c offers. *)
Offered(c, k) ==
  \E i \in DOMAIN c : c[i].interactive /\ \E m \in Shop!Range(c[i].members) : m.key = k

(* What a chart offers, and what of it is bound to the tickets of p. *)
SellableSeat(c) ==
  {s \in [mode : {"single", "whole", "variable"}, keys : Seq(Label), place : Place,
          min : Nat, max : Nat] :
     /\ s.mode = "single" => Len(s.keys) = 1
     /\ \A i \in DOMAIN s.keys : Offered(c, s.keys[i])}

BoundSeat(c, p) ==
  {s \in [mode : {"single", "whole", "variable"}, place : Place, min : Nat, max : Nat,
          tickets : Seq(Listed)] :
     /\ s.mode = "single" => Len(s.tickets) = 1
     /\ \A i \in DOMAIN s.tickets : /\ s.tickets[i] \in TicketsOf[p]
                                    /\ Offered(c, LabelOf[s.tickets[i]])}

LEMMA SellableSeatsFacts ==
  ASSUME NEW c \in Charts PROVE Shop!chartToSellableSeats(c) \in Seq(SellableSeat(c))
<1>1. c \in Seq(Shop!Object) /\ DOMAIN c = 1..Len(c) /\ Len(c) \in Nat BY ShopAssumption
<1> DEFINE ss == [i \in DOMAIN c |-> Shop!SellableSeats(c[i])]
<1>2. ASSUME NEW i \in DOMAIN c PROVE Shop!SellableSeats(c[i]) \in Seq(SellableSeat(c))
  <2> DEFINE o == c[i]
  <2>1. o \in Shop!Object BY <1>1
  <2>2. /\ o.members \in Seq(Shop!Member) /\ DOMAIN o.members = 1..Len(o.members)
        /\ Len(o.members) \in Nat
        /\ o.place \in Place /\ o.min \in Nat /\ o.max \in Nat
        /\ \A j \in DOMAIN o.members : /\ o.members[j].key \in Label
                                       /\ o.members[j].place \in Place
    <3>1. /\ o.members \in Seq(Shop!Member) /\ o.place \in Place /\ o.min \in Nat
          /\ o.max \in Nat
      BY <2>1 DEF Shop!Object
    <3> HIDE DEF o
    <3>2. PICK q : q = o.members OBVIOUS
    <3>3. /\ DOMAIN q = 1..Len(q) /\ Len(q) \in Nat
          /\ \A j \in DOMAIN q : q[j] \in Shop!Member
      BY <3>1, <3>2
    <3>4. \A m \in Shop!Member : m.key \in Label /\ m.place \in Place BY DEF Shop!Member
    <3> QED BY <3>1, <3>2, <3>3, <3>4
  <2>3. ASSUME o.interactive, NEW j \in DOMAIN o.members PROVE Offered(c, o.members[j].key)
    BY <2>3 DEF Offered, Shop!Range
  <2> HIDE DEF o
  <2>4. CASE ~o.interactive
    <3>1. Shop!SellableSeats(o) = <<>> BY <2>4 DEF Shop!SellableSeats
    <3> QED BY <3>1 DEF o
  <2>5. CASE o.interactive /\ o.type = "table" /\ (o.bookAsWhole \/ o.variableOccupancy)
    <3> DEFINE s == [mode |-> IF o.variableOccupancy THEN "variable" ELSE "whole",
                     keys |-> [j \in DOMAIN o.members |-> o.members[j].key],
                     place |-> o.place, min |-> o.min, max |-> o.max]
    <3>1. Shop!SellableSeats(o) = <<s>> BY <2>5 DEF Shop!SellableSeats
    <3>2. s.keys \in Seq(Label) BY <2>2
    <3>3. s \in SellableSeat(c) BY <2>2, <2>3, <2>5, <3>2, Zenon DEF SellableSeat
    <3> HIDE DEF s
    <3> QED BY <3>1, <3>3 DEF o
  <2>6. CASE o.interactive /\ ~(o.type = "table" /\ (o.bookAsWhole \/ o.variableOccupancy))
    <3> DEFINE S(j) == [mode |-> "single", keys |-> <<o.members[j].key>>,
                        place |-> o.members[j].place, min |-> 1, max |-> 1]
    <3>1. Shop!SellableSeats(o) = [j \in DOMAIN o.members |-> S(j)]
      BY <2>6 DEF Shop!SellableSeats
    <3>2. ASSUME NEW j \in DOMAIN o.members PROVE S(j) \in SellableSeat(c)
      <4>1. S(j).keys \in Seq(Label) /\ Len(S(j).keys) = 1 /\ DOMAIN S(j).keys = {1}
            /\ S(j).keys[1] = o.members[j].key
        BY <2>2
      <4> QED BY <2>2, <2>3, <2>6, <4>1 DEF SellableSeat
    <3> HIDE DEF S
    <3>3. [j \in DOMAIN o.members |-> S(j)] \in Seq(SellableSeat(c)) BY <2>2, <3>2
    <3> QED BY <3>1, <3>3 DEF o
  <2> QED BY <2>4, <2>5, <2>6
<1>3. ss \in Seq(Seq(SellableSeat(c))) BY <1>1, <1>2
<1>4. Shop!chartToSellableSeats(c) = Shop!FlattenSeq(ss) BY DEF Shop!chartToSellableSeats
<1> HIDE DEF ss
<1> QED BY <1>3, <1>4, FlattenFacts

(* The recursion of bindChartLayoutToBackendSeats. *)
BindsOf(g, p, seats, n) ==
  /\ g[0] = [bound |-> <<>>, taken |-> {}]
  /\ \A i \in 1..n : g[i] = Shop!BindSeat(p, g[i - 1], seats[i])

LEMMA BindsExist ==
  ASSUME NEW p, NEW seats
  PROVE  \A n \in Nat : \E g : BindsOf(g, p, seats, n)
<1> DEFINE A == {n \in Nat : \E g : BindsOf(g, p, seats, n)}
<1>1. 0 \in A
  <2> DEFINE g == [i \in {0} |-> [bound |-> <<>>, taken |-> {}]]
  <2>1. BindsOf(g, p, seats, 0) BY DEF BindsOf
  <2> QED BY <2>1
<1>2. ASSUME NEW n \in Nat, n \in A PROVE n + 1 \in A
  <2>1. PICK h : BindsOf(h, p, seats, n) BY <1>2
  <2> DEFINE g == [i \in 0..(n + 1) |-> IF i = n + 1 THEN Shop!BindSeat(p, h[n], seats[n + 1])
                                        ELSE h[i]]
  <2>2. g[0] = [bound |-> <<>>, taken |-> {}] BY <2>1 DEF BindsOf
  <2>3. ASSUME NEW i \in 1..(n + 1) PROVE g[i] = Shop!BindSeat(p, g[i - 1], seats[i])
    <3>1. CASE i = n + 1
      <4>1. g[i] = Shop!BindSeat(p, h[n], seats[n + 1]) /\ g[i - 1] = h[n] BY <3>1
      <4> QED BY <3>1, <4>1
    <3>2. CASE i # n + 1
      <4>1. i \in 1..n /\ g[i] = h[i] /\ g[i - 1] = h[i - 1] BY <3>2
      <4> QED BY <2>1, <4>1 DEF BindsOf
    <3> QED BY <3>1, <3>2
  <2> HIDE DEF g
  <2>4. BindsOf(g, p, seats, n + 1) BY <2>2, <2>3 DEF BindsOf
  <2> QED BY <2>4
<1> HIDE DEF A
<1>3. \A n \in Nat : n \in A BY <1>1, <1>2, NumbersFromZero
<1> QED BY <1>3 DEF A

LEMMA BoundIsOf ==
  ASSUME NEW c, NEW p, NEW seats, seats = Shop!chartToSellableSeats(c), Len(seats) \in Nat
  PROVE  \E g : /\ BindsOf(g, p, seats, Len(seats))
                /\ Shop!bindChartLayoutToBackendSeats(c, p) = g[Len(seats)].bound
<1> DEFINE Rule(g) == [n \in 0..Len(seats) |->
             IF n = 0 THEN [bound |-> <<>>, taken |-> {}]
             ELSE Shop!BindSeat(p, g[n - 1], seats[n])]
           sofar == CHOOSE g : g = Rule(g)
<1>1. PICK h : BindsOf(h, p, seats, Len(seats)) BY BindsExist
<1>2. \E g : g = Rule(g)
  <2> DEFINE g == [n \in 0..Len(seats) |-> h[n]]
  <2>1. ASSUME NEW n \in 0..Len(seats)
        PROVE  g[n] = IF n = 0 THEN [bound |-> <<>>, taken |-> {}]
                      ELSE Shop!BindSeat(p, g[n - 1], seats[n])
    <3>1. CASE n = 0 BY <1>1, <3>1 DEF BindsOf
    <3>2. CASE n # 0
      <4>1. n \in 1..Len(seats) /\ g[n] = h[n] /\ g[n - 1] = h[n - 1] BY <3>2
      <4> QED BY <1>1, <3>2, <4>1 DEF BindsOf
    <3> QED BY <3>1, <3>2
  <2>2. g = [n \in 0..Len(seats) |-> g[n]] OBVIOUS
  <2> HIDE DEF g
  <2>3. g = Rule(g) BY <2>1, <2>2
  <2> QED BY <2>3
<1>3. sofar = Rule(sofar) BY <1>2, Zenon
<1>4. Shop!bindChartLayoutToBackendSeats(c, p) = sofar[Len(seats)].bound
  BY DEF Shop!bindChartLayoutToBackendSeats
<1> HIDE DEF sofar
<1>5. ASSUME NEW n \in 0..Len(seats)
      PROVE  sofar[n] = IF n = 0 THEN [bound |-> <<>>, taken |-> {}]
                        ELSE Shop!BindSeat(p, sofar[n - 1], seats[n])
  BY <1>3, Zenon
<1>6. BindsOf(sofar, p, seats, Len(seats)) BY <1>5 DEF BindsOf
<1> QED BY <1>4, <1>6

LEMMA BindSeatFacts ==
  ASSUME NEW c, NEW p \in Performance, NEW sofar, sofar.bound \in Seq(BoundSeat(c, p)),
         NEW seat \in SellableSeat(c)
  PROVE  Shop!BindSeat(p, sofar, seat).bound \in Seq(BoundSeat(c, p))
<1> DEFINE found == [i \in DOMAIN seat.keys |-> Shop!Matches(p, sofar.taken, seat.keys[i])]
           new == [mode |-> seat.mode, place |-> seat.place, min |-> seat.min,
                   max |-> seat.max,
                   tickets |-> [i \in DOMAIN found |-> CHOOSE t \in found[i] : TRUE]]
<1>1. CASE \E i \in DOMAIN found : Shop!Cardinality(found[i]) # 1
  <2>1. Shop!BindSeat(p, sofar, seat) = sofar BY <1>1 DEF Shop!BindSeat
  <2> QED BY <2>1
<1>2. CASE \A i \in DOMAIN found : Shop!Cardinality(found[i]) = 1
  <2>1. Shop!BindSeat(p, sofar, seat).bound = Append(sofar.bound, new)
    BY <1>2, Zenon DEF Shop!BindSeat
  <2>2. /\ seat.mode \in {"single", "whole", "variable"} /\ seat.place \in Place
        /\ seat.min \in Nat /\ seat.max \in Nat /\ seat.keys \in Seq(Label)
        /\ seat.mode = "single" => Len(seat.keys) = 1
        /\ \A i \in DOMAIN seat.keys : Offered(c, seat.keys[i])
    BY DEF SellableSeat
  <2> DEFINE k == seat.keys
             b == new.tickets
  <2>3. /\ Len(k) \in Nat /\ DOMAIN k = 1..Len(k) /\ DOMAIN b = 1..Len(k) BY <2>2
  <2>4. ASSUME NEW i \in 1..Len(k)
        PROVE  /\ b[i] \in TicketsOf[p] /\ b[i] \in Listed /\ LabelOf[b[i]] = k[i]
    <3>1. Cardinality(found[i]) = 1 BY <1>2, <2>3, ShopNames, Zenon
    <3>2. found[i] # {}
      <4>1. PICK X : X = found[i] OBVIOUS
      <4> HIDE DEF found
      <4>2. Cardinality({}) = 0 BY FS_EmptySet
      <4>3. CASE X = {}
        <5>1. Cardinality(X) = 0 BY <4>2, <4>3
        <5> QED BY <3>1, <4>1, <5>1
      <4> QED BY <4>1, <4>3
    <3>3. b[i] = CHOOSE t \in found[i] : TRUE BY <2>3
    <3>4. found[i] = Shop!Matches(p, sofar.taken, k[i]) BY <2>3
    <3> HIDE DEF found, b
    <3>5. b[i] \in Shop!Matches(p, sofar.taken, k[i]) BY <3>2, <3>3, <3>4
    <3> QED BY <3>5, ShopAssumption DEF Shop!Matches
  <2>5. b \in Seq(Listed) /\ Len(b) = Len(k)
    <3> HIDE DEF b, k
    <3>1. b = [i \in 1..Len(k) |-> b[i]] BY <2>3 DEF b
    <3> QED BY <2>3, <2>4, <3>1
  <2>6. new = [mode |-> seat.mode, place |-> seat.place, min |-> seat.min,
               max |-> seat.max, tickets |-> b]
    OBVIOUS
  <2> HIDE DEF b, new
  <2>7. new \in BoundSeat(c, p) BY <2>2, <2>3, <2>4, <2>5, <2>6, Zenon DEF BoundSeat
  <2> QED BY <2>1, <2>7
<1> QED BY <1>1, <1>2

LEMMA BoundSeats ==
  ASSUME NEW c \in Charts, NEW p \in Performance
  PROVE  Shop!bindChartLayoutToBackendSeats(c, p) \in Seq(BoundSeat(c, p))
<1> DEFINE seats == Shop!chartToSellableSeats(c)
<1>1. /\ Len(seats) \in Nat /\ \A i \in 1..Len(seats) : seats[i] \in SellableSeat(c)
  BY SellableSeatsFacts
<1> HIDE DEF seats
<1>2. PICK s : s = seats OBVIOUS
<1>3. PICK g : /\ BindsOf(g, p, s, Len(s))
               /\ Shop!bindChartLayoutToBackendSeats(c, p) = g[Len(s)].bound
  BY <1>1, <1>2, BoundIsOf DEF seats
<1> DEFINE A == {n \in Nat : n <= Len(s) => g[n].bound \in Seq(BoundSeat(c, p))}
<1>4. 0 \in A
  <2>1. g[0].bound = <<>> BY <1>3 DEF BindsOf
  <2>2. <<>> \in Seq(BoundSeat(c, p)) OBVIOUS
  <2> QED BY <2>1, <2>2, Zenon
<1>5. ASSUME NEW n \in Nat, n \in A PROVE n + 1 \in A
  <2> SUFFICES ASSUME n + 1 <= Len(s) PROVE g[n + 1].bound \in Seq(BoundSeat(c, p)) OBVIOUS
  <2>1. n + 1 \in 1..Len(s) /\ n <= Len(s) /\ (n + 1) - 1 = n BY <1>1, <1>2
  <2>2. g[n + 1] = Shop!BindSeat(p, g[n], s[n + 1]) BY <1>3, <2>1 DEF BindsOf
  <2>3. g[n].bound \in Seq(BoundSeat(c, p)) BY <1>5, <2>1
  <2>4. s[n + 1] \in SellableSeat(c) BY <1>1, <1>2, <2>1
  <2> QED BY <2>2, <2>3, <2>4, BindSeatFacts
<1> HIDE DEF A
<1>6. \A n \in Nat : n \in A BY <1>4, <1>5, NumbersFromZero
<1>7. Len(s) \in A BY <1>1, <1>2, <1>6
<1> QED BY <1>1, <1>2, <1>3, <1>7 DEF A

(* Every ticket of p has one place of the binding b, and every place its   *)
(* own spot.                                                               *)
OneToOne(b, c, p) ==
  /\ b \in Seq(BoundSeat(c, p))
  /\ \A i \in 1..Len(b) : IsInjective(b[i].tickets)
  /\ \A i, j \in 1..Len(b) : i # j =>
       /\ Range(b[i].tickets) \intersect Range(b[j].tickets) = {}
       /\ b[i].place # b[j].place
  /\ \A t \in TicketsOf[p] : \E i \in 1..Len(b) : t \in Range(b[i].tickets)

LEMMA CoverMeans ==
  ASSUME chart \in Charts, performance \in Performance, Shop!usePublishedChart
  PROVE  /\ publishedChart = "ready" /\ seatMap # NULL
         /\ OneToOne(Shop!AllBound, chart, performance)
<1>1. publishedChart = "ready" /\ seatMap # NULL BY DEF Shop!usePublishedChart
<1>2. PICK b : b = Shop!AllBound OBVIOUS
<1>3. b \in Seq(BoundSeat(chart, performance))
  <2>1. b = Shop!bindChartLayoutToBackendSeats(chart, performance)
    BY <1>1, <1>2 DEF Shop!AllBound
  <2> QED BY <2>1, BoundSeats
<1>4. /\ Len(b) \in Nat /\ DOMAIN b = 1..Len(b)
      /\ \A i \in 1..Len(b) : b[i] \in BoundSeat(chart, performance)
  BY <1>3
<1> DEFINE ss == [i \in DOMAIN b |-> b[i].tickets]
           ps == [i \in 1..Len(b) |-> b[i].place]
<1>5. ASSUME NEW i \in 1..Len(b)
      PROVE  /\ b[i].tickets \in Seq(Listed) /\ b[i].place \in Place
             /\ Range(b[i].tickets) \subseteq TicketsOf[performance]
  <2>1. /\ b[i].tickets \in Seq(Listed) /\ b[i].place \in Place
        /\ \A k \in DOMAIN b[i].tickets : b[i].tickets[k] \in TicketsOf[performance]
    BY <1>4 DEF BoundSeat
  <2> QED BY <2>1 DEF Range
<1>6. /\ ss \in Seq(Seq(Listed)) /\ Len(ss) = Len(b)
      /\ \A i \in 1..Len(b) : ss[i] = b[i].tickets
  BY <1>4, <1>5
<1>7. /\ Len(Shop!FlattenSeq(ss)) = Cardinality(TicketsOf[performance])
      /\ Cardinality(Range(Shop!FlattenSeq(ss))) = Cardinality(TicketsOf[performance])
      /\ Cardinality({b[i].place : i \in DOMAIN b}) = Len(b)
  BY <1>2, ShopNames DEF Shop!usePublishedChart, Shop!chartCoversAllBackendSeats,
                         Shop!BoundTickets
<1> HIDE DEF ss
<1>8. PICK f : f = Shop!FlattenSeq(ss) OBVIOUS
<1>9. /\ f \in Seq(Listed)
      /\ Range(f) = UNION {Range(ss[i]) : i \in 1..Len(ss)}
      /\ IsInjective(f) =>
           \A i, j \in 1..Len(ss) : /\ IsInjective(ss[i])
                                    /\ i # j => Range(ss[i]) \intersect Range(ss[j]) = {}
  BY <1>6, <1>8, FlattenFacts, Zenon
<1>10. IsInjective(f)
  <2>1. Cardinality(Range(f)) = Len(f) BY <1>7, <1>8
  <2> QED BY <1>9, <2>1, LengthIsSize, Zenon
<1>11. Range(f) = TicketsOf[performance]
  <2>1. Range(f) \subseteq TicketsOf[performance] BY <1>5, <1>6, <1>9
  <2>2. IsFiniteSet(TicketsOf[performance]) BY ShopAssumption
  <2>3. Cardinality(Range(f)) = Cardinality(TicketsOf[performance]) BY <1>7, <1>8
  <2> QED BY <2>1, <2>2, <2>3, FS_Subset
<1>12. \A i, j \in 1..Len(b) : i # j => b[i].place # b[j].place
  <2>1. ps \in Seq(Place) /\ Len(ps) = Len(b) /\ DOMAIN ps = 1..Len(b) BY <1>4, <1>5
  <2>2. Range(ps) = {b[i].place : i \in DOMAIN b} BY <1>4 DEF Range
  <2>3. PICK q : q = ps OBVIOUS
  <2>4. q \in Seq(Place) /\ Cardinality(Range(q)) = Len(q) BY <1>7, <2>1, <2>2, <2>3, Zenon
  <2>5. IsInjective(q) BY <2>4, LengthIsSize
  <2>6. \A i \in 1..Len(b) : q[i] = b[i].place BY <2>3
  <2> HIDE DEF ps
  <2> QED BY <2>1, <2>3, <2>5, <2>6 DEF IsInjective
<1>13. ASSUME NEW t \in TicketsOf[performance]
       PROVE  \E i \in 1..Len(b) : t \in Range(b[i].tickets)
  BY <1>6, <1>9, <1>11
<1>14. \A i, j \in 1..Len(b) : /\ IsInjective(b[i].tickets)
                               /\ i # j => Range(b[i].tickets) \intersect Range(b[j].tickets) = {}
  BY <1>6, <1>9, <1>10, Zenon
<1>15. \A i \in 1..Len(b) : IsInjective(b[i].tickets) BY <1>14
<1>16. \A i, j \in 1..Len(b) : i # j =>
        /\ Range(b[i].tickets) \intersect Range(b[j].tickets) = {}
        /\ b[i].place # b[j].place
  BY <1>12, <1>14, Zenon
<1>17. \A t \in TicketsOf[performance] : \E i \in 1..Len(b) : t \in Range(b[i].tickets) BY <1>13
<1>18. OneToOne(b, chart, performance) BY <1>3, <1>15, <1>16, <1>17, Zenon DEF OneToOne
<1> QED BY <1>1, <1>2, <1>18

ShopIInv ==
  /\ Shop!TypeOK
  /\ \A f \in fetches : f.mounted => f.performance = performance /\ seatMap = NULL
  /\ seatMap # NULL => performance # NULL /\ seatMap \subseteq TicketsOf[performance]
  /\ selected # <<>> => /\ seatMap # NULL /\ Shop!usePublishedChart
                        /\ Range(selected) \subseteq seatMap
                        /\ IsInjective(selected)
  /\ Shop!TablesStayWhole
  /\ Shop!OrdinarySeatsAreFew

(* Seats of a whole binding that share a ticket are one. *)
LEMMA NoSharedTicket ==
  ASSUME NEW b, NEW c, NEW p, OneToOne(b, c, p), NEW x \in Range(b), NEW y \in Range(b),
         Range(x.tickets) \intersect Range(y.tickets) # {}
  PROVE  x = y
<1>1. Len(b) \in Nat /\ DOMAIN b = 1..Len(b) BY DEF OneToOne
<1>2. PICK i \in 1..Len(b) : x = b[i] BY <1>1 DEF Range
<1>3. PICK j \in 1..Len(b) : y = b[j] BY <1>1 DEF Range
<1>4. i = j BY <1>2, <1>3, Zenon DEF OneToOne
<1> QED BY <1>2, <1>3, <1>4

(* What is there of a place, and how many of it are asked for. *)
LEMMA AvailableFacts ==
  ASSUME NEW b, NEW c, NEW p, OneToOne(b, c, p), NEW x \in Range(b)
  PROVE  /\ x \in BoundSeat(c, p)
         /\ x.tickets \in Seq(Listed) /\ Range(x.tickets) \subseteq TicketsOf[p]
         /\ Shop!AvailableOf(x) \in Seq(Listed)
         /\ Range(Shop!AvailableOf(x)) = Range(x.tickets) \intersect seatMap
         /\ IsInjective(Shop!AvailableOf(x))
         /\ Len(Shop!AvailableOf(x)) \in Nat /\ Len(x.tickets) \in Nat
         /\ Shop!Least(x) \in Nat
         /\ x.mode # "variable" => Shop!Least(x) = Len(x.tickets)
         /\ x.max \in Nat
<1>1. PICK i \in 1..Len(b) : x = b[i] BY DEF Range, OneToOne
<1>2. x \in BoundSeat(c, p) /\ IsInjective(x.tickets) BY <1>1 DEF OneToOne
<1>3. /\ x.tickets \in Seq(Listed) /\ x.min \in Nat /\ x.max \in Nat
      /\ \A k \in DOMAIN x.tickets : x.tickets[k] \in TicketsOf[p]
  BY <1>2 DEF BoundSeat
<1>4. Range(x.tickets) \subseteq TicketsOf[p] BY <1>3 DEF Range
<1>5. Shop!AvailableOf(x) = Only(x.tickets, seatMap) BY ShopNames DEF Shop!AvailableOf
<1>6. PICK t : t = x.tickets OBVIOUS
<1>7. /\ Only(t, seatMap) \in Seq(Listed)
      /\ Range(Only(t, seatMap)) = Range(t) \intersect seatMap
      /\ IsInjective(Only(t, seatMap))
  BY <1>2, <1>3, <1>6, OnlyFacts
<1>8. Shop!Max({1, x.min}) \in {1, x.min}
  <2>1. 1 \in Int /\ x.min \in Int BY <1>3
  <2> QED BY <2>1, GreaterOfTwo, Zenon
<1>9. Len(x.tickets) \in Nat BY <1>3
<1>10. /\ Shop!Least(x) \in Nat /\ (x.mode # "variable" => Shop!Least(x) = Len(x.tickets))
  BY <1>3, <1>8, <1>9 DEF Shop!Least
<1>11. Len(Only(t, seatMap)) \in Nat BY <1>7
<1> QED BY <1>2, <1>3, <1>4, <1>5, <1>6, <1>7, <1>9, <1>10, <1>11

(* A click on a table takes at least its least number, at most what is     *)
(* there and, with variable occupancy, at most its greatest.               *)
LEMMA CountFacts ==
  ASSUME NEW b, NEW c, NEW p, OneToOne(b, c, p), NEW x \in Range(b), ~Shop!sold(x),
         quantity \in Nat
  PROVE  /\ Shop!CountOf(x) \in Nat
         /\ Shop!CountOf(x) <= Len(Shop!AvailableOf(x))
         /\ Shop!CountOf(x) >= Shop!Least(x)
         /\ x.mode = "variable" => Shop!CountOf(x) <= Shop!Max({Shop!Least(x), x.max})
<1> DEFINE there == Len(Shop!AvailableOf(x))
           top == Shop!Max({Shop!Least(x), x.max})
           most == IF x.mode = "whole" THEN there ELSE top
           asked == Shop!Max({Shop!Least(x), quantity})
<1>1. there \in Nat /\ Shop!Least(x) \in Nat /\ x.max \in Nat BY AvailableFacts
<1>2. there >= Shop!Least(x) BY <1>1 DEF Shop!sold
<1>3. PICK l, h, q : l = Shop!Least(x) /\ h = x.max /\ q = quantity OBVIOUS
<1>4. /\ l \in Int /\ h \in Int /\ q \in Int BY <1>1, <1>3
<1>5. top \in Nat /\ top >= Shop!Least(x)
  <2>1. Shop!Max({l, h}) \in {l, h} /\ Shop!Max({l, h}) >= l BY <1>4, GreaterOfTwo
  <2> QED BY <1>1, <1>3, <2>1
<1>6. asked \in Nat /\ asked >= Shop!Least(x)
  <2>1. Shop!Max({l, q}) \in {l, q} /\ Shop!Max({l, q}) >= l BY <1>4, GreaterOfTwo
  <2> QED BY <1>1, <1>3, <2>1
<1>7. Shop!CountOf(x) = Shop!Min({there, most, asked}) BY DEF Shop!CountOf
<1> HIDE DEF there, top, asked
<1>8. most \in Nat /\ most >= Shop!Least(x) /\ (x.mode = "variable" => most = top)
  BY <1>1, <1>2, <1>5
<1> HIDE DEF most
<1>9. /\ Shop!Min({there, most, asked}) \in {there, most, asked}
      /\ Shop!Min({there, most, asked}) <= there /\ Shop!Min({there, most, asked}) <= most
  <2>1. PICK x1, x2, x3 : x1 = there /\ x2 = most /\ x3 = asked OBVIOUS
  <2>2. x1 \in Int /\ x2 \in Int /\ x3 \in Int BY <1>1, <1>8, <1>6, <2>1
  <2>3. /\ Shop!Min({x1, x2, x3}) \in {x1, x2, x3}
        /\ Shop!Min({x1, x2, x3}) <= x1 /\ Shop!Min({x1, x2, x3}) <= x2
    BY <2>2, LeastOfThree, Zenon
  <2> QED BY <2>1, <2>3
<1>10. PICK n : n = Shop!Min({there, most, asked}) OBVIOUS
<1>11. n \in Nat /\ n <= there /\ n <= most /\ n >= Shop!Least(x)
  BY <1>1, <1>2, <1>8, <1>9, <1>10, <1>6
<1>12. x.mode = "variable" => n <= top BY <1>8, <1>11
<1> QED BY <1>7, <1>10, <1>11, <1>12 DEF there, top

(* The first n of a sequence, and the last n. *)
LEMMA PartFacts ==
  ASSUME NEW T, NEW s \in Seq(T), IsInjective(s), NEW m \in Nat, NEW n \in Nat,
         m >= 1, n <= Len(s)
  PROVE  /\ SubSeq(s, m, n) \in Seq(T)
         /\ Range(SubSeq(s, m, n)) \subseteq Range(s)
         /\ IsInjective(SubSeq(s, m, n))
         /\ Len(SubSeq(s, m, n)) = IF m <= n THEN n - m + 1 ELSE 0
<1>1. \A i \in m..n : s[i] \in T OBVIOUS
<1>2. PICK u : u = SubSeq(s, m, n) OBVIOUS
<1>3. /\ u \in Seq(T) /\ Len(u) = IF m <= n THEN n - m + 1 ELSE 0 
      /\ \A i \in 1..Len(u) : u[i] = s[m + i - 1]
  BY <1>1, <1>2, SubSeqProperties
<1>4. Len(u) \in Nat /\ DOMAIN u = 1..Len(u) /\ DOMAIN s = 1..Len(s) /\ Len(s) \in Nat
  BY <1>3
<1>5. \A i \in 1..Len(u) : m + i - 1 \in DOMAIN s BY <1>3, <1>4
<1>6. Range(u) \subseteq Range(s) BY <1>3, <1>4, <1>5, Zenon DEF Range
<1>7. IsInjective(u)
  <2>1. ASSUME NEW i \in DOMAIN u, NEW j \in DOMAIN u, u[i] = u[j] PROVE i = j
    <3>1. m + i - 1 = m + j - 1 BY <1>3, <1>4, <1>5, <2>1, Zenon DEF IsInjective
    <3>2. i \in Int /\ j \in Int BY <1>4
    <3> QED BY <3>1, <3>2
  <2> QED BY <2>1 DEF IsInjective
<1> QED BY <1>2, <1>3, <1>6, <1>7

(* What makes a choice s among the places b sound. *)
Sound(s, b) ==
  /\ s \in Seq(Listed) /\ IsInjective(s) /\ Range(s) \subseteq seatMap
  /\ \A t \in Range(b) :
       t.mode # "single" /\ Range(t.tickets) \intersect Range(s) # {} =>
         /\ Range(s) \subseteq Range(t.tickets)
         /\ Len(s) >= Shop!Least(t)
         /\ t.mode = "variable" => Len(s) <= Shop!Max({Shop!Least(t), t.max})
  /\ (\A t \in Range(b) : t.mode # "single" => Range(t.tickets) \intersect Range(s) = {})
       => Len(s) <= MAX_SELECTABLE_SEATS

LEMMA NothingIsSound == ASSUME NEW b PROVE Sound(<<>>, b)
<1>1. Range(<<>>) = {} /\ IsInjective(<<>>) BY DEF Range, IsInjective
<1>2. Len(<<>>) = 0 /\ <<>> \in Seq(Listed) /\ 0 <= MAX_SELECTABLE_SEATS BY ShopAssumption
<1> QED BY <1>1, <1>2 DEF Sound

(* A click on a chosen place. *)
LEMMA OffIsSound ==
  ASSUME NEW b, NEW c, NEW p, OneToOne(b, c, p), Sound(selected, b), NEW seat \in Range(b),
         Range(seat.tickets) \intersect Range(selected) # {}
  PROVE  Sound(Only(selected, Listed \ Range(seat.tickets)), b)
<1>1. PICK u : u = selected OBVIOUS
<1>2. PICK S : S = Listed \ Range(seat.tickets) OBVIOUS
<1>3. PICK s : s = Only(u, S) OBVIOUS
<1>4. /\ u \in Seq(Listed) /\ IsInjective(u) /\ Range(u) \subseteq seatMap BY <1>1 DEF Sound
<1>5. /\ s \in Seq(Listed) /\ Len(s) <= Len(u) /\ Range(s) = Range(u) \intersect S
      /\ IsInjective(s)
  BY <1>3, <1>4, OnlyFacts
<1>6. Len(s) \in Nat /\ Len(u) \in Nat BY <1>4, <1>5
<1>7. CASE seat.mode # "single"
  <2>1. Range(u) \subseteq Range(seat.tickets) BY <1>1, <1>7, Zenon DEF Sound
  <2>2. Range(s) = {} BY <1>2, <1>5, <2>1
  <2>3. s = <<>>
    <3>1. DOMAIN s = 1..Len(s) BY <1>5
    <3>2. DOMAIN s = {} BY <2>2, Zenon DEF Range
    <3>3. Len(s) = 0
      <4>1. CASE Len(s) > 0
        <5>1. 1 \in DOMAIN s BY <1>6, <3>1, <4>1
        <5> QED BY <3>2, <5>1
      <4> QED BY <1>6, <4>1
    <3> QED BY <1>5, <3>3, EmptySeq
  <2> QED BY <1>1, <1>2, <1>3, <2>3, NothingIsSound
<1>8. CASE seat.mode = "single"
  <2>1. ASSUME NEW t \in Range(b), t.mode # "single"
        PROVE  Range(t.tickets) \intersect Range(u) = {}
    <3>1. SUFFICES ASSUME Range(t.tickets) \intersect Range(u) # {} PROVE FALSE OBVIOUS
    <3>2. Range(u) \subseteq Range(t.tickets) BY <1>1, <2>1, <3>1, Zenon DEF Sound
    <3>3. Range(seat.tickets) \intersect Range(t.tickets) # {} BY <1>1, <3>2
    <3>4. seat = t BY <3>3, NoSharedTicket
    <3> QED BY <1>8, <2>1, <3>4
  <2>2. Len(u) <= MAX_SELECTABLE_SEATS BY <1>1, <2>1 DEF Sound
  <2>3. Len(s) <= MAX_SELECTABLE_SEATS BY <1>5, <1>6, <2>2, ShopAssumption
  <2>4. \A t \in Range(b) : t.mode # "single" => Range(t.tickets) \intersect Range(s) = {}
    BY <1>5, <2>1
  <2>5. Range(s) \subseteq seatMap BY <1>4, <1>5
  <2>6. Sound(s, b) BY <1>5, <2>3, <2>4, <2>5 DEF Sound
  <2> QED BY <1>1, <1>2, <1>3, <2>6
<1> QED BY <1>7, <1>8

(* A click on a table that is not chosen. *)
LEMMA TableIsSound ==
  ASSUME NEW b, NEW c, NEW p, OneToOne(b, c, p), NEW seat \in Range(b), ~Shop!sold(seat),
         quantity \in Nat, seat.mode # "single"
  PROVE  Sound(SubSeq(Shop!AvailableOf(seat), 1, Shop!CountOf(seat)), b)
<1>1. PICK a, n : a = Shop!AvailableOf(seat) /\ n = Shop!CountOf(seat) OBVIOUS
<1>2. /\ a \in Seq(Listed) /\ Range(a) = Range(seat.tickets) \intersect seatMap
      /\ IsInjective(a) /\ Shop!Least(seat) \in Nat
  BY <1>1, AvailableFacts
<1>3. /\ n \in Nat /\ n <= Len(a) /\ n >= Shop!Least(seat)
      /\ seat.mode = "variable" => n <= Shop!Max({Shop!Least(seat), seat.max})
  BY <1>1, CountFacts
<1>4. PICK s : s = SubSeq(a, 1, n) OBVIOUS
<1>5. /\ s \in Seq(Listed) /\ Range(s) \subseteq Range(a) /\ IsInjective(s)
      /\ Len(s) = IF 1 <= n THEN n - 1 + 1 ELSE 0
  BY <1>2, <1>3, <1>4, PartFacts
<1>6. Len(s) = n BY <1>3, <1>5
<1>7. Range(s) \subseteq seatMap /\ Range(s) \subseteq Range(seat.tickets) BY <1>2, <1>5
<1>8. ASSUME NEW t \in Range(b), t.mode # "single", Range(t.tickets) \intersect Range(s) # {}
      PROVE  t = seat
  <2>1. Range(t.tickets) \intersect Range(seat.tickets) # {} BY <1>7, <1>8
  <2> QED BY <2>1, NoSharedTicket
<1>9. CASE s = <<>> BY <1>1, <1>4, <1>9, NothingIsSound, Zenon
<1>10. CASE s # <<>>
  <2>1. 1 \in DOMAIN s
    <3>1. DOMAIN s = 1..Len(s) /\ Len(s) \in Nat BY <1>5
    <3>2. Len(s) # 0 BY <1>5, <1>10, EmptySeq
    <3> QED BY <3>1, <3>2
  <2>2. Range(seat.tickets) \intersect Range(s) # {} BY <1>7, <2>1 DEF Range
  <2>3. Sound(s, b) BY <1>3, <1>5, <1>6, <1>7, <1>8, <2>2, Zenon DEF Sound
  <2> QED BY <1>1, <1>4, <2>3
<1> QED BY <1>9, <1>10

(* A click on an ordinary seat that is not chosen: whatever table was      *)
(* chosen is still there, so that it goes.                                 *)
LEMMA SingleIsSound ==
  ASSUME NEW b, NEW c, NEW p, OneToOne(b, c, p), b = Shop!AllBound,
         Sound(selected, b), NEW seat \in Range(b), ~Shop!sold(seat),
         quantity \in Nat \ {0}, seat.mode = "single",
         Range(seat.tickets) \intersect Range(selected) = {}
  PROVE  Sound(Shop!LastOf(Append(Shop!Ordinary, seat.tickets[1]),
                           Shop!Min({MAX_SELECTABLE_SEATS, quantity})), b)
<1>1. PICK u : u = selected OBVIOUS
<1>2. /\ u \in Seq(Listed) /\ IsInjective(u) /\ Range(u) \subseteq seatMap /\ Len(u) \in Nat
  BY <1>1 DEF Sound
<1> DEFINE grouped == UNION {Range(t.tickets) : t \in
              {s \in Shop!boundChartSeats : s.mode # "single" /\ Shop!Chosen(s) # {}}}
<1>3. PICK S : S = Listed \ grouped OBVIOUS
<1>4. PICK o : o = Only(u, S) OBVIOUS
<1>5. Shop!Ordinary = o BY <1>1, <1>3, <1>4, ShopNames, Zenon DEF Shop!Ordinary
<1>6. o \in Seq(Listed) /\ Range(o) = Range(u) \intersect S /\ IsInjective(o)
  BY <1>2, <1>4, OnlyFacts
<1>7. ASSUME NEW t \in Range(b), t.mode # "single"
      PROVE  Range(t.tickets) \intersect Range(o) = {}
  <2>1. CASE Range(t.tickets) \intersect Range(u) = {} BY <1>6, <2>1
  <2>2. CASE Range(t.tickets) \intersect Range(u) # {}
    <3>1. Range(u) \subseteq Range(t.tickets) /\ Len(u) >= Shop!Least(t)
      BY <1>1, <1>7, <2>2, Zenon DEF Sound
    <3>2. PICK a : a = Shop!AvailableOf(t) OBVIOUS
    <3>3. /\ a \in Seq(Listed) /\ Range(a) = Range(t.tickets) \intersect seatMap
          /\ IsInjective(a) /\ Len(a) \in Nat /\ Shop!Least(t) \in Nat
      BY <3>2, AvailableFacts
    <3>4. Len(u) <= Len(a) BY <1>2, <3>1, <3>3, NoLongerThan
    <3>5. ~Shop!sold(t) BY <1>2, <3>1, <3>2, <3>3, <3>4 DEF Shop!sold
    <3>6. t \in Shop!boundChartSeats BY <3>5, ShopNames DEF Shop!boundChartSeats
    <3>7. Shop!Chosen(t) # {} BY <1>1, <2>2, ShopNames DEF Shop!Chosen
    <3>8. Range(t.tickets) \subseteq grouped BY <1>7, <3>6, <3>7
    <3> HIDE DEF grouped
    <3> QED BY <1>3, <1>6, <3>8
  <2> QED BY <2>1, <2>2
<1> HIDE DEF grouped
<1>8. PICK k : k = seat.tickets[1] OBVIOUS
<1>9. /\ seat.tickets \in Seq(Listed) /\ Len(seat.tickets) = 1
      /\ Range(Shop!AvailableOf(seat)) = Range(seat.tickets) \intersect seatMap
      /\ Shop!AvailableOf(seat) \in Seq(Listed)
      /\ Shop!Least(seat) = 1
  <2>1. seat \in BoundSeat(c, p) BY AvailableFacts
  <2>2. Len(seat.tickets) = 1 BY <2>1 DEF BoundSeat
  <2> QED BY <2>2, AvailableFacts, Zenon
<1>10. k \in Listed /\ Range(seat.tickets) = {k}
  <2>1. DOMAIN seat.tickets = {1} BY <1>9
  <2> QED BY <1>8, <1>9, <2>1 DEF Range
<1>11. k \in seatMap
  <2>1. PICK a : a = Shop!AvailableOf(seat) OBVIOUS
  <2>2. a \in Seq(Listed) /\ Len(a) \in Nat BY <1>9, <2>1
  <2>3. Len(a) >= 1 BY <1>9, <2>1, <2>2 DEF Shop!sold
  <2>4. 1 \in DOMAIN a BY <2>2, <2>3
  <2>5. Range(a) # {} BY <2>4 DEF Range
  <2> QED BY <1>9, <1>10, <2>1, <2>5
<1>12. k \notin Range(o) BY <1>1, <1>6, <1>10
<1>13. PICK w : w = Append(o, k) OBVIOUS
<1>14. /\ w \in Seq(Listed) /\ Range(w) = Range(o) \union {k} /\ IsInjective(w)
       /\ Len(w) \in Nat
  <2>1. /\ w \in Seq(Listed) /\ Len(w) = Len(o) + 1 /\ Len(o) \in Nat
        /\ \A i \in 1..Len(o) : w[i] = o[i]
        /\ w[Len(o) + 1] = k
        /\ DOMAIN o = 1..Len(o) /\ DOMAIN w = 1..(Len(o) + 1)
    BY <1>6, <1>10, <1>13
  <2>2. Range(w) = Range(o) \union {k}
    <3>1. ASSUME NEW x \in Range(w) PROVE x \in Range(o) \union {k} BY <2>1 DEF Range
    <3>2. ASSUME NEW x \in Range(o) \union {k} PROVE x \in Range(w) BY <2>1 DEF Range
    <3> QED BY <3>1, <3>2
  <2>3. ASSUME NEW i \in DOMAIN w, NEW j \in DOMAIN w, w[i] = w[j] PROVE i = j
    <3>1. CASE i \in 1..Len(o) /\ j \in 1..Len(o)
      <4>1. o[i] = o[j] BY <2>1, <2>3, <3>1
      <4> QED BY <1>6, <2>1, <3>1, <4>1 DEF IsInjective
    <3>2. CASE i = Len(o) + 1 /\ j \in 1..Len(o) BY <1>12, <2>1, <2>3, <3>2 DEF Range
    <3>3. CASE j = Len(o) + 1 /\ i \in 1..Len(o) BY <1>12, <2>1, <2>3, <3>3 DEF Range
    <3> QED BY <2>1, <3>1, <3>2, <3>3
  <2>4. IsInjective(w) BY <2>3 DEF IsInjective
  <2> QED BY <2>1, <2>2, <2>4
<1>15. PICK n : n = Shop!Min({MAX_SELECTABLE_SEATS, quantity}) OBVIOUS
<1>16. n \in Nat \ {0} /\ n <= MAX_SELECTABLE_SEATS
  <2>1. MAX_SELECTABLE_SEATS \in Nat \ {0} BY ShopAssumption
  <2>2. PICK q : q = quantity OBVIOUS
  <2>3. /\ Shop!Min({MAX_SELECTABLE_SEATS, q}) \in {MAX_SELECTABLE_SEATS, q}
        /\ Shop!Min({MAX_SELECTABLE_SEATS, q}) <= MAX_SELECTABLE_SEATS
    BY <2>1, <2>2, SmallerOfTwo
  <2> QED BY <1>15, <2>1, <2>2, <2>3
<1>17. PICK s : s = Shop!LastOf(w, n) OBVIOUS
<1>18. /\ s \in Seq(Listed) /\ IsInjective(s) /\ Range(s) \subseteq Range(w)
       /\ Len(s) <= n /\ Len(s) \in Nat
  <2>1. CASE Len(w) > n
    <3>1. s = SubSeq(w, Len(w) - n + 1, Len(w)) BY <1>17, <2>1, Zenon DEF Shop!LastOf
    <3>2. PICK m : m = Len(w) - n + 1 OBVIOUS
    <3>3. m \in Nat /\ m >= 1 /\ m <= Len(w) /\ Len(w) - m + 1 = n
      BY <1>14, <1>16, <2>1, <3>2
    <3>4. /\ SubSeq(w, m, Len(w)) \in Seq(Listed)
          /\ Range(SubSeq(w, m, Len(w))) \subseteq Range(w)
          /\ IsInjective(SubSeq(w, m, Len(w)))
          /\ Len(SubSeq(w, m, Len(w))) = Len(w) - m + 1
      <4>1. PICK z : z = Len(w) OBVIOUS
      <4>2. z \in Nat /\ z <= Len(w) BY <1>14, <4>1
      <4>3. /\ SubSeq(w, m, z) \in Seq(Listed)
            /\ Range(SubSeq(w, m, z)) \subseteq Range(w)
            /\ IsInjective(SubSeq(w, m, z))
            /\ Len(SubSeq(w, m, z)) = IF m <= z THEN z - m + 1 ELSE 0
        BY <1>14, <3>3, <4>2, PartFacts
      <4> QED BY <3>3, <4>1, <4>3
    <3> QED BY <1>16, <3>1, <3>2, <3>3, <3>4
  <2>2. CASE ~(Len(w) > n)
    <3>1. s = w BY <1>17, <2>2 DEF Shop!LastOf
    <3> QED BY <1>14, <1>16, <2>2, <3>1
  <2> QED BY <2>1, <2>2
<1>19. \A t \in Range(b) : t.mode # "single" => Range(t.tickets) \intersect Range(s) = {}
  <2>1. ASSUME NEW t \in Range(b), t.mode # "single"
        PROVE  Range(t.tickets) \intersect Range(s) = {}
    <3>1. k \notin Range(t.tickets)
      <4>1. SUFFICES ASSUME k \in Range(t.tickets) PROVE FALSE OBVIOUS
      <4>2. Range(seat.tickets) \intersect Range(t.tickets) # {} BY <1>10, <4>1
      <4>3. seat = t BY <4>2, NoSharedTicket
      <4> QED BY <2>1, <4>3
    <3>2. Range(t.tickets) \intersect Range(o) = {} BY <1>7, <2>1
    <3> QED BY <1>14, <1>18, <3>1, <3>2
  <2> QED BY <2>1
<1>20. Range(s) \subseteq seatMap BY <1>2, <1>6, <1>11, <1>14, <1>18
<1>21. Len(s) <= MAX_SELECTABLE_SEATS BY <1>16, <1>18, ShopAssumption
<1>22. Sound(s, b) BY <1>18, <1>19, <1>20, <1>21 DEF Sound
<1> QED BY <1>5, <1>8, <1>13, <1>15, <1>17, <1>22

LEMMA ToggleIsSound ==
  ASSUME NEW b, NEW c, NEW p, OneToOne(b, c, p), b = Shop!AllBound,
         Sound(selected, b), NEW seat \in Range(b), ~Shop!sold(seat), quantity \in Nat \ {0}
  PROVE  Sound(Shop!toggleChartSeatSelection(seat), b)
<1>1. Shop!Chosen(seat) = Range(seat.tickets) \intersect Range(selected)
  BY ShopNames DEF Shop!Chosen
<1>2. CASE Shop!Chosen(seat) # {}
  <2>1. Shop!toggleChartSeatSelection(seat) = Only(selected, Listed \ Range(seat.tickets))
    BY <1>2, ShopNames DEF Shop!toggleChartSeatSelection
  <2> QED BY <1>1, <1>2, <2>1, OffIsSound
<1>3. CASE Shop!Chosen(seat) = {} /\ seat.mode # "single"
  <2>1. Shop!toggleChartSeatSelection(seat) =
          SubSeq(Shop!AvailableOf(seat), 1, Shop!CountOf(seat))
    BY <1>3, Zenon DEF Shop!toggleChartSeatSelection
  <2> QED BY <1>3, <2>1, TableIsSound
<1>4. CASE Shop!Chosen(seat) = {} /\ seat.mode = "single"
  <2>1. Shop!toggleChartSeatSelection(seat) =
          Shop!LastOf(Append(Shop!Ordinary, seat.tickets[1]),
                      Shop!Min({MAX_SELECTABLE_SEATS, quantity}))
    BY <1>4 DEF Shop!toggleChartSeatSelection
  <2> QED BY <1>1, <1>4, <2>1, SingleIsSound
<1> QED BY <1>2, <1>3, <1>4

LEMMA ShopSound ==
  ASSUME ShopIInv, chart \in Charts, performance \in Performance, Shop!usePublishedChart
  PROVE  Sound(selected, Shop!AllBound)
<1>1. CASE selected = <<>> BY <1>1, NothingIsSound
<1>2. CASE selected # <<>>
  <2>1. /\ selected \in Seq(Listed) /\ IsInjective(selected) /\ Range(selected) \subseteq seatMap
    BY <1>2 DEF ShopIInv, Shop!TypeOK
  <2>2. ASSUME NEW t \in Range(Shop!AllBound)
        PROVE  Shop!Chosen(t) = Range(t.tickets) \intersect Range(selected)
    BY ShopNames DEF Shop!Chosen
  <2>3. ASSUME NEW t \in Range(Shop!AllBound), t.mode # "single",
               Range(t.tickets) \intersect Range(selected) # {}
        PROVE  /\ Range(selected) \subseteq Range(t.tickets)
               /\ Len(selected) >= Shop!Least(t)
               /\ t.mode = "variable" => Len(selected) <= Shop!Max({Shop!Least(t), t.max})
    BY <2>2, <2>3, ShopNames, Zenon DEF ShopIInv, Shop!TablesStayWhole
  <2>4. (\A t \in Range(Shop!AllBound) :
           t.mode # "single" => Range(t.tickets) \intersect Range(selected) = {})
          => Len(selected) <= MAX_SELECTABLE_SEATS
    BY <2>2, ShopNames DEF ShopIInv, Shop!OrdinarySeatsAreFew
  <2> QED BY <2>1, <2>3, <2>4 DEF Sound
<1> QED BY <1>1, <1>2

(* A sound choice of the places that are shown is that of the invariant. *)
LEMMA SoundIsWhole ==
  ASSUME Sound(selected, Shop!AllBound) PROVE Shop!TablesStayWhole /\ Shop!OrdinarySeatsAreFew
<1>1. ASSUME NEW t \in Range(Shop!AllBound)
      PROVE  Shop!Chosen(t) = Range(t.tickets) \intersect Range(selected)
  BY ShopNames DEF Shop!Chosen
<1>2. Shop!TablesStayWhole BY <1>1, ShopNames, Zenon DEF Sound, Shop!TablesStayWhole
<1>3. Shop!OrdinarySeatsAreFew BY <1>1, ShopNames DEF Sound, Shop!OrdinarySeatsAreFew
<1> QED BY <1>2, <1>3

LEMMA ShopInit == ASSUME Shop!Init PROVE ShopIInv
<1> USE ShopAssumption
<1>1. Shop!TypeOK /\ selected = <<>> /\ seatMap = NULL
  <2>1. /\ chart \in Charts /\ publishedChart = "loading" /\ performance \in Performance
        /\ seatMap = NULL /\ fetches = {Shop!Fetch(performance, TRUE)}
        /\ quantity = MAX_SELECTABLE_SEATS /\ step = "schedule" /\ timerExpired = FALSE
        /\ selected = <<>>
    BY DEF Shop!Init
  <2>2. Shop!Fetch(performance, TRUE) \in [performance : Performance, mounted : BOOLEAN]
    BY <2>1 DEF Shop!Fetch
  <2>3. <<>> \in Seq(Listed) OBVIOUS
  <2> QED BY <2>1, <2>2, <2>3, Zenon DEF Shop!TypeOK
<1>2. \A f \in fetches : f.mounted => f.performance = performance /\ seatMap = NULL
  BY DEF Shop!Init, Shop!Fetch
<1>3. Sound(selected, Shop!AllBound) BY <1>1, NothingIsSound
<1> QED BY <1>1, <1>2, <1>3, SoundIsWhole DEF ShopIInv

(* Nothing is selected. *)
LEMMA ShopEmptied ==
  ASSUME selected' = <<>>, Shop!TypeOK',
         \A f \in fetches' : f.mounted => f.performance = performance' /\ seatMap' = NULL,
         seatMap' # NULL => performance' # NULL /\ seatMap' \subseteq TicketsOf[performance']
  PROVE  ShopIInv'
<1>1. /\ Range(selected') = {} /\ Len(selected') = 0 /\ 0 <= MAX_SELECTABLE_SEATS
  BY ShopAssumption DEF Range
<1>2. Shop!TablesStayWhole'
  <2>1. \A x : Shop!Chosen(x)' = {} BY <1>1, ShopNames DEF Shop!Chosen
  <2> QED BY <2>1 DEF Shop!TablesStayWhole
<1>3. Shop!OrdinarySeatsAreFew' BY <1>1 DEF Shop!OrdinarySeatsAreFew
<1> QED BY <1>2, <1>3 DEF ShopIInv

(* The seats that are shown and those selected stay. *)
LEMMA ShopStays ==
  ASSUME ShopIInv, UNCHANGED <<chart, publishedChart, performance, seatMap, selected>>,
         Shop!TypeOK',
         \A f \in fetches' : f.mounted => f.performance = performance' /\ seatMap' = NULL
  PROVE  ShopIInv'
<1>1. Shop!AllBound' = Shop!AllBound BY DEF Shop!AllBound
<1>2. Shop!usePublishedChart' <=> Shop!usePublishedChart
  BY <1>1 DEF Shop!usePublishedChart, Shop!chartCoversAllBackendSeats
<1>3. Shop!TablesStayWhole' /\ Shop!OrdinarySeatsAreFew'
  BY <1>1 DEF ShopIInv, Shop!TablesStayWhole, Shop!OrdinarySeatsAreFew, Shop!Chosen
<1> QED BY <1>2, <1>3 DEF ShopIInv

LEMMA ShopSelects ==
  ASSUME ShopIInv, NEW seat \in Shop!boundChartSeats, Shop!selectChartSeat(seat)
  PROVE  ShopIInv'
<1>1. /\ Shop!usePublishedChart
      /\ UNCHANGED <<chart, publishedChart, performance, seatMap, fetches, step, timerExpired>>
      /\ selected' = Shop!toggleChartSeatSelection(seat)
      /\ quantity' = IF seat.mode # "single" /\ selected' # <<>> THEN Len(selected')
                     ELSE quantity
  BY DEF Shop!selectChartSeat
<1>2. seatMap # NULL BY <1>1 DEF Shop!usePublishedChart
<1>3. /\ chart \in Charts /\ performance \in Performance /\ quantity \in Nat \ {0}
  BY <1>2 DEF ShopIInv, Shop!TypeOK
<1>4. PICK b : b = Shop!AllBound OBVIOUS
<1>5. OneToOne(b, chart, performance) BY <1>1, <1>3, <1>4, CoverMeans
<1>6. Sound(selected, b) BY <1>1, <1>3, <1>4, ShopSound
<1>7. seat \in Range(b) /\ ~Shop!sold(seat) BY <1>4, ShopNames DEF Shop!boundChartSeats
<1>8. Sound(Shop!toggleChartSeatSelection(seat), b)
  BY <1>3, <1>4, <1>5, <1>6, <1>7, ToggleIsSound
<1>9. PICK s : s = selected' OBVIOUS
<1>10. Sound(s, b) BY <1>1, <1>8, <1>9
<1>11. Shop!AllBound' = b BY <1>1, <1>4 DEF Shop!AllBound
<1>12. Shop!usePublishedChart'
  BY <1>1, <1>4, <1>11 DEF Shop!usePublishedChart, Shop!chartCoversAllBackendSeats
<1>13. s \in Seq(Listed) /\ IsInjective(s) /\ Range(s) \subseteq seatMap BY <1>10 DEF Sound
<1>14. quantity' \in Nat \ {0}
  <2>1. s # <<>> => Len(s) \in Nat \ {0} BY <1>13, EmptySeq
  <2> QED BY <1>1, <1>3, <1>9, <2>1
<1>15. Shop!TypeOK' BY <1>1, <1>9, <1>13, <1>14 DEF ShopIInv, Shop!TypeOK
<1>16. ASSUME NEW t \in Range(b)
       PROVE  Shop!Chosen(t)' = Range(t.tickets) \intersect Range(s)
  BY <1>9, ShopNames DEF Shop!Chosen
<1>17. Shop!TablesStayWhole'
  BY <1>9, <1>10, <1>11, <1>16, ShopNames, Zenon DEF Sound, Shop!TablesStayWhole
<1>18. Shop!OrdinarySeatsAreFew'
  BY <1>9, <1>10, <1>11, <1>16, ShopNames DEF Sound, Shop!OrdinarySeatsAreFew
<1>19. /\ seatMap' # NULL
       /\ Range(selected)' \subseteq seatMap' /\ IsInjective(selected)'
  BY <1>1, <1>2, <1>9, <1>13
<1>20. /\ \A f \in fetches' : f.mounted => f.performance = performance' /\ seatMap' = NULL
       /\ performance' # NULL /\ seatMap' \subseteq TicketsOf[performance']
  BY <1>1, <1>2 DEF ShopIInv
<1> QED BY <1>12, <1>15, <1>17, <1>18, <1>19, <1>20 DEF ShopIInv

(* Answers from outside: only a page that is mounted takes a seat map, and *)
(* it has selected nothing by then.                                        *)
LEMMA ShopFetches ==
  ASSUME ShopIInv, NEW f \in fetches, Shop!SeatMapArrives(f) \/ Shop!SeatMapFails(f)
  PROVE  ShopIInv'
<1> USE ShopAssumption
<1>1. f \in [performance : Performance, mounted : BOOLEAN] BY DEF ShopIInv, Shop!TypeOK
<1>2. /\ fetches' = fetches \ {f}
      /\ UNCHANGED <<chart, publishedChart, performance, quantity, step, timerExpired, selected>>
  BY DEF Shop!SeatMapArrives, Shop!SeatMapFails
<1>3. CASE f.mounted
  <2>1. seatMap = NULL /\ f.performance = performance BY <1>3 DEF ShopIInv
  <2>2. selected = <<>> BY <2>1 DEF ShopIInv
  <2>3. seatMap' = NULL \/ seatMap' \subseteq TicketsOf[performance]
    BY <1>3, <2>1 DEF Shop!SeatMapArrives, Shop!SeatMapFails
  <2>4. performance \in Performance /\ performance # NULL BY <1>1, <2>1
  <2>5. Shop!TypeOK' BY <1>2, <2>3, <2>4 DEF ShopIInv, Shop!TypeOK
  <2>6. ASSUME NEW g \in fetches', g.mounted PROVE FALSE
    <3>1. g \in fetches /\ g # f BY <1>2
    <3>2. g.performance = performance BY <2>6, <3>1 DEF ShopIInv
    <3>3. g \in [performance : Performance, mounted : BOOLEAN]
      BY <3>1 DEF ShopIInv, Shop!TypeOK
    <3>4. g.mounted = TRUE /\ f.mounted = TRUE BY <1>1, <1>3, <2>6, <3>3
    <3> QED BY <1>1, <2>1, <3>1, <3>2, <3>3, <3>4
  <2> QED BY <1>2, <2>2, <2>3, <2>4, <2>5, <2>6, ShopEmptied
<1>4. CASE ~f.mounted
  <2>1. UNCHANGED seatMap BY <1>4 DEF Shop!SeatMapArrives, Shop!SeatMapFails
  <2>2. Shop!TypeOK' BY <1>2, <2>1 DEF ShopIInv, Shop!TypeOK
  <2>3. \A g \in fetches' : g.mounted => g.performance = performance' /\ seatMap' = NULL
    BY <1>2, <2>1 DEF ShopIInv
  <2> QED BY <1>2, <2>1, <2>2, <2>3, ShopStays
<1> QED BY <1>3, <1>4

LEMMA ShopNext == ASSUME ShopIInv, Shop!Next PROVE ShopIInv'
<1>1. ASSUME NEW p \in Performance \union {NULL}, Shop!ChoosePerformance(p) PROVE ShopIInv'
  <2>1. /\ performance' = p /\ seatMap' = NULL /\ selected' = <<>>
        /\ fetches' = {Shop!Fetch(f.performance, FALSE) : f \in fetches}
                        \union (IF p = NULL THEN {} ELSE {Shop!Fetch(p, TRUE)})
        /\ UNCHANGED <<chart, publishedChart, quantity, step, timerExpired>>
    BY <1>1 DEF Shop!ChoosePerformance
  <2>2. fetches \subseteq [performance : Performance, mounted : BOOLEAN]
    BY DEF ShopIInv, Shop!TypeOK
  <2>3. fetches' \subseteq [performance : Performance, mounted : BOOLEAN]
    <3>1. \A q \in Performance : \A m \in BOOLEAN :
            Shop!Fetch(q, m) \in [performance : Performance, mounted : BOOLEAN]
      BY DEF Shop!Fetch
    <3>2. \A f \in fetches : f.performance \in Performance BY <2>2
    <3>3. p # NULL => Shop!Fetch(p, TRUE) \in [performance : Performance, mounted : BOOLEAN]
      BY <3>1, Zenon
    <3> QED BY <2>1, <3>1, <3>2, <3>3, Zenon
  <2>4. Shop!TypeOK'
    <3>1. <<>> \in Seq(Listed) OBVIOUS
    <3>2. selected' \in Seq(Listed) BY <2>1, <3>1
    <3>3. /\ chart' \in Charts /\ publishedChart' \in {"loading", "ready", "missing"}
          /\ quantity' \in Nat \ {0} /\ step' \in {"schedule", "seats"}
          /\ timerExpired' \in BOOLEAN
      BY <2>1 DEF ShopIInv, Shop!TypeOK
    <3>4. performance' \in Performance \union {NULL} /\ seatMap' = NULL BY <2>1
    <3> QED BY <2>3, <3>2, <3>3, <3>4 DEF Shop!TypeOK
  <2>5. \A f \in fetches' : f.mounted => f.performance = performance' /\ seatMap' = NULL
    BY <2>1 DEF Shop!Fetch
  <2> QED BY <2>1, <2>4, <2>5, ShopEmptied, Zenon
<1>2. ASSUME NEW f \in fetches, Shop!SeatMapArrives(f) \/ Shop!SeatMapFails(f)
      PROVE ShopIInv'
  BY <1>2, ShopFetches
<1>3. CASE Shop!ChartArrives
  <2>1. /\ publishedChart = "loading" /\ publishedChart' \in {"ready", "missing"}
        /\ UNCHANGED <<chart, performance, seatMap, fetches, quantity, step, timerExpired,
                       selected>>
    BY <1>3 DEF Shop!ChartArrives
  <2>2. selected = <<>> BY <2>1 DEF ShopIInv, Shop!usePublishedChart
  <2>3. Shop!TypeOK' BY <2>1 DEF ShopIInv, Shop!TypeOK
  <2>4. /\ \A f \in fetches' : f.mounted => f.performance = performance' /\ seatMap' = NULL
        /\ seatMap' # NULL => performance' # NULL /\ seatMap' \subseteq TicketsOf[performance']
    BY <2>1 DEF ShopIInv
  <2> QED BY <2>1, <2>2, <2>3, <2>4, ShopEmptied
<1>4. CASE \/ Shop!TimerExpires
           \/ \E n \in 1..Shop!maximumQuantity : Shop!setQuantity(n)
           \/ \E s \in {"schedule", "seats"} : Shop!setStep(s)
  <2>1. UNCHANGED <<chart, publishedChart, performance, seatMap, fetches, selected>>
    BY <1>4 DEF Shop!TimerExpires, Shop!setQuantity, Shop!setStep
  <2>2. timerExpired' \in BOOLEAN /\ step' \in {"schedule", "seats"} /\ quantity' \in Nat \ {0}
    <3>1. CASE Shop!TimerExpires BY <3>1 DEF Shop!TimerExpires, ShopIInv, Shop!TypeOK
    <3>2. ASSUME NEW n \in 1..Shop!maximumQuantity, Shop!setQuantity(n)
          PROVE  /\ timerExpired' \in BOOLEAN /\ step' \in {"schedule", "seats"}
                 /\ quantity' \in Nat \ {0}
      <4>1. n \in Nat \ {0} OBVIOUS
      <4> QED BY <3>2, <4>1 DEF Shop!setQuantity, ShopIInv, Shop!TypeOK
    <3>3. ASSUME NEW s \in {"schedule", "seats"}, Shop!setStep(s)
          PROVE  /\ timerExpired' \in BOOLEAN /\ step' \in {"schedule", "seats"}
                 /\ quantity' \in Nat \ {0}
      BY <3>3 DEF Shop!setStep, ShopIInv, Shop!TypeOK
    <3> QED BY <1>4, <3>1, <3>2, <3>3
  <2>3. Shop!TypeOK' BY <2>1, <2>2 DEF ShopIInv, Shop!TypeOK
  <2>4. \A f \in fetches' : f.mounted => f.performance = performance' /\ seatMap' = NULL
    BY <2>1 DEF ShopIInv
  <2> QED BY <2>1, <2>3, <2>4, ShopStays
<1>5. ASSUME NEW seat \in Shop!boundChartSeats, Shop!selectChartSeat(seat) PROVE ShopIInv'
  BY <1>5, ShopSelects
<1> QED BY <1>1, <1>2, <1>3, <1>4, <1>5 DEF Shop!Next

LEMMA ShopAlways == Spec => [](component = "shop" => ShopIInv)
<1> USE ComponentsAssumption DEF Service
<1>1. Init => (component = "shop" => ShopIInv) BY ShopInit DEF Init
<1>2. (component = "shop" => ShopIInv) /\ [Next]_vars => (component = "shop" => ShopIInv)'
  <2> SUFFICES ASSUME component = "shop" => ShopIInv, [Next]_vars, component' = "shop"
               PROVE  ShopIInv'
    OBVIOUS
  <2>1. component = "shop" /\ ShopIInv BY DEF Next, vars
  <2>2. Shop!Next \/ UNCHANGED shopVars BY <2>1 DEF Next, vars, webVars
  <2>3. CASE Shop!Next BY <2>1, <2>3, ShopNext
  <2>4. CASE UNCHANGED shopVars
    <3>1. UNCHANGED <<chart, publishedChart, performance, seatMap, selected>> BY <2>4 DEF shopVars
    <3>2. Shop!TypeOK' BY <2>1, <2>4 DEF ShopIInv, Shop!TypeOK, shopVars
    <3>3. \A f \in fetches' : f.mounted => f.performance = performance' /\ seatMap' = NULL
      BY <2>1, <2>4 DEF ShopIInv, shopVars
    <3> QED BY <2>1, <3>1, <3>2, <3>3, ShopStays
  <2> QED BY <2>2, <2>3, <2>4
<1> QED BY <1>1, <1>2, PTL DEF Spec

(* A binding that covers the tickets has one place for every ticket, and   *)
(* the place is one of the chart.                                          *)
LEMMA EveryTicketPlaced ==
  ASSUME ShopIInv PROVE Shop!EveryTicketHasItsPlace
<1> SUFFICES ASSUME Shop!usePublishedChart PROVE Shop!EveryTicketHasItsPlace
  BY DEF Shop!EveryTicketHasItsPlace
<1>1. seatMap # NULL BY DEF Shop!usePublishedChart
<1>2. chart \in Charts /\ performance \in Performance BY <1>1 DEF ShopIInv, Shop!TypeOK
<1>3. PICK b : b = Shop!AllBound OBVIOUS
<1>4. OneToOne(b, chart, performance) BY <1>2, <1>3, CoverMeans
<1>5. /\ Len(b) \in Nat /\ DOMAIN b = 1..Len(b)
      /\ \A i \in 1..Len(b) : b[i] \in BoundSeat(chart, performance)
  BY <1>4 DEF OneToOne
<1>6. ASSUME NEW t \in TicketsOf[performance]
      PROVE  /\ Cardinality({i \in DOMAIN b : t \in Range(b[i].tickets)}) = 1
             /\ \E i \in DOMAIN chart : /\ chart[i].interactive
                  /\ \E m \in Shop!Range(chart[i].members) : m.key = LabelOf[t]
  <2>1. PICK i \in 1..Len(b) : t \in Range(b[i].tickets) BY <1>4 DEF OneToOne
  <2>2. {j \in DOMAIN b : t \in Range(b[j].tickets)} = {i}
    BY <1>4, <1>5, <2>1, Zenon DEF OneToOne
  <2>3. Cardinality({i}) = 1 BY FS_Singleton, Zenon
  <2>4. PICK k \in DOMAIN b[i].tickets : t = b[i].tickets[k] BY <2>1 DEF Range
  <2>5. Offered(chart, LabelOf[t]) BY <1>5, <2>4 DEF BoundSeat
  <2> QED BY <2>2, <2>3, <2>5, Zenon DEF Offered
<1>7. \A i, j \in DOMAIN b : b[i].place = b[j].place => i = j
  BY <1>4, <1>5 DEF OneToOne
<1>8. \A t \in TicketsOf[performance] :
        Shop!Cardinality({i \in DOMAIN b : t \in Shop!Range(b[i].tickets)}) = 1
  BY <1>6, ShopNames
<1>9. \A t \in TicketsOf[performance] :
        Shop!Cardinality({i \in DOMAIN Shop!AllBound :
                            t \in Shop!Range(Shop!AllBound[i].tickets)}) = 1
  BY <1>3, <1>8
<1>10. \A i, j \in DOMAIN Shop!AllBound :
         Shop!AllBound[i].place = Shop!AllBound[j].place => i = j
  BY <1>3, <1>7
<1>11. \A t \in TicketsOf[performance] :
         \E i \in DOMAIN chart : /\ chart[i].interactive
           /\ \E m \in Shop!Range(chart[i].members) : m.key = LabelOf[t]
  BY <1>6, Zenon
<1> QED BY <1>9, <1>10, <1>11 DEF Shop!EveryTicketHasItsPlace

(* booking-panel.tsx:72-211, seat-selection.ts, bind-backend-seats.ts:     *)
(* what the customer takes to the checkout is on the screen, tables go     *)
(* whole and by themselves, and a chart is used only when it has one place *)
(* for every ticket - for any charts, performances, tickets and labels.    *)
THEOREM ShopSelectsSeatsSound == Spec => []ShopSelectsSeats
<1>1. (component = "shop" => ShopIInv) => ShopSelectsSeats
  <2> SUFFICES ASSUME component = "shop", ShopIInv PROVE ShopSelectsSeats
    BY DEF ShopSelectsSeats
  <2>1. Shop!SelectionIsShown BY ShopNames DEF ShopIInv, Shop!SelectionIsShown
  <2> QED BY <2>1, EveryTicketPlaced DEF ShopIInv, ShopSelectsSeats
<1> QED BY <1>1, ShopAlways, PTL

-----------------------------------------------------------------------------
(* The types of all of them.                                               *)

LEMMA CardTypes == Spec => []Card!TypeOK
<1>1. Init => Purchases!Init BY CardInit DEF Init
<1>2. Spec => Purchases!Spec BY <1>1, CardSteps, PTL DEF Spec, Purchases!Spec
<1>3. Purchases!Spec => []Purchases!TypeOK BY PurchaseConstants, Purchases!SpecTypeOK, PTL
<1>4. Card!UnsoldState = Purchases!UnsoldState
  <2>1. Card!OnSale = Purchases!OnSale /\ Card!Unavailable = Purchases!Unavailable
    BY DEF Card!OnSale, Purchases!OnSale, Card!Unavailable, Purchases!Unavailable
  <2>2. \A u : Card!Claimed(u) = Purchases!Claimed(u) BY DEF Card!Claimed, Purchases!Claimed
  <2> QED BY <2>1, <2>2, Zenon DEF Card!UnsoldState, Purchases!UnsoldState
<1>5. \A u : Card!Owned(u) = Purchases!Owned(u) BY DEF Card!Owned, Purchases!Owned
<1>6. Card!TicketState = Purchases!TicketState
  BY <1>4, <1>5, Zenon DEF Card!TicketState, Purchases!TicketState
<1>7. Card!Phase = Purchases!Phase BY DEF Card!Phase, Purchases!Phase
<1>8. Purchases!TypeOK => Card!TypeOK
  BY <1>6, <1>7, Zenon DEF Card!TypeOK, Purchases!TypeOK
<1> QED BY <1>2, <1>3, <1>8, PTL

LEMMA AppTypes == ASSUME NEW p \in App, AppIInv(p) PROVE Android(p)!TypeOK
<1>1. lastBookingAttempt \in Android(p)!Attempt \union {NULL}
  BY DEF AppIInv, ScreenTypes, Booked
<1>2. \A i \in DOMAIN backStack : backStack[i] \in Android(p)!Route
  BY DEF AppIInv, ScreenTypes
<1>3. ServerTypes(p) /\ ScreenTypes(p) /\ CallTypes(p) /\ RecordTypes(p) BY DEF AppIInv
<1> QED BY <1>1, <1>2, <1>3, Zenon
  DEF ServerTypes, ScreenTypes, CallTypes, RecordTypes,
      SeatRecord, HoldStatus, DraftStatus, Android!TypeOK

(* Every handler of the services and of their clients keeps the shape of   *)
(* the records it writes: it is part of the invariant of each of them.     *)
THEOREM ServicesTyped == Spec => []TypeOK
<1>1. /\ RetryIInv /\ SessionIInv /\ AttestIInv /\ RegistrationIInv /\ Card!TypeOK
      /\ \A t \in Terminal : component = t => GateIInv(t)
      /\ component = "shop" => ShopIInv
      /\ \A a \in App : component = a => AppIInv(a)
      => TypeOK
  <2>1. RetryIInv => Retries!TypeOK BY DEF RetryIInv
  <2>2. SessionIInv => Booking!TypeOK BY DEF SessionIInv
  <2>3. AttestIInv => Attest!TypeOK BY DEF AttestIInv
  <2>4. RegistrationIInv => Registration!TypeOK BY DEF RegistrationIInv
  <2>5. \A t \in Terminal : GateIInv(t) => Scanner(t)!TypeOK BY DEF GateIInv
  <2>6. ShopIInv => Shop!TypeOK BY DEF ShopIInv
  <2>7. \A a \in App : AppIInv(a) => Android(a)!TypeOK BY AppTypes
  <2> QED BY <2>1, <2>2, <2>3, <2>4, <2>5, <2>6, <2>7 DEF TypeOK
<1> QED
  BY <1>1, RetryAlways, SessionAlways, DevicesAlways, CardTypes, GateAlways, ShopAlways,
     AppAlways, PTL
=============================================================================
