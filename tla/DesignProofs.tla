---------------------------- MODULE DesignProofs ----------------------------
(***************************************************************************)
(* The files of the seat-chart store stay whole, the earlier designer      *)
(* keeps to the chart it shows, and the newer one leaves nothing on its    *)
(* drawings stranded: proofs about the charts of the back office, and the  *)
(* types of all of it.                                                     *)
(***************************************************************************)
EXTENDS BackOfficeProofs, FiniteSetTheorems, DataTheorems

-----------------------------------------------------------------------------
(* The files of the seat-chart store.                                      *)

RequestRecord ==
  [phase : Files!Phases, after : Files!After, copy : Files!Draft \union {NULL},
   venue : ChartVenue \union {NULL}]

Under == {"SAVING", "CHECKED", "COMPARING", "REMOVING", "UNLOCKING"}

Holding(r, c) == chartRequests[r].copy # NULL /\ chartRequests[r].copy.chart = c

(* The same after the step. *)
HoldsNow(r, c) == chartRequests'[r].copy # NULL /\ chartRequests'[r].copy.chart = c

(* A request that was begun holds a document and knows its venue. *)
CopiesAreHeld ==
  \A r \in ChartRequest : chartRequests[r].phase # "IDLE" =>
    chartRequests[r].copy # NULL /\ chartRequests[r].venue # NULL

(* Of the requests for one chart, one at a time is under the lock. *)
LocksAreExclusive ==
  /\ \A r \in ChartRequest : chartRequests[r].phase \in Under =>
       chartRequests[r].copy.chart \in locks
  /\ \A r, q \in ChartRequest :
       r # q /\ chartRequests[r].phase \in Under /\ chartRequests[q].phase \in Under =>
         chartRequests[r].copy.chart # chartRequests[q].copy.chart

(* A chart's file and the copies of it agree where their revisions do, and *)
(* no copy is newer than the file.                                         *)
CopiesAgree ==
  \A r \in ChartRequest : chartRequests[r].copy # NULL =>
    LET copy == chartRequests[r].copy
        file == drafts[copy.chart]
    IN /\ file # NULL =>
            /\ copy.draftRevision <= file.draftRevision
            /\ copy.draftRevision = file.draftRevision => copy = file
       /\ \A q \in ChartRequest :
            /\ Holding(q, copy.chart)
            /\ copy.draftRevision = chartRequests[q].copy.draftRevision
            => copy = chartRequests[q].copy

(* A chart that was never saved is one request's alone. *)
NewChartsAreOwn ==
  \A r \in ChartRequest :
    chartRequests[r].copy # NULL /\ chartRequests[r].copy.draftRevision = 0 =>
      /\ drafts[chartRequests[r].copy.chart] = NULL
      /\ \A q \in ChartRequest \ {r} : ~Holding(q, chartRequests[r].copy.chart)

(* What was checked under the lock is still so when it is replaced. *)
CheckedIsCurrent ==
  \A r \in ChartRequest : chartRequests[r].phase = "CHECKED" =>
    LET copy == chartRequests[r].copy
    IN /\ drafts[copy.chart] \in {NULL, copy}
       /\ \A q \in ChartRequest : Holding(q, copy.chart) =>
            chartRequests[q].copy.draftRevision <= copy.draftRevision

(* A revision is whole before a venue names it. *)
RevisionsAreOwn ==
  /\ \A r \in ChartRequest :
       /\ chartRequests[r].phase \in {"FREEZING", "ACTIVATING"} => revisions[r] # NULL
       /\ chartRequests[r].phase = "ACTIVATING" => revisions[r].whole
  /\ \A v \in ChartVenue : venues[v] # NULL => chartRequests[venues[v]].phase = "ANSWERED"

FilesAreNamed ==
  \A c \in ChartKey : drafts[c] # NULL => drafts[c].chart = c /\ drafts[c].draftRevision # 0

StoreSound ==
  /\ drafts \in [ChartKey -> Files!Draft \union {NULL}]
  /\ locks \subseteq ChartKey
  /\ chartRequests \in [ChartRequest -> RequestRecord]
  /\ CopiesAreHeld /\ LocksAreExclusive /\ FilesAreNamed
  /\ CopiesAgree /\ NewChartsAreOwn /\ CheckedIsCurrent

VenuesSound ==
  /\ revisions \in [ChartRequest -> Files!Revision \union {NULL}]
  /\ venues \in [ChartVenue -> ChartRequest \union {NULL}]
  /\ RevisionsAreOwn /\ Files!VenuesShowWholeCharts

FilesIInv == StoreSound /\ VenuesSound

LEMMA FilesTypeOK == ASSUME FilesIInv PROVE Files!TypeOK
BY DEF FilesIInv, StoreSound, VenuesSound, Files!TypeOK, RequestRecord

LEMMA FilesNull ==
  /\ NULL \notin ChartRequest /\ NULL \notin ChartVenue
  /\ NULL \notin Files!Draft /\ NULL \notin Files!Revision
BY ChartAssumption DEF Files!Draft, Files!Revision

(* A request goes on; its document stays. *)
Moved(r, phase) ==
  /\ chartRequests' \in [ChartRequest -> RequestRecord]
  /\ chartRequests'[r].phase = phase /\ chartRequests'[r].venue # NULL
  /\ chartRequests'[r].copy = chartRequests[r].copy
  /\ \A q \in ChartRequest \ {r} : chartRequests'[q] = chartRequests[q]

LEMMA MovedBy ==
  ASSUME FilesIInv, NEW r \in ChartRequest, NEW phase \in Files!Phases,
         chartRequests[r].phase # "IDLE",
         \/ Files!Goto(r, phase)
         \/ \E after \in Files!After :
              chartRequests' = [chartRequests EXCEPT ![r].phase = phase, ![r].after = after]
         \/ \E v \in ChartVenue, after \in Files!After :
              chartRequests' = [chartRequests EXCEPT ![r].phase = phase, ![r].venue = v,
                                                     ![r].after = after]
  PROVE  Moved(r, phase)
<1>1. /\ chartRequests \in [ChartRequest -> RequestRecord]
      /\ chartRequests[r].venue # NULL
  BY DEF FilesIInv, StoreSound, CopiesAreHeld
<1>2. chartRequests[r] \in RequestRecord BY <1>1
<1>3. ASSUME NEW request \in RequestRecord,
             chartRequests' = [chartRequests EXCEPT ![r] = request],
             request.phase = phase, request.venue # NULL,
             request.copy = chartRequests[r].copy
      PROVE  Moved(r, phase)
  BY <1>1, <1>3 DEF Moved
<1>4. CASE Files!Goto(r, phase)
  <2>1. PICK request : request = [chartRequests[r] EXCEPT !.phase = phase] OBVIOUS
  <2>2. /\ request \in RequestRecord /\ request.phase = phase
        /\ request.venue = chartRequests[r].venue /\ request.copy = chartRequests[r].copy
    BY <1>2, <2>1 DEF RequestRecord
  <2>3. chartRequests' = [chartRequests EXCEPT ![r] = request] BY <1>4, <2>1 DEF Files!Goto
  <2> QED BY <1>1, <1>3, <2>2, <2>3
<1>5. ASSUME NEW after \in Files!After,
             chartRequests' = [chartRequests EXCEPT ![r].phase = phase, ![r].after = after]
      PROVE  Moved(r, phase)
  <2>1. PICK request :
          request = [chartRequests[r] EXCEPT !.phase = phase, !.after = after]
    OBVIOUS
  <2>2. /\ request \in RequestRecord /\ request.phase = phase
        /\ request.venue = chartRequests[r].venue /\ request.copy = chartRequests[r].copy
    BY <1>2, <2>1 DEF RequestRecord
  <2>3. chartRequests' = [chartRequests EXCEPT ![r] = request]
    BY <1>1, <1>2, <1>5, <2>1 DEF RequestRecord
  <2> QED BY <1>1, <1>3, <2>2, <2>3
<1>6. ASSUME NEW v \in ChartVenue, NEW after \in Files!After,
             chartRequests' = [chartRequests EXCEPT ![r].phase = phase, ![r].venue = v,
                                                    ![r].after = after]
      PROVE  Moved(r, phase)
  <2>1. PICK request :
          request = [chartRequests[r] EXCEPT !.phase = phase, !.venue = v, !.after = after]
    OBVIOUS
  <2>2. /\ request \in RequestRecord /\ request.phase = phase
        /\ request.venue = v /\ request.copy = chartRequests[r].copy
    BY <1>2, <2>1 DEF RequestRecord
  <2>3. chartRequests' = [chartRequests EXCEPT ![r] = request]
    BY <1>1, <1>2, <1>6, <2>1 DEF RequestRecord
  <2> QED BY <1>3, <2>2, <2>3, FilesNull
<1> QED BY <1>4, <1>5, <1>6

LEMMA PhasesMove ==
  ASSUME FilesIInv, NEW r \in ChartRequest,
         chartRequests' \in [ChartRequest -> RequestRecord],
         drafts' = drafts, locks' \subseteq ChartKey,
         \A q \in ChartRequest :
           /\ chartRequests'[q].copy = chartRequests[q].copy
           /\ chartRequests'[q].phase # "IDLE" =>
                chartRequests'[q].copy # NULL /\ chartRequests'[q].venue # NULL
           /\ chartRequests'[q].phase \in Under => chartRequests[q].copy.chart \in locks'
           /\ chartRequests'[q].phase = "CHECKED" =>
                chartRequests[q].phase = "CHECKED" \/ Files!DraftIsCurrent(q)
           /\ chartRequests'[q].phase \in Under /\ chartRequests[q].phase \notin Under =>
                q = r /\ chartRequests[q].copy.chart \notin locks
  PROVE  StoreSound'
<1>1. /\ drafts \in [ChartKey -> Files!Draft \union {NULL}]
      /\ CopiesAgree /\ NewChartsAreOwn /\ FilesAreNamed /\ LocksAreExclusive /\ CheckedIsCurrent
      /\ chartRequests \in [ChartRequest -> RequestRecord]
  BY DEF FilesIInv, StoreSound
<1>2. CopiesAreHeld' BY DEF CopiesAreHeld
<1>3. LocksAreExclusive' BY <1>1 DEF LocksAreExclusive
<1>4. FilesAreNamed' BY <1>1 DEF FilesAreNamed
<1>5. \A q \in ChartRequest, c \in ChartKey : HoldsNow(q, c) <=> Holding(q, c)
  BY DEF Holding, HoldsNow
<1>6. \A q \in ChartRequest : chartRequests[q].copy # NULL =>
        chartRequests[q].copy \in Files!Draft
  BY <1>1 DEF RequestRecord
<1>7. \A q \in ChartRequest : chartRequests[q].copy # NULL =>
        chartRequests[q].copy.chart \in ChartKey /\ chartRequests[q].copy.draftRevision \in Nat
  BY <1>6 DEF Files!Draft
<1>8. CopiesAgree' BY <1>1 DEF CopiesAgree, Holding
<1>9. NewChartsAreOwn' BY <1>1 DEF NewChartsAreOwn, Holding
<1>10. ASSUME NEW q \in ChartRequest, Files!DraftIsCurrent(q), chartRequests[q].copy # NULL
       PROVE  LET copy == chartRequests[q].copy
              IN /\ drafts[copy.chart] \in {NULL, copy}
                 /\ \A p \in ChartRequest : Holding(p, copy.chart) =>
                      chartRequests[p].copy.draftRevision <= copy.draftRevision
  <2> DEFINE copy == chartRequests[q].copy
             file == drafts[copy.chart]
  <2>1. copy.chart \in ChartKey /\ copy.draftRevision \in Nat BY <1>7, <1>10
  <2>2. CASE file = NULL
    <3>1. copy.draftRevision = 0
      BY <1>10, <2>2 DEF Files!DraftIsCurrent, Files!CurrentRevision
    <3>2. \A p \in ChartRequest : Holding(p, copy.chart) => p = q
      BY <1>1, <1>10, <3>1 DEF NewChartsAreOwn
    <3> QED BY <2>1, <2>2, <3>2
  <2>3. CASE file # NULL
    <3>1. copy.draftRevision = file.draftRevision
      BY <1>10, <2>3 DEF Files!DraftIsCurrent, Files!CurrentRevision
    <3>2. copy = file BY <1>1, <1>10, <2>3, <3>1 DEF CopiesAgree
    <3>3. \A p \in ChartRequest : Holding(p, copy.chart) =>
            chartRequests[p].copy.draftRevision <= file.draftRevision
      BY <1>1, <2>3 DEF CopiesAgree, Holding
    <3> QED BY <3>1, <3>2, <3>3
  <2> QED BY <2>2, <2>3
<1>11. CheckedIsCurrent'
  <2> SUFFICES ASSUME NEW q \in ChartRequest, chartRequests'[q].phase = "CHECKED"
               PROVE  LET copy == chartRequests[q].copy
                      IN /\ drafts[copy.chart] \in {NULL, copy}
                         /\ \A p \in ChartRequest : Holding(p, copy.chart) =>
                              chartRequests[p].copy.draftRevision <= copy.draftRevision
    BY DEF CheckedIsCurrent, Holding
  <2>1. CASE chartRequests[q].phase = "CHECKED" BY <1>1, <2>1 DEF CheckedIsCurrent
  <2>2. CASE Files!DraftIsCurrent(q) BY <1>10, <2>2
  <2> QED BY <2>1, <2>2
<1> QED BY <1>1, <1>2, <1>3, <1>4, <1>8, <1>9, <1>11 DEF StoreSound

LEMMA VenuesKept ==
  ASSUME FilesIInv, UNCHANGED <<revisions, venues>>,
         chartRequests' \in [ChartRequest -> RequestRecord],
         \A q \in ChartRequest :
           /\ chartRequests'[q].phase \in {"FREEZING", "ACTIVATING"} =>
                chartRequests'[q].phase = chartRequests[q].phase
           /\ chartRequests[q].phase = "ANSWERED" => chartRequests'[q].phase = "ANSWERED"
  PROVE  VenuesSound'
<1>1. VenuesSound BY DEF FilesIInv
<1>2. RevisionsAreOwn' BY <1>1 DEF VenuesSound, RevisionsAreOwn
<1>3. Files!VenuesShowWholeCharts' BY <1>1 DEF VenuesSound, Files!VenuesShowWholeCharts
<1> QED BY <1>1, <1>2, <1>3 DEF VenuesSound

(* A step of one request that leaves every document where it is. *)
LEMMA MovedSound ==
  ASSUME FilesIInv, NEW r \in ChartRequest, NEW phase \in Files!Phases,
         chartRequests[r].phase # "IDLE", Moved(r, phase), drafts' = drafts,
         \/ UNCHANGED locks /\ (phase \in Under => chartRequests[r].phase \in Under)
         \/ /\ chartRequests[r].copy.chart \notin locks
            /\ locks' = locks \union {chartRequests[r].copy.chart}
            /\ phase # "CHECKED"
         \/ /\ locks' = locks \ {chartRequests[r].copy.chart}
            /\ chartRequests[r].phase \in Under /\ phase \notin Under,
         phase = "CHECKED" => Files!DraftIsCurrent(r)
  PROVE  StoreSound'
<1>1. /\ CopiesAreHeld /\ LocksAreExclusive /\ locks \subseteq ChartKey
      /\ chartRequests \in [ChartRequest -> RequestRecord]
  BY DEF FilesIInv, StoreSound
<1>2. chartRequests[r].copy # NULL BY <1>1 DEF CopiesAreHeld
<1>3. chartRequests[r].copy.chart \in ChartKey
  BY <1>1, <1>2 DEF RequestRecord, Files!Draft
<1>4. locks' \subseteq ChartKey BY <1>1, <1>3
<1>5. ASSUME NEW q \in ChartRequest
      PROVE  /\ chartRequests'[q].copy = chartRequests[q].copy
             /\ chartRequests'[q].phase # "IDLE" =>
                  chartRequests'[q].copy # NULL /\ chartRequests'[q].venue # NULL
             /\ chartRequests'[q].phase \in Under => chartRequests[q].copy.chart \in locks'
             /\ chartRequests'[q].phase = "CHECKED" =>
                  chartRequests[q].phase = "CHECKED" \/ Files!DraftIsCurrent(q)
             /\ chartRequests'[q].phase \in Under /\ chartRequests[q].phase \notin Under =>
                  q = r /\ chartRequests[q].copy.chart \notin locks
  <2>1. CASE q = r BY <1>1, <1>2, <2>1 DEF Moved, LocksAreExclusive
  <2>2. CASE q # r
    <3>1. chartRequests'[q] = chartRequests[q] BY <2>2 DEF Moved
    <3> QED BY <1>1, <2>2, <3>1 DEF CopiesAreHeld, LocksAreExclusive
  <2> QED BY <2>1, <2>2
<1> QED BY <1>4, <1>5, PhasesMove DEF Moved
-----------------------------------------------------------------------------
(* The steps that move a request, with the lock or under it. *)

LEMMA FilesSaved ==
  ASSUME FilesIInv, NEW r \in ChartRequest, NEW v \in ChartVenue, NEW after \in Files!After,
         Files!SaveSeatChart(r, v, after)
  PROVE  FilesIInv'
<1>1. chartRequests[r].phase = "OPENED" /\ UNCHANGED <<drafts, revisions, venues>>
  BY DEF Files!SaveSeatChart, Files!At
<1>2. \/ Moved(r, "ANSWERED") /\ UNCHANGED locks
      \/ /\ Moved(r, "SAVING") /\ chartRequests[r].copy.chart \notin locks
         /\ locks' = locks \union {chartRequests[r].copy.chart}
  <2>1. "ANSWERED" \in Files!Phases /\ "SAVING" \in Files!Phases BY DEF Files!Phases
  <2>2. CASE Files!Goto(r, "ANSWERED") /\ UNCHANGED locks BY <1>1, <2>1, <2>2, MovedBy
  <2>3. CASE /\ chartRequests[r].copy.chart \notin locks
             /\ locks' = locks \union {chartRequests[r].copy.chart}
             /\ chartRequests' = [chartRequests EXCEPT ![r].phase = "SAVING",
                                                       ![r].venue = v, ![r].after = after]
    BY <1>1, <2>1, <2>3, MovedBy
  <2> QED BY <2>2, <2>3 DEF Files!SaveSeatChart
<1>3. StoreSound'
  <2>1. "ANSWERED" \in Files!Phases /\ "SAVING" \in Files!Phases BY DEF Files!Phases
  <2> QED BY <1>1, <1>2, <2>1, MovedSound DEF Under
<1>4. VenuesSound' BY <1>1, <1>2, VenuesKept DEF Moved
<1> QED BY <1>3, <1>4 DEF FilesIInv

LEMMA FilesMoved ==
  ASSUME FilesIInv, NEW r \in ChartRequest,
         \/ \E publish \in BOOLEAN : Files!PublishSeatChart(r, publish)
         \/ Files!DeleteSeatChart(r)
         \/ Files!DeactivateVenueRevision(r)
         \/ Files!ReadDraft(r) \/ Files!ReadPointer(r)
  PROVE  FilesIInv'
<1> USE DEF Files!At
<1>1. chartRequests[r].phase \in {"OPENED", "DEACTIVATING", "SAVING", "COMPARING"}
  BY DEF Files!PublishSeatChart, Files!DeleteSeatChart, Files!DeactivateVenueRevision,
         Files!ReadDraft, Files!ReadPointer
<1>2. UNCHANGED <<drafts, revisions, venues>>
  BY DEF Files!PublishSeatChart, Files!DeleteSeatChart, Files!DeactivateVenueRevision,
         Files!ReadDraft, Files!ReadPointer
<1>3. PICK phase \in {"PUBLISHING", "DEACTIVATING", "ANSWERED", "DELETING", "CHECKED",
                      "COMPARING", "REMOVING", "UNLOCKING"} :
        /\ \/ Files!Goto(r, phase)
           \/ chartRequests' = [chartRequests EXCEPT ![r].phase = phase, ![r].after = "ANSWERED"]
        /\ \/ UNCHANGED locks /\ (phase \in Under => chartRequests[r].phase \in Under)
           \/ /\ chartRequests[r].copy.chart \notin locks
              /\ locks' = locks \union {chartRequests[r].copy.chart}
              /\ phase # "CHECKED"
        /\ phase = "CHECKED" => Files!DraftIsCurrent(r)
  <2> DEFINE Goes(phase) ==
        /\ \/ Files!Goto(r, phase)
           \/ chartRequests' = [chartRequests EXCEPT ![r].phase = phase, ![r].after = "ANSWERED"]
        /\ \/ UNCHANGED locks /\ (phase \in Under => chartRequests[r].phase \in Under)
           \/ /\ chartRequests[r].copy.chart \notin locks
              /\ locks' = locks \union {chartRequests[r].copy.chart}
              /\ phase # "CHECKED"
        /\ phase = "CHECKED" => Files!DraftIsCurrent(r)
  <2>1. CASE \E publish \in BOOLEAN : Files!PublishSeatChart(r, publish)
    <3>1. Goes("PUBLISHING") \/ Goes("DEACTIVATING")
      BY <2>1 DEF Files!PublishSeatChart, Under
    <3> QED BY <3>1
  <2>2. CASE Files!DeleteSeatChart(r)
    <3>1. Goes("ANSWERED") \/ Goes("DELETING") BY <2>2 DEF Files!DeleteSeatChart, Under
    <3> QED BY <3>1
  <2>3. CASE Files!DeactivateVenueRevision(r)
    <3>1. Goes("ANSWERED") \/ Goes("COMPARING")
      BY <2>3 DEF Files!DeactivateVenueRevision, Files!Lock, Under
    <3> QED BY <3>1
  <2>4. CASE Files!ReadDraft(r)
    <3>1. Goes("CHECKED") \/ Goes("UNLOCKING") BY <2>4 DEF Files!ReadDraft, Under
    <3> QED BY <3>1
  <2>5. CASE Files!ReadPointer(r)
    <3>1. Goes("REMOVING") \/ Goes("UNLOCKING") BY <2>5 DEF Files!ReadPointer, Under
    <3> QED BY <3>1
  <2> QED BY <2>1, <2>2, <2>3, <2>4, <2>5
<1>4. phase \in Files!Phases /\ "ANSWERED" \in Files!After BY DEF Files!Phases, Files!After
<1>5. Moved(r, phase) BY <1>1, <1>3, <1>4, MovedBy
<1>6. StoreSound' BY <1>1, <1>2, <1>3, <1>4, <1>5, MovedSound
<1>7. VenuesSound' BY <1>1, <1>2, <1>5, VenuesKept DEF Moved
<1> QED BY <1>6, <1>7 DEF FilesIInv

LEMMA FilesUnlocked ==
  ASSUME FilesIInv, NEW r \in ChartRequest, Files!Unlock(r)
  PROVE  FilesIInv'
<1>1. /\ chartRequests[r].phase = "UNLOCKING"
      /\ locks' = locks \ {chartRequests[r].copy.chart}
      /\ UNCHANGED <<drafts, revisions, venues>>
  BY DEF Files!Unlock, Files!At
<1>2. PICK phase \in Files!After : phase = chartRequests[r].after /\ Files!Goto(r, phase)
  BY DEF Files!Unlock, FilesIInv, StoreSound, RequestRecord
<1>3. phase \in Files!Phases /\ phase \in {"ANSWERED", "PUBLISHING", "DEACTIVATING"}
  BY DEF Files!After, Files!Phases
<1>4. Moved(r, phase) BY <1>1, <1>2, <1>3, MovedBy
<1>5. StoreSound' BY <1>1, <1>3, <1>4, MovedSound DEF Under
<1>6. VenuesSound' BY <1>1, <1>3, <1>4, VenuesKept DEF Moved
<1> QED BY <1>5, <1>6 DEF FilesIInv

LEMMA FilesCrashed ==
  ASSUME FilesIInv, NEW r \in ChartRequest, Files!Crash
  PROVE  FilesIInv'
<1>1. /\ chartRequests \in [ChartRequest -> RequestRecord] /\ CopiesAreHeld
      /\ LocksAreExclusive /\ locks \subseteq ChartKey
  BY DEF FilesIInv, StoreSound
<1>2. UNCHANGED <<drafts, locks, revisions, venues>> BY DEF Files!Crash
<1>3. ASSUME NEW q \in ChartRequest
      PROVE  /\ chartRequests'[q] \in RequestRecord
             /\ chartRequests'[q].copy = chartRequests[q].copy
             /\ chartRequests'[q].venue = chartRequests[q].venue
             /\ \/ chartRequests'[q].phase = chartRequests[q].phase
                \/ /\ chartRequests'[q].phase = "LOST"
                   /\ chartRequests[q].phase \notin {"IDLE", "ANSWERED"}
  <2>1. chartRequests[q] \in RequestRecord BY <1>1
  <2>2. PICK lost : lost = [chartRequests[q] EXCEPT !.phase = "LOST"] OBVIOUS
  <2>3. /\ lost \in RequestRecord /\ lost.phase = "LOST"
        /\ lost.copy = chartRequests[q].copy /\ lost.venue = chartRequests[q].venue
    BY <2>1, <2>2 DEF RequestRecord, Files!Phases
  <2>4. chartRequests'[q] = IF chartRequests[q].phase \in {"IDLE", "ANSWERED"}
                            THEN chartRequests[q] ELSE lost
    BY <2>2 DEF Files!Crash
  <2> QED BY <2>1, <2>3, <2>4
<1>4. chartRequests' \in [ChartRequest -> RequestRecord]
  <2>1. chartRequests' = [q \in ChartRequest |-> chartRequests'[q]] BY DEF Files!Crash
  <2> QED BY <1>3, <2>1
<1>5. StoreSound'
  <2>1. ASSUME NEW q \in ChartRequest
        PROVE  /\ chartRequests'[q].copy = chartRequests[q].copy
               /\ chartRequests'[q].phase # "IDLE" =>
                    chartRequests'[q].copy # NULL /\ chartRequests'[q].venue # NULL
               /\ chartRequests'[q].phase \in Under => chartRequests[q].copy.chart \in locks'
               /\ chartRequests'[q].phase = "CHECKED" =>
                    chartRequests[q].phase = "CHECKED" \/ Files!DraftIsCurrent(q)
               /\ chartRequests'[q].phase \in Under /\ chartRequests[q].phase \notin Under =>
                    q = r /\ chartRequests[q].copy.chart \notin locks
    BY <1>1, <1>2, <1>3 DEF CopiesAreHeld, LocksAreExclusive, Under
  <2> QED BY <1>1, <1>2, <1>4, <2>1, PhasesMove
<1>6. VenuesSound' BY <1>2, <1>3, <1>4, VenuesKept
<1> QED BY <1>5, <1>6 DEF FilesIInv

-----------------------------------------------------------------------------
(* Revisions and the venues that name them. *)

LEMMA FilesFrozen ==
  ASSUME FilesIInv, NEW r \in ChartRequest, Files!FreezeDraft(r)
  PROVE  FilesIInv'
<1>1. /\ chartRequests[r].phase = "PUBLISHING" /\ UNCHANGED <<drafts, locks, venues>>
      /\ "ANSWERED" \in Files!Phases /\ "FREEZING" \in Files!Phases
  BY DEF Files!FreezeDraft, Files!At, Files!Phases
<1>2. CASE Files!Goto(r, "ANSWERED") /\ UNCHANGED revisions
  <2>1. Moved(r, "ANSWERED") BY <1>1, <1>2, MovedBy
  <2>2. StoreSound' BY <1>1, <2>1, MovedSound DEF Under
  <2>3. VenuesSound' BY <1>1, <1>2, <2>1, VenuesKept DEF Moved
  <2> QED BY <2>2, <2>3 DEF FilesIInv
<1>3. CASE Files!Goto(r, "FREEZING") /\ drafts[chartRequests[r].copy.chart] # NULL
  <2>1. Moved(r, "FREEZING") BY <1>1, <1>3, MovedBy
  <2>2. StoreSound' BY <1>1, <2>1, MovedSound DEF Under
  <2>3. VenuesSound BY DEF FilesIInv
  <2>4. PICK revision :
          revision = [draft |-> drafts[chartRequests[r].copy.chart], whole |-> FALSE]
    OBVIOUS
  <2>5. revision \in Files!Revision
    <3>1. chartRequests[r].copy \in Files!Draft
      BY <1>1 DEF FilesIInv, StoreSound, CopiesAreHeld, RequestRecord
    <3>2. drafts[chartRequests[r].copy.chart] \in Files!Draft
      BY <1>3, <3>1 DEF FilesIInv, StoreSound, Files!Draft
    <3> QED BY <2>4, <3>2 DEF Files!Revision
  <2>6. revisions' = [revisions EXCEPT ![r] = revision]
    <3>1. "FREEZING" # "ANSWERED" OBVIOUS
    <3>2. chartRequests'[r].phase = "FREEZING" BY <2>1 DEF Moved
    <3>3. Files!Goto(r, "ANSWERED") => chartRequests'[r].phase = "ANSWERED"
      BY DEF Files!Goto, FilesIInv, StoreSound, RequestRecord
    <3> QED BY <2>4, <3>2, <3>3 DEF Files!FreezeDraft
  <2>7. /\ revisions' \in [ChartRequest -> Files!Revision \union {NULL}]
        /\ revisions'[r] = revision /\ \A q \in ChartRequest \ {r} : revisions'[q] = revisions[q]
    BY <2>3, <2>5, <2>6 DEF VenuesSound
  <2>8. \A v \in ChartVenue : venues[v] # r
    BY <1>1, <2>3, FilesNull DEF VenuesSound, RevisionsAreOwn
  <2>9. RevisionsAreOwn'
    <3>1. \A q \in ChartRequest :
            /\ chartRequests'[q].phase \in {"FREEZING", "ACTIVATING"} => revisions'[q] # NULL
            /\ chartRequests'[q].phase = "ACTIVATING" => revisions'[q].whole
      BY <2>1, <2>3, <2>5, <2>7, FilesNull DEF Moved, VenuesSound, RevisionsAreOwn
    <3>2. \A v \in ChartVenue : venues'[v] # NULL => chartRequests'[venues'[v]].phase = "ANSWERED"
      BY <1>1, <2>1, <2>3, <2>8 DEF Moved, VenuesSound, RevisionsAreOwn
    <3> QED BY <3>1, <3>2 DEF RevisionsAreOwn
  <2>10. Files!VenuesShowWholeCharts'
    BY <1>1, <2>3, <2>7, <2>8 DEF VenuesSound, Files!VenuesShowWholeCharts
  <2> QED BY <1>1, <2>2, <2>3, <2>7, <2>9, <2>10 DEF FilesIInv, VenuesSound
<1> QED BY <1>2, <1>3 DEF Files!FreezeDraft

LEMMA FilesWritten ==
  ASSUME FilesIInv, NEW r \in ChartRequest, Files!WriteRevision(r)
  PROVE  FilesIInv'
<1>1. /\ chartRequests[r].phase = "FREEZING" /\ UNCHANGED <<drafts, locks, venues>>
      /\ "ACTIVATING" \in Files!Phases /\ Files!Goto(r, "ACTIVATING")
  BY DEF Files!WriteRevision, Files!At, Files!Phases
<1>2. Moved(r, "ACTIVATING") BY <1>1, MovedBy
<1>3. StoreSound' BY <1>1, <1>2, MovedSound DEF Under
<1>4. VenuesSound BY DEF FilesIInv
<1>5. revisions[r] \in Files!Revision
  BY <1>1, <1>4 DEF VenuesSound, RevisionsAreOwn
<1>6. PICK revision : revision = [revisions[r] EXCEPT !.whole = TRUE] OBVIOUS
<1>7. revision \in Files!Revision /\ revision.whole BY <1>5, <1>6 DEF Files!Revision
<1>8. revisions' = [revisions EXCEPT ![r] = revision] BY <1>6 DEF Files!WriteRevision
<1>9. /\ revisions' \in [ChartRequest -> Files!Revision \union {NULL}]
      /\ revisions'[r] = revision /\ \A q \in ChartRequest \ {r} : revisions'[q] = revisions[q]
  BY <1>4, <1>7, <1>8 DEF VenuesSound
<1>10. \A v \in ChartVenue : venues[v] # r
  BY <1>1, <1>4, FilesNull DEF VenuesSound, RevisionsAreOwn
<1>11. RevisionsAreOwn'
  <2>1. \A q \in ChartRequest :
          /\ chartRequests'[q].phase \in {"FREEZING", "ACTIVATING"} => revisions'[q] # NULL
          /\ chartRequests'[q].phase = "ACTIVATING" => revisions'[q].whole
    BY <1>2, <1>4, <1>7, <1>9, FilesNull DEF Moved, VenuesSound, RevisionsAreOwn
  <2>2. \A v \in ChartVenue : venues'[v] # NULL => chartRequests'[venues'[v]].phase = "ANSWERED"
    BY <1>1, <1>2, <1>4, <1>10 DEF Moved, VenuesSound, RevisionsAreOwn
  <2> QED BY <2>1, <2>2 DEF RevisionsAreOwn
<1>12. Files!VenuesShowWholeCharts'
  BY <1>1, <1>4, <1>9, <1>10 DEF VenuesSound, Files!VenuesShowWholeCharts
<1> QED BY <1>1, <1>3, <1>4, <1>9, <1>11, <1>12 DEF FilesIInv, VenuesSound

LEMMA FilesPointed ==
  ASSUME FilesIInv, NEW r \in ChartRequest, Files!PointVenue(r)
  PROVE  FilesIInv'
<1>1. /\ chartRequests[r].phase = "ACTIVATING" /\ UNCHANGED <<drafts, locks, revisions>>
      /\ "ANSWERED" \in Files!Phases /\ Files!Goto(r, "ANSWERED")
      /\ venues' = [venues EXCEPT ![revisions[r].draft.venue] = r]
  BY DEF Files!PointVenue, Files!At, Files!Phases
<1>2. Moved(r, "ANSWERED") BY <1>1, MovedBy
<1>3. StoreSound' BY <1>1, <1>2, MovedSound DEF Under
<1>4. VenuesSound BY DEF FilesIInv
<1>5. revisions[r] # NULL /\ revisions[r].whole
  BY <1>1, <1>4 DEF VenuesSound, RevisionsAreOwn
<1>6. PICK venue \in ChartVenue : venue = revisions[r].draft.venue
  BY <1>4, <1>5 DEF VenuesSound, Files!Revision, Files!Draft
<1>7. /\ venues' \in [ChartVenue -> ChartRequest \union {NULL}]
      /\ venues'[venue] = r /\ \A v \in ChartVenue \ {venue} : venues'[v] = venues[v]
  BY <1>1, <1>4, <1>6 DEF VenuesSound
<1>8. RevisionsAreOwn'
  <2>1. \A q \in ChartRequest :
          /\ chartRequests'[q].phase \in {"FREEZING", "ACTIVATING"} => revisions'[q] # NULL
          /\ chartRequests'[q].phase = "ACTIVATING" => revisions'[q].whole
    BY <1>1, <1>2, <1>4 DEF Moved, VenuesSound, RevisionsAreOwn
  <2>2. \A v \in ChartVenue : venues'[v] # NULL => chartRequests'[venues'[v]].phase = "ANSWERED"
    BY <1>2, <1>4, <1>7 DEF Moved, VenuesSound, RevisionsAreOwn
  <2> QED BY <2>1, <2>2 DEF RevisionsAreOwn
<1>9. Files!VenuesShowWholeCharts'
  BY <1>1, <1>4, <1>5, <1>6, <1>7 DEF VenuesSound, Files!VenuesShowWholeCharts
<1> QED BY <1>1, <1>3, <1>4, <1>7, <1>8, <1>9 DEF FilesIInv, VenuesSound

LEMMA FilesWithdrawn ==
  ASSUME FilesIInv, NEW r \in ChartRequest, Files!RemovePointer(r)
  PROVE  FilesIInv'
<1>1. /\ chartRequests[r].phase = "REMOVING" /\ UNCHANGED <<drafts, locks, revisions>>
      /\ "UNLOCKING" \in Files!Phases /\ "ANSWERED" \in Files!After
      /\ chartRequests' = [chartRequests EXCEPT ![r].phase = "UNLOCKING",
                                                ![r].after = "ANSWERED"]
      /\ venues' = [venues EXCEPT ![chartRequests[r].venue] = NULL]
  BY DEF Files!RemovePointer, Files!At, Files!Phases, Files!After
<1>2. Moved(r, "UNLOCKING") BY <1>1, MovedBy
<1>3. StoreSound' BY <1>1, <1>2, MovedSound DEF Under
<1>4. VenuesSound BY DEF FilesIInv
<1>5. /\ venues' \in [ChartVenue -> ChartRequest \union {NULL}]
      /\ \A v \in ChartVenue : venues'[v] \in {venues[v], NULL}
  BY <1>1, <1>4 DEF VenuesSound
<1>6. RevisionsAreOwn'
  <2>1. \A q \in ChartRequest :
          /\ chartRequests'[q].phase \in {"FREEZING", "ACTIVATING"} => revisions'[q] # NULL
          /\ chartRequests'[q].phase = "ACTIVATING" => revisions'[q].whole
    BY <1>1, <1>2, <1>4 DEF Moved, VenuesSound, RevisionsAreOwn
  <2>2. \A v \in ChartVenue : venues'[v] # NULL => chartRequests'[venues'[v]].phase = "ANSWERED"
    BY <1>1, <1>2, <1>4, <1>5 DEF Moved, VenuesSound, RevisionsAreOwn
  <2> QED BY <2>1, <2>2 DEF RevisionsAreOwn
<1>7. Files!VenuesShowWholeCharts'
  BY <1>1, <1>4, <1>5 DEF VenuesSound, Files!VenuesShowWholeCharts
<1> QED BY <1>1, <1>3, <1>4, <1>5, <1>6, <1>7 DEF FilesIInv, VenuesSound
-----------------------------------------------------------------------------
(* The steps that make documents, or remove one. *)

CopiesTyped ==
  \A q \in ChartRequest : chartRequests[q].copy # NULL =>
    /\ chartRequests[q].copy \in Files!Draft
    /\ chartRequests[q].copy.chart \in ChartKey
    /\ chartRequests[q].copy.draftRevision \in Nat

LEMMA CopiesTypedHold == ASSUME FilesIInv PROVE CopiesTyped
<1>1. \A q \in ChartRequest : chartRequests[q].copy # NULL =>
        chartRequests[q].copy \in Files!Draft
  BY DEF FilesIInv, StoreSound, RequestRecord
<1> QED BY <1>1 DEF CopiesTyped, Files!Draft

(* A request opens a chart's file, or starts a chart that is nobody's. *)
LEMMA FilesOpened ==
  ASSUME FilesIInv, NEW r \in ChartRequest, NEW c \in ChartKey, Files!Open(r, c)
  PROVE  FilesIInv'
<1>1. /\ chartRequests \in [ChartRequest -> RequestRecord]
      /\ drafts \in [ChartKey -> Files!Draft \union {NULL}]
      /\ CopiesAreHeld /\ LocksAreExclusive /\ FilesAreNamed
      /\ CopiesAgree /\ NewChartsAreOwn /\ CheckedIsCurrent
  BY DEF FilesIInv, StoreSound
<1>2. /\ chartRequests[r].phase = "IDLE" /\ UNCHANGED <<drafts, locks, revisions, venues>>
      /\ "OPENED" \in Files!Phases
  BY DEF Files!Open, Files!At, Files!Phases
<1>3. chartRequests[r] \in RequestRecord /\ chartRequests[r].after \in Files!After
  BY <1>1 DEF RequestRecord
<1>4. PICK copy \in Files!Draft, v \in ChartVenue :
        /\ chartRequests' = [chartRequests EXCEPT ![r].phase = "OPENED", ![r].copy = copy,
                                                  ![r].venue = v]
        /\ \/ drafts[c] # NULL /\ copy = drafts[c]
           \/ /\ Files!FreshKey(c)
              /\ copy = [chart |-> c, venue |-> v, draftRevision |-> 0, author |-> NULL]
  <2>1. CASE /\ drafts[c] # NULL
             /\ chartRequests' = [chartRequests EXCEPT ![r].phase = "OPENED",
                                                       ![r].copy = drafts[c],
                                                       ![r].venue = drafts[c].venue]
    <3>1. drafts[c] \in Files!Draft /\ drafts[c].venue \in ChartVenue
      BY <1>1, <2>1 DEF Files!Draft
    <3> QED BY <2>1, <3>1
  <2>2. ASSUME Files!FreshKey(c), NEW v \in ChartVenue,
               chartRequests' = [chartRequests EXCEPT ![r].phase = "OPENED",
                 ![r].copy = [chart |-> c, venue |-> v, draftRevision |-> 0, author |-> NULL],
                 ![r].venue = v]
        PROVE  \E copy \in Files!Draft, u \in ChartVenue :
                 /\ chartRequests' = [chartRequests EXCEPT ![r].phase = "OPENED",
                                                           ![r].copy = copy, ![r].venue = u]
                 /\ \/ drafts[c] # NULL /\ copy = drafts[c]
                    \/ /\ Files!FreshKey(c)
                       /\ copy = [chart |-> c, venue |-> u, draftRevision |-> 0,
                                  author |-> NULL]
    <3>1. PICK copy :
            copy = [chart |-> c, venue |-> v, draftRevision |-> 0, author |-> NULL]
      OBVIOUS
    <3>2. copy \in Files!Draft BY <3>1 DEF Files!Draft
    <3> QED BY <2>2, <3>1, <3>2
  <2> QED BY <2>1, <2>2 DEF Files!Open
<1>5. PICK request : request =
        [chartRequests[r] EXCEPT !.phase = "OPENED", !.copy = copy, !.venue = v]
  OBVIOUS
<1>6. /\ request \in RequestRecord /\ request.phase = "OPENED"
      /\ request.copy = copy /\ request.venue = v
  BY <1>2, <1>3, <1>5 DEF RequestRecord
<1>7. chartRequests' = [chartRequests EXCEPT ![r] = request]
  BY <1>1, <1>3, <1>4, <1>5 DEF RequestRecord
<1>8. /\ chartRequests' \in [ChartRequest -> RequestRecord]
      /\ chartRequests'[r] = request
      /\ \A q \in ChartRequest : q # r => chartRequests'[q] = chartRequests[q]
  BY <1>1, <1>6, <1>7
<1>9. /\ copy # NULL /\ v # NULL /\ copy.chart = c
      /\ copy.draftRevision \in Nat
      /\ copy.draftRevision = 0 => Files!FreshKey(c)
      /\ drafts[c] \in {NULL, copy}
  BY <1>1, <1>4, FilesNull DEF Files!Draft, FilesAreNamed, Files!FreshKey
<1>10. CopiesTyped BY CopiesTypedHold
<1>11. ASSUME NEW q \in ChartRequest, chartRequests[q].copy # NULL,
              chartRequests[q].copy.chart = c
       PROVE  /\ chartRequests[q].copy.draftRevision # 0
              /\ drafts[c] = copy
              /\ chartRequests[q].copy.draftRevision <= copy.draftRevision
              /\ chartRequests[q].copy.draftRevision = copy.draftRevision =>
                   chartRequests[q].copy = copy
  <2>1. ~Files!FreshKey(c) BY <1>11 DEF Files!FreshKey
  <2>2. drafts[c] # NULL /\ copy = drafts[c] BY <1>4, <2>1
  <2> QED BY <1>1, <1>11, <2>2 DEF CopiesAgree, NewChartsAreOwn
<1>12. \A q \in ChartRequest, k \in ChartKey :
         HoldsNow(q, k) <=> IF q = r THEN k = c ELSE Holding(q, k)
  BY <1>6, <1>8, <1>9 DEF Holding, HoldsNow
<1>13. CopiesAreHeld' BY <1>1, <1>6, <1>8, <1>9 DEF CopiesAreHeld
<1>14. LocksAreExclusive'
  <2>1. \A q \in ChartRequest : chartRequests'[q].phase \in Under =>
          q # r /\ chartRequests'[q] = chartRequests[q]
    BY <1>6, <1>8 DEF Under
  <2> QED BY <1>1, <1>2, <2>1 DEF LocksAreExclusive
<1>15. FilesAreNamed' BY <1>1, <1>2 DEF FilesAreNamed
<1>16. CopiesAgree'
  <2> SUFFICES ASSUME NEW p \in ChartRequest, chartRequests'[p].copy # NULL
               PROVE  LET held == chartRequests'[p].copy
                          file == drafts[held.chart]
                      IN /\ file # NULL =>
                              /\ held.draftRevision <= file.draftRevision
                              /\ held.draftRevision = file.draftRevision => held = file
                         /\ \A q \in ChartRequest :
                              /\ HoldsNow(q, held.chart)
                              /\ held.draftRevision = chartRequests'[q].copy.draftRevision
                              => held = chartRequests'[q].copy
    BY <1>2 DEF CopiesAgree, Holding, HoldsNow
  <2>1. CASE p = r
    <3>1. chartRequests'[p].copy = copy BY <1>6, <1>8, <2>1
    <3>2. \A q \in ChartRequest :
            /\ chartRequests'[q].copy # NULL /\ chartRequests'[q].copy.chart = c
            /\ copy.draftRevision = chartRequests'[q].copy.draftRevision
            => copy = chartRequests'[q].copy
      BY <1>6, <1>8, <1>11
    <3> QED BY <1>9, <3>1, <3>2 DEF Holding, HoldsNow
  <2>2. CASE p # r
    <3>1. chartRequests'[p].copy = chartRequests[p].copy BY <1>8, <2>2
    <3>2. ASSUME NEW q \in ChartRequest, q # r,
                 chartRequests'[q].copy # NULL,
                 chartRequests'[q].copy.chart = chartRequests'[p].copy.chart,
                 chartRequests'[p].copy.draftRevision = chartRequests'[q].copy.draftRevision
          PROVE  chartRequests'[p].copy = chartRequests'[q].copy
      BY <1>1, <1>8, <2>2, <3>1, <3>2 DEF CopiesAgree, Holding, HoldsNow
    <3>3. chartRequests'[p].copy.chart = c /\ chartRequests'[p].copy.draftRevision = copy.draftRevision
            => chartRequests'[p].copy = copy
      BY <1>11, <3>1
    <3> QED BY <1>1, <1>6, <1>8, <1>9, <3>1, <3>2, <3>3 DEF CopiesAgree, Holding, HoldsNow
  <2> QED BY <2>1, <2>2
<1>17. NewChartsAreOwn'
  <2> SUFFICES ASSUME NEW p \in ChartRequest, chartRequests'[p].copy # NULL,
                      chartRequests'[p].copy.draftRevision = 0
               PROVE  /\ drafts[chartRequests'[p].copy.chart] = NULL
                      /\ \A q \in ChartRequest \ {p} :
                           ~HoldsNow(q, chartRequests'[p].copy.chart)
    BY <1>2 DEF NewChartsAreOwn, Holding, HoldsNow
  <2>1. CASE p = r
    BY <1>6, <1>8, <1>9, <2>1 DEF Holding, HoldsNow, Files!FreshKey
  <2>2. CASE p # r
    <3>1. chartRequests[p].copy.chart # c BY <1>8, <1>11, <2>2
    <3> QED BY <1>1, <1>6, <1>8, <1>9, <2>2, <3>1 DEF NewChartsAreOwn, Holding, HoldsNow
  <2> QED BY <2>1, <2>2
<1>18. CheckedIsCurrent'
  <2> SUFFICES ASSUME NEW p \in ChartRequest, chartRequests'[p].phase = "CHECKED"
               PROVE  LET held == chartRequests'[p].copy
                      IN /\ drafts[held.chart] \in {NULL, held}
                         /\ \A q \in ChartRequest : HoldsNow(q, held.chart) =>
                              chartRequests'[q].copy.draftRevision <= held.draftRevision
    BY <1>2 DEF CheckedIsCurrent, Holding, HoldsNow
  <2>1. p # r /\ chartRequests'[p] = chartRequests[p] BY <1>6, <1>8
  <2>2. chartRequests[p].copy # NULL BY <1>1, <2>1 DEF CopiesAreHeld
  <2>3. chartRequests[p].copy.chart = c =>
          copy.draftRevision <= chartRequests[p].copy.draftRevision
    <3> SUFFICES ASSUME chartRequests[p].copy.chart = c
                 PROVE  copy.draftRevision <= chartRequests[p].copy.draftRevision
      OBVIOUS
    <3>1. drafts[c] = copy BY <1>11, <2>2
    <3>2. copy = chartRequests[p].copy BY <1>1, <1>9, <2>1, <3>1 DEF CheckedIsCurrent
    <3> QED BY <1>9, <3>2
  <2> QED BY <1>1, <1>6, <1>8, <1>9, <2>1, <2>2, <2>3 DEF CheckedIsCurrent, Holding, HoldsNow
<1>19. StoreSound'
  BY <1>1, <1>2, <1>8, <1>13, <1>14, <1>15, <1>16, <1>17, <1>18 DEF StoreSound, FilesIInv
<1>20. VenuesSound'
  <2>1. \A q \in ChartRequest :
          /\ chartRequests'[q].phase \in {"FREEZING", "ACTIVATING"} =>
               chartRequests'[q].phase = chartRequests[q].phase
          /\ chartRequests[q].phase = "ANSWERED" => chartRequests'[q].phase = "ANSWERED"
    BY <1>2, <1>6, <1>8
  <2> QED BY <1>2, <1>8, <2>1, VenuesKept
<1> QED BY <1>19, <1>20 DEF FilesIInv

(* The draft that was checked is replaced by a newer one. *)
LEMMA FilesRenamed ==
  ASSUME FilesIInv, NEW r \in ChartRequest, Files!RenameDraft(r)
  PROVE  FilesIInv'
<1>1. /\ chartRequests \in [ChartRequest -> RequestRecord]
      /\ drafts \in [ChartKey -> Files!Draft \union {NULL}]
      /\ CopiesAreHeld /\ LocksAreExclusive /\ FilesAreNamed
      /\ CopiesAgree /\ NewChartsAreOwn /\ CheckedIsCurrent
  BY DEF FilesIInv, StoreSound
<1>2. /\ chartRequests[r].phase = "CHECKED" /\ UNCHANGED <<locks, revisions, venues>>
      /\ "UNLOCKING" \in Files!Phases
  BY DEF Files!RenameDraft, Files!At, Files!Phases
<1>3. CopiesTyped BY CopiesTypedHold
<1>4. /\ chartRequests[r] \in RequestRecord
      /\ chartRequests[r].copy # NULL /\ chartRequests[r].venue \in ChartVenue
      /\ chartRequests[r].after \in Files!After
  BY <1>1, <1>2 DEF CopiesAreHeld, RequestRecord
<1>5. PICK c \in ChartKey, n \in Nat :
        c = chartRequests[r].copy.chart /\ n = chartRequests[r].copy.draftRevision
  BY <1>3, <1>4 DEF CopiesTyped
<1>6. PICK document : document =
        [chart |-> c, venue |-> chartRequests[r].venue, draftRevision |-> n + 1, author |-> r]
  OBVIOUS
<1>7. /\ document \in Files!Draft /\ document.chart = c /\ document.draftRevision = n + 1
      /\ document # NULL
  BY <1>4, <1>6, FilesNull DEF Files!Draft
<1>8. PICK request : request =
        [chartRequests[r] EXCEPT !.phase = "UNLOCKING", !.copy = document]
  OBVIOUS
<1>9. /\ request \in RequestRecord /\ request.phase = "UNLOCKING"
      /\ request.copy = document /\ request.venue = chartRequests[r].venue
  BY <1>2, <1>4, <1>7, <1>8 DEF RequestRecord
<1>10. /\ drafts' = [drafts EXCEPT ![c] = document]
       /\ chartRequests' = [chartRequests EXCEPT ![r] = request]
  <2>1. Files!Document(r) = document BY <1>5, <1>6 DEF Files!Document
  <2> QED BY <1>1, <1>4, <1>5, <1>8, <2>1 DEF Files!RenameDraft, RequestRecord
<1>11. /\ chartRequests' \in [ChartRequest -> RequestRecord]
       /\ chartRequests'[r] = request
       /\ \A q \in ChartRequest : q # r => chartRequests'[q] = chartRequests[q]
       /\ drafts' \in [ChartKey -> Files!Draft \union {NULL}]
       /\ drafts'[c] = document
       /\ \A k \in ChartKey : k # c => drafts'[k] = drafts[k]
  BY <1>1, <1>7, <1>9, <1>10
<1>12. \A q \in ChartRequest : Holding(q, c) =>
         chartRequests[q].copy.draftRevision <= n /\ chartRequests[q].copy.draftRevision \in Nat
  BY <1>1, <1>2, <1>3, <1>5 DEF CheckedIsCurrent, CopiesTyped, Holding, HoldsNow
<1>13. ASSUME NEW q \in ChartRequest, q # r, Holding(q, c)
       PROVE  /\ chartRequests[q].copy.draftRevision # 0
              /\ chartRequests[q].copy.draftRevision <= n
              /\ chartRequests[q].copy.draftRevision \in Nat
              /\ chartRequests[q].phase # "CHECKED"
  <2>1. Holding(r, c) BY <1>4, <1>5 DEF Holding, HoldsNow
  <2>2. chartRequests[q].copy.draftRevision # 0
    BY <1>13, <2>1, <1>1 DEF NewChartsAreOwn, Holding, HoldsNow
  <2>3. chartRequests[q].phase # "CHECKED"
    BY <1>13, <1>1, <1>2, <1>5 DEF LocksAreExclusive, Under, Holding, HoldsNow
  <2> QED BY <1>12, <1>13, <2>2, <2>3
<1>14. CopiesAreHeld' BY <1>1, <1>4, <1>7, <1>9, <1>11, FilesNull DEF CopiesAreHeld
<1>15. LocksAreExclusive'
  <2>1. \A q \in ChartRequest : chartRequests'[q].phase \in Under =>
          /\ chartRequests[q].phase \in Under
          /\ chartRequests'[q].copy.chart = chartRequests[q].copy.chart
    BY <1>2, <1>5, <1>7, <1>9, <1>11 DEF Under
  <2> QED BY <1>1, <1>2, <2>1 DEF LocksAreExclusive
<1>16. FilesAreNamed' BY <1>1, <1>5, <1>7, <1>11 DEF FilesAreNamed
<1>17. CopiesAgree'
  <2> SUFFICES ASSUME NEW p \in ChartRequest, chartRequests'[p].copy # NULL
               PROVE  LET held == chartRequests'[p].copy
                          file == drafts'[held.chart]
                      IN /\ file # NULL =>
                              /\ held.draftRevision <= file.draftRevision
                              /\ held.draftRevision = file.draftRevision => held = file
                         /\ \A q \in ChartRequest :
                              /\ HoldsNow(q, held.chart)
                              /\ held.draftRevision = chartRequests'[q].copy.draftRevision
                              => held = chartRequests'[q].copy
    BY DEF CopiesAgree, Holding, HoldsNow
  <2>1. CASE p = r
    <3>1. chartRequests'[p].copy = document BY <1>9, <1>11, <2>1
    <3>2. ASSUME NEW q \in ChartRequest, q # r, HoldsNow(q, c)
          PROVE  chartRequests'[q].copy.draftRevision # n + 1
      <4>1. Holding(q, c) BY <1>11, <3>2 DEF Holding, HoldsNow
      <4> QED BY <1>11, <1>13, <3>2, <4>1
    <3> QED BY <1>5, <1>7, <1>11, <2>1, <3>1, <3>2
  <2>2. CASE p # r
    <3>1. chartRequests'[p].copy = chartRequests[p].copy /\ chartRequests[p].copy # NULL
      BY <1>11, <2>2
    <3>2. CASE chartRequests[p].copy.chart = c
      <4>1. Holding(p, c) BY <3>1, <3>2 DEF Holding, HoldsNow
      <4>2. /\ chartRequests[p].copy.draftRevision <= n
            /\ chartRequests[p].copy.draftRevision \in Nat
        BY <1>13, <2>2, <4>1
      <4>3. chartRequests[p].copy.draftRevision < n + 1 BY <1>5, <4>2
      <4>4. \A q \in ChartRequest :
              /\ q # r /\ Holding(q, c)
              /\ chartRequests[p].copy.draftRevision = chartRequests[q].copy.draftRevision
              => chartRequests[p].copy = chartRequests[q].copy
        BY <1>1, <3>1, <3>2 DEF CopiesAgree
      <4>5. \A q \in ChartRequest : q # r => (HoldsNow(q, c) <=> Holding(q, c))
        BY <1>11 DEF Holding, HoldsNow
      <4>6. chartRequests'[r].copy.draftRevision = n + 1 BY <1>7, <1>9, <1>11
      <4> QED BY <1>5, <1>7, <1>11, <3>1, <3>2, <4>2, <4>3, <4>4, <4>5, <4>6
    <3>3. CASE chartRequests[p].copy.chart # c
      <4>1. drafts'[chartRequests[p].copy.chart] = drafts[chartRequests[p].copy.chart]
        BY <1>3, <1>11, <3>1, <3>3 DEF CopiesTyped
      <4>2. ~HoldsNow(r, chartRequests[p].copy.chart) BY <1>7, <1>9, <1>11, <3>3 DEF Holding, HoldsNow
      <4>3. \A q \in ChartRequest : q # r =>
              (HoldsNow(q, chartRequests'[p].copy.chart) <=>
               Holding(q, chartRequests[p].copy.chart))
        BY <1>11, <3>1 DEF Holding, HoldsNow
      <4> QED BY <1>1, <1>11, <3>1, <4>1, <4>2, <4>3 DEF CopiesAgree
    <3> QED BY <3>2, <3>3
  <2> QED BY <2>1, <2>2
<1>18. NewChartsAreOwn'
  <2> SUFFICES ASSUME NEW p \in ChartRequest, chartRequests'[p].copy # NULL,
                      chartRequests'[p].copy.draftRevision = 0
               PROVE  /\ drafts'[chartRequests'[p].copy.chart] = NULL
                      /\ \A q \in ChartRequest \ {p} :
                           ~HoldsNow(q, chartRequests'[p].copy.chart)
    BY DEF NewChartsAreOwn, Holding, HoldsNow
  <2>1. p # r BY <1>5, <1>7, <1>9, <1>11
  <2>2. chartRequests'[p] = chartRequests[p] BY <1>11, <2>1
  <2>3. chartRequests[p].copy.chart # c BY <1>13, <2>1, <2>2 DEF Holding, HoldsNow
  <2>4. drafts'[chartRequests[p].copy.chart] = drafts[chartRequests[p].copy.chart]
    BY <1>3, <1>11, <2>2, <2>3 DEF CopiesTyped
  <2>5. ~HoldsNow(r, chartRequests[p].copy.chart) BY <1>7, <1>9, <1>11, <2>2, <2>3 DEF Holding, HoldsNow
  <2> QED BY <1>1, <1>11, <2>1, <2>2, <2>3, <2>4, <1>7, <1>9 DEF NewChartsAreOwn, Holding, HoldsNow
<1>19. CheckedIsCurrent'
  <2> SUFFICES ASSUME NEW p \in ChartRequest, chartRequests'[p].phase = "CHECKED"
               PROVE  LET held == chartRequests'[p].copy
                      IN /\ drafts'[held.chart] \in {NULL, held}
                         /\ \A q \in ChartRequest : HoldsNow(q, held.chart) =>
                              chartRequests'[q].copy.draftRevision <= held.draftRevision
    BY DEF CheckedIsCurrent, Holding, HoldsNow
  <2>1. p # r /\ chartRequests'[p] = chartRequests[p] BY <1>9, <1>11
  <2>2. chartRequests[p].copy # NULL /\ chartRequests[p].copy.chart \in ChartKey
    BY <1>1, <1>3, <2>1 DEF CopiesAreHeld, CopiesTyped
  <2>3. chartRequests[p].copy.chart # c BY <1>13, <2>1, <2>2 DEF Holding, HoldsNow
  <2>4. drafts'[chartRequests[p].copy.chart] = drafts[chartRequests[p].copy.chart]
    BY <1>11, <2>2, <2>3
  <2> QED BY <1>1, <1>7, <1>9, <1>11, <2>1, <2>3, <2>4 DEF CheckedIsCurrent, Holding, HoldsNow
<1>20. StoreSound'
  BY <1>1, <1>2, <1>11, <1>14, <1>15, <1>16, <1>17, <1>18, <1>19 DEF StoreSound, FilesIInv
<1>21. VenuesSound'
  <2>1. \A q \in ChartRequest :
          /\ chartRequests'[q].phase \in {"FREEZING", "ACTIVATING"} =>
               chartRequests'[q].phase = chartRequests[q].phase
          /\ chartRequests[q].phase = "ANSWERED" => chartRequests'[q].phase = "ANSWERED"
    BY <1>2, <1>9, <1>11
  <2> QED BY <1>2, <1>11, <2>1, VenuesKept
<1> QED BY <1>20, <1>21 DEF FilesIInv

LEMMA FilesDeleted ==
  ASSUME FilesIInv, NEW r \in ChartRequest, Files!RemoveDraft(r)
  PROVE  FilesIInv'
<1>1. /\ chartRequests \in [ChartRequest -> RequestRecord]
      /\ drafts \in [ChartKey -> Files!Draft \union {NULL}]
      /\ CopiesAreHeld /\ LocksAreExclusive /\ FilesAreNamed /\ locks \subseteq ChartKey
      /\ CopiesAgree /\ NewChartsAreOwn /\ CheckedIsCurrent
  BY DEF FilesIInv, StoreSound
<1>2. /\ chartRequests[r].phase = "DELETING" /\ UNCHANGED <<locks, revisions, venues>>
      /\ "ANSWERED" \in Files!Phases /\ Files!Goto(r, "ANSWERED")
      /\ drafts' = [drafts EXCEPT ![chartRequests[r].copy.chart] = NULL]
  BY DEF Files!RemoveDraft, Files!At, Files!Phases
<1>3. Moved(r, "ANSWERED") BY <1>2, MovedBy
<1>4. /\ drafts' \in [ChartKey -> Files!Draft \union {NULL}]
      /\ \A k \in ChartKey : drafts'[k] \in {drafts[k], NULL}
  BY <1>1, <1>2
<1>5. \A q \in ChartRequest :
        /\ chartRequests'[q].copy = chartRequests[q].copy
        /\ chartRequests'[q].phase \in Under \union {"CHECKED"} =>
             chartRequests'[q].phase = chartRequests[q].phase
        /\ chartRequests'[q].phase # "IDLE" =>
             chartRequests'[q].copy # NULL /\ chartRequests'[q].venue # NULL
  BY <1>1, <1>2, <1>3 DEF Moved, Under, CopiesAreHeld
<1>6. CopiesTyped BY CopiesTypedHold
<1>7. CopiesAreHeld' BY <1>5 DEF CopiesAreHeld
<1>8. LocksAreExclusive' BY <1>1, <1>2, <1>5 DEF LocksAreExclusive
<1>9. FilesAreNamed' BY <1>1, <1>4 DEF FilesAreNamed
<1>10. CopiesAgree'
  <2>1. \A q \in ChartRequest : chartRequests[q].copy # NULL =>
          drafts'[chartRequests[q].copy.chart] \in {drafts[chartRequests[q].copy.chart], NULL}
    BY <1>4, <1>6 DEF CopiesTyped
  <2> QED BY <1>1, <1>5, <2>1 DEF CopiesAgree, Holding, HoldsNow
<1>11. NewChartsAreOwn'
  <2>1. \A q \in ChartRequest : chartRequests[q].copy # NULL =>
          drafts'[chartRequests[q].copy.chart] \in {drafts[chartRequests[q].copy.chart], NULL}
    BY <1>4, <1>6 DEF CopiesTyped
  <2> QED BY <1>1, <1>5, <2>1 DEF NewChartsAreOwn, Holding, HoldsNow
<1>12. CheckedIsCurrent'
  <2>1. \A q \in ChartRequest : chartRequests'[q].phase = "CHECKED" =>
          /\ chartRequests[q].phase = "CHECKED" /\ chartRequests[q].copy # NULL
          /\ drafts'[chartRequests[q].copy.chart] \in {drafts[chartRequests[q].copy.chart], NULL}
    BY <1>1, <1>4, <1>5, <1>6 DEF CopiesTyped, CopiesAreHeld, Under
  <2> QED BY <1>1, <1>5, <2>1 DEF CheckedIsCurrent, Holding, HoldsNow
<1>13. StoreSound'
  BY <1>1, <1>2, <1>3, <1>4, <1>7, <1>8, <1>9, <1>10, <1>11, <1>12 DEF StoreSound, Moved
<1>14. VenuesSound' BY <1>2, <1>3, VenuesKept DEF Moved
<1> QED BY <1>13, <1>14 DEF FilesIInv

LEMMA FilesInit == Files!Init => FilesIInv
<1> SUFFICES ASSUME Files!Init PROVE FilesIInv
  OBVIOUS
<1>1. PICK saved \in SUBSET ChartKey, v \in ChartVenue :
        drafts = [c \in ChartKey |->
          IF c \in saved THEN [chart |-> c, venue |-> v, draftRevision |-> 1, author |-> NULL]
                         ELSE NULL]
  BY DEF Files!Init
<1>2. /\ drafts \in [ChartKey -> Files!Draft \union {NULL}]
      /\ \A c \in ChartKey : drafts[c] # NULL => drafts[c].chart = c /\ drafts[c].draftRevision = 1
  <2>1. \A c \in ChartKey :
          [chart |-> c, venue |-> v, draftRevision |-> 1, author |-> NULL] \in Files!Draft
    BY DEF Files!Draft
  <2> QED BY <1>1, <2>1
<1>3. /\ chartRequests = [r \in ChartRequest |-> Files!Idle]
      /\ locks = {} /\ revisions = [r \in ChartRequest |-> NULL]
      /\ venues = [u \in ChartVenue |-> NULL]
  BY DEF Files!Init
<1>4. /\ Files!Idle \in RequestRecord /\ Files!Idle.phase = "IDLE" /\ Files!Idle.copy = NULL
  BY DEF Files!Idle, RequestRecord, Files!Phases, Files!After
<1>5. /\ chartRequests \in [ChartRequest -> RequestRecord]
      /\ \A r \in ChartRequest : chartRequests[r].phase = "IDLE" /\ chartRequests[r].copy = NULL
  BY <1>3, <1>4
<1>6. CopiesAreHeld /\ LocksAreExclusive
  BY <1>5 DEF CopiesAreHeld, LocksAreExclusive, Under
<1>7. FilesAreNamed BY <1>2 DEF FilesAreNamed
<1>8. CopiesAgree /\ NewChartsAreOwn /\ CheckedIsCurrent
  BY <1>5 DEF CopiesAgree, NewChartsAreOwn, CheckedIsCurrent
<1>9. StoreSound BY <1>2, <1>3, <1>5, <1>6, <1>7, <1>8 DEF StoreSound
<1>10. VenuesSound
  BY <1>3, <1>5 DEF VenuesSound, RevisionsAreOwn, Files!VenuesShowWholeCharts
<1> QED BY <1>9, <1>10 DEF FilesIInv

(* A save replaces what its author read. *)
ReplacesWhatWasRead ==
  \A r \in ChartRequest : Files!RenameDraft(r) =>
    LET c == chartRequests[r].copy.chart IN
    drafts[c] \in {NULL, chartRequests[r].copy}

LEMMA FilesReplace == ASSUME FilesIInv PROVE ReplacesWhatWasRead
BY DEF ReplacesWhatWasRead, Files!RenameDraft, Files!At, FilesIInv, StoreSound, CheckedIsCurrent

LEMMA FilesNext == ASSUME FilesIInv, [Files!Next]_chartVars PROVE FilesIInv'
<1>1. CASE UNCHANGED chartVars
  <2>1. UNCHANGED <<drafts, locks, revisions, venues, chartRequests>> BY <1>1 DEF chartVars
  <2>2. StoreSound'
    BY <2>1 DEF FilesIInv, StoreSound, CopiesAreHeld, LocksAreExclusive, FilesAreNamed,
                CopiesAgree, NewChartsAreOwn, CheckedIsCurrent, Holding, HoldsNow
  <2>3. VenuesSound' BY <2>1 DEF FilesIInv, VenuesSound, RevisionsAreOwn, Files!VenuesShowWholeCharts
  <2> QED BY <2>2, <2>3 DEF FilesIInv
<1>2. CASE Files!Crash
  <2>1. PICK r \in ChartRequest : TRUE BY <1>2 DEF Files!Crash
  <2> QED BY <1>2, FilesCrashed
<1> QED BY <1>1, <1>2, FilesOpened, FilesSaved, FilesMoved, FilesRenamed, FilesUnlocked,
           FilesFrozen, FilesWritten, FilesPointed, FilesWithdrawn, FilesDeleted
        DEF Files!Next

-----------------------------------------------------------------------------
LEMMA FilesSteps == [Next]_vars => [Files!Next]_chartVars
BY DEF Next, vars, designVars

LEMMA FilesAlways == Spec => []FilesIInv
<1>1. Init => FilesIInv BY FilesInit DEF Init
<1>2. FilesIInv /\ [Next]_vars => FilesIInv' BY FilesNext, FilesSteps
<1> QED BY <1>1, <1>2, PTL DEF Spec

(* src/src/lib/seat-charts/revisions.ts:182-191 and 133-146: a venue names *)
(* a revision that is whole, and a save replaces what its editor opened.   *)
THEOREM ChartFilesSound == Spec => ChartFilesAreSound
<1>1. FilesIInv => Files!VenuesShowWholeCharts BY DEF FilesIInv, VenuesSound
<1>2. Spec => []Files!VenuesShowWholeCharts BY <1>1, FilesAlways, PTL
<1>3. FilesIInv /\ [Next]_vars => [ReplacesWhatWasRead]_chartVars BY FilesReplace
<1>4. Spec => [][ReplacesWhatWasRead]_chartVars BY <1>3, FilesAlways, PTL DEF Spec
<1>5. Spec => Files!SavesReplaceWhatWasRead
  BY <1>4 DEF Files!SavesReplaceWhatWasRead, ReplacesWhatWasRead, Files!vars, chartVars
<1> QED BY <1>2, <1>5 DEF ChartFilesAreSound

-----------------------------------------------------------------------------
(* The earlier designer.  An image a chart shows was uploaded, and for     *)
(* that chart if for a chart with a key.                                   *)
ShowsItsOwn(d, document) ==
  \A s \in Editor(d)!Slot, u \in UploadsOf[d] : document.hrefs[s] = u =>
    /\ uploads[u].at \in {"LANDED", "DROPPED"}
    /\ uploads[u].id # NULL => uploads[u].id = document.id

IsSnapshot(d, document) ==
  /\ document.id = chart.id /\ document.draftRevision = chart.draftRevision
  /\ ShowsItsOwn(d, document)

CanvasSound(d) ==
  /\ chart \in Editor(d)!ChartDocument /\ ShowsItsOwn(d, chart)
  /\ past \in Seq(Editor(d)!ChartDocument) /\ future \in Seq(Editor(d)!ChartDocument)
  /\ Len(past) + Len(future) <= Limit
  /\ \A i \in DOMAIN past : IsSnapshot(d, past[i])
  /\ \A i \in DOMAIN future : IsSnapshot(d, future[i])
  /\ chartGeneration \in Nat

(* A slot awaits the last upload begun for it, for the chart shown.        *)
Awaits(d, s, u) ==
  /\ uploads[u].at = "SENT" /\ uploads[u].slot = s
  /\ uploads[u].id = chart.id /\ uploads[u].generation = chartGeneration
  /\ \A w \in UploadsOf[d] :
       uploads[w].at = "LANDED" /\ uploads[w].slot = s => uploads[w].begun < uploads[u].begun

UploadRecord(d) ==
  [at : {"IDLE", "SENT", "LANDED", "DROPPED"}, slot : Editor(d)!Slot \union {NULL},
   replaces : BOOLEAN, id : ChartsOf[d] \union {NULL}, generation : Nat, begun : Nat]

Begun(d) == {u \in UploadsOf[d] : uploads[u].at # "IDLE"}

UploadsSound(d) ==
  /\ uploads \in [UploadsOf[d] -> UploadRecord(d)]
  /\ assetRequestIds \in [Editor(d)!Slot -> UploadsOf[d] \union {NULL}]
  /\ \A u \in UploadsOf[d] :
       /\ uploads[u].at = "SENT" => uploads[u].slot \in Editor(d)!Slot
       /\ uploads[u].at # "IDLE" => uploads[u].begun < Cardinality(Begun(d))
  /\ \A s \in Editor(d)!Slot : assetRequestIds[s] # NULL => Awaits(d, s, assetRequestIds[s])

CallRecord(d) ==
  [at : {"IDLE", "SENT", "SAVED", "ANSWERED", "DONE"}, op : {"SAVE", "PUBLISH", "LOAD"},
   chart : Editor(d)!ChartDocument \union {NULL}]

(* The store has an answer for a call that waits for one.                  *)
CallSound(d, call) ==
  /\ call.at \in {"SENT", "SAVED", "ANSWERED"} => call.chart # NULL
  /\ call.at = "SAVED" \/ (call.at = "SENT" /\ call.op = "LOAD") =>
       call.chart.id \in ChartsOf[d] /\ store[call.chart.id] # NULL
  /\ call.chart # NULL => ShowsItsOwn(d, call.chart)

KeptSound(d) ==
  /\ calls \in [CallsOf[d] -> CallRecord(d)]
  /\ \A k \in CallsOf[d] : CallSound(d, calls[k])
  /\ local \in Editor(d)!ChartDocument \union {NULL}
  /\ local # NULL => ShowsItsOwn(d, local)
  /\ store \in [ChartsOf[d] -> Editor(d)!ChartDocument \union {NULL}]
  /\ \A c \in ChartsOf[d] : store[c] # NULL => store[c].id = c /\ ShowsItsOwn(d, store[c])

EditorIInv(d) == CanvasSound(d) /\ UploadsSound(d) /\ KeptSound(d)


LEMMA EditorConstants ==
  ASSUME NEW d \in Canvas
  PROVE  /\ Limit \in Nat \ {0} /\ MaxRevisionOf[d] \in Nat \ {0}
         /\ IsFiniteSet(UploadsOf[d])
         /\ NULL \notin UploadsOf[d] /\ NULL \notin ChartsOf[d]
         /\ NULL \notin Editor(d)!Slot /\ NULL \notin Editor(d)!ChartDocument
<1>1. Editor(d)!ChartDocument
        \subseteq [id : ChartsOf[d] \union {NULL}, draftRevision : Nat,
                   hrefs : [Overlay \union UploadsOf[d] -> UploadsOf[d] \union {NULL}]]
  BY EditorAssumption DEF Editor!ChartDocument, Editor!Slot
<1> QED BY <1>1, EditorAssumption DEF Editor!Slot

LEMMA EmptyHistory == ASSUME NEW S PROVE <<>> \in Seq(S) /\ Len(<<>>) = 0 /\ DOMAIN <<>> = {}
OBVIOUS

(* One image of a chart replaced. *)
LEMMA Redrawn ==
  ASSUME NEW d \in Canvas, NEW c \in Editor(d)!ChartDocument, NEW s \in Editor(d)!Slot,
         NEW x \in UploadsOf[d] \union {NULL}, NEW n, n = [c EXCEPT !.hrefs[s] = x]
  PROVE  /\ n \in Editor(d)!ChartDocument
         /\ n.id = c.id /\ n.draftRevision = c.draftRevision
         /\ n.hrefs[s] = x
         /\ \A t \in Editor(d)!Slot \ {s} : n.hrefs[t] = c.hrefs[t]
BY DEF Editor!ChartDocument

(* The newest snapshots are snapshots. *)
LEMMA NewestKept ==
  ASSUME NEW d \in Canvas, NEW S, NEW q \in Seq(S), NEW n \in Nat
  PROVE  /\ Editor(d)!Newest(q, n) \in Seq(S)
         /\ Len(Editor(d)!Newest(q, n)) <= n
         /\ \A i \in DOMAIN Editor(d)!Newest(q, n) :
              \E j \in DOMAIN q : Editor(d)!Newest(q, n)[i] = q[j]
<1>1. CASE Len(q) <= n
  BY <1>1 DEF Editor!Newest
<1>2. CASE ~(Len(q) <= n)
  <2> DEFINE m == Len(q) - n + 1
  <2>1. Len(q) \in Nat /\ m \in 1..(Len(q) + 1) /\ Len(q) - m + 1 = n
    BY <1>2
  <2>2. Editor(d)!Newest(q, n) = SubSeq(q, m, Len(q))
    BY <1>2 DEF Editor!Newest
  <2>3. /\ SubSeq(q, m, Len(q)) \in Seq(S) /\ Len(SubSeq(q, m, Len(q))) = n
        /\ \A i \in 1..n : SubSeq(q, m, Len(q))[i] = q[m + i - 1]
    BY <2>1
  <2>4. DOMAIN SubSeq(q, m, Len(q)) = 1..n /\ DOMAIN q = 1..Len(q) BY <2>3
  <2>5. \A i \in 1..n : m + i - 1 \in 1..Len(q) BY <2>1
  <2> HIDE DEF m
  <2> QED BY SMTT(60), <2>2, <2>3, <2>4, <2>5
<1> QED BY <1>1, <1>2

-----------------------------------------------------------------------------
(* What is uploaded stays so. *)
UploadsKept(d) ==
  \A u \in UploadsOf[d] : uploads[u].at \in {"LANDED", "DROPPED"} =>
    uploads'[u].at \in {"LANDED", "DROPPED"} /\ uploads'[u].id \in {uploads[u].id, NULL}

LEMMA StillShows ==
  ASSUME NEW d \in Canvas, NEW c, UploadsKept(d), ShowsItsOwn(d, c)
  PROVE  ShowsItsOwn(d, c)'
BY DEF UploadsKept, ShowsItsOwn

LEMMA CanvasStill ==
  ASSUME NEW d \in Canvas, CanvasSound(d), UploadsKept(d),
         UNCHANGED <<chart, past, future>>, chartGeneration' = chartGeneration
  PROVE  CanvasSound(d)'
<1>1. ShowsItsOwn(d, chart)'
  BY StillShows DEF CanvasSound, ShowsItsOwn, UploadsKept
<1>2. ASSUME NEW c, IsSnapshot(d, c) PROVE IsSnapshot(d, c)'
  BY <1>2, StillShows DEF IsSnapshot
<1>3. \A i \in DOMAIN past : IsSnapshot(d, past[i])'
  BY <1>2 DEF CanvasSound, IsSnapshot, ShowsItsOwn, UploadsKept
<1>4. \A i \in DOMAIN future : IsSnapshot(d, future[i])'
  BY <1>2 DEF CanvasSound, IsSnapshot, ShowsItsOwn, UploadsKept
<1> QED BY <1>1, <1>3, <1>4 DEF CanvasSound

LEMMA KeptStill ==
  ASSUME NEW d \in Canvas, KeptSound(d), UploadsKept(d), UNCHANGED <<calls, local, store>>
  PROVE  KeptSound(d)'
<1>1. ASSUME NEW k \in CallsOf[d] PROVE CallSound(d, calls[k])'
  BY DEF KeptSound, CallSound, ShowsItsOwn, UploadsKept
<1>2. local # NULL => ShowsItsOwn(d, local)'
  BY DEF KeptSound, ShowsItsOwn, UploadsKept
<1>3. ASSUME NEW c \in ChartsOf[d], store[c] # NULL PROVE ShowsItsOwn(d, store[c])'
  BY <1>3 DEF KeptSound, ShowsItsOwn, UploadsKept
<1> QED BY <1>1, <1>2, <1>3 DEF KeptSound

LEMMA UploadsStill ==
  ASSUME NEW d \in Canvas, UploadsSound(d), uploads' = uploads,
         assetRequestIds' \in [Editor(d)!Slot -> UploadsOf[d] \union {NULL}],
         \A s \in Editor(d)!Slot :
           \/ assetRequestIds'[s] = NULL
           \/ /\ assetRequestIds'[s] = assetRequestIds[s]
              /\ chart'.id = chart.id /\ chartGeneration' = chartGeneration
  PROVE  UploadsSound(d)' /\ UploadsKept(d)
<1>1. \A s \in Editor(d)!Slot : assetRequestIds'[s] # NULL => Awaits(d, s, assetRequestIds[s])'
  BY DEF UploadsSound, Awaits
<1>2. \A s \in Editor(d)!Slot :
        assetRequestIds'[s] # NULL => assetRequestIds'[s] = assetRequestIds[s]
  OBVIOUS
<1>3. \A s \in Editor(d)!Slot : (assetRequestIds[s] # NULL => Awaits(d, s, assetRequestIds[s]))'
  BY <1>1, <1>2 DEF Awaits
<1>4. Begun(d)' = Begun(d) BY DEF Begun
<1> QED BY <1>3, <1>4 DEF UploadsSound, UploadsKept

(* Another chart comes on the canvas. *)
LEMMA CanvasLoaded ==
  ASSUME NEW d \in Canvas, NEW c \in Editor(d)!ChartDocument, ShowsItsOwn(d, c)',
         chart' = c, past' = <<>>, future' = <<>>, chartGeneration' \in Nat
  PROVE  CanvasSound(d)'
<1>1. 0 <= Limit BY EditorConstants
<1>2. ShowsItsOwn(d, chart)' BY DEF ShowsItsOwn
<1> QED BY <1>1, <1>2, EmptyHistory DEF CanvasSound

(* The chart is redrawn; what it was can be undone to. *)
LEMMA CanvasPushed ==
  ASSUME NEW d \in Canvas, CanvasSound(d), UploadsKept(d),
         NEW c \in Editor(d)!ChartDocument, ShowsItsOwn(d, c)',
         c.id = chart.id, c.draftRevision = chart.draftRevision,
         Editor(d)!PushHistory(c), chartGeneration' = chartGeneration
  PROVE  CanvasSound(d)'
<1> DEFINE kept == Editor(d)!Newest(past, Limit - 1)
<1>1. past \in Seq(Editor(d)!ChartDocument) /\ chart \in Editor(d)!ChartDocument
  BY DEF CanvasSound
<1>2. Limit - 1 \in Nat /\ Limit \in Nat BY EditorConstants
<1>3. /\ kept \in Seq(Editor(d)!ChartDocument) /\ Len(kept) <= Limit - 1
      /\ \A i \in DOMAIN kept : \E j \in DOMAIN past : kept[i] = past[j]
  BY <1>1, <1>2, NewestKept
<1>4. chart' = c /\ past' = Append(kept, chart) /\ future' = <<>>
  BY DEF Editor!PushHistory
<1> HIDE DEF kept
<1>5. /\ past' \in Seq(Editor(d)!ChartDocument) /\ Len(past') = Len(kept) + 1
      /\ \A i \in 1..Len(kept) : past'[i] = kept[i]
      /\ past'[Len(kept) + 1] = chart
      /\ DOMAIN past' = 1..(Len(kept) + 1) /\ DOMAIN kept = 1..Len(kept) /\ Len(kept) \in Nat
  BY <1>1, <1>3, <1>4
<1>6. ASSUME NEW x, IsSnapshot(d, x) PROVE IsSnapshot(d, x)'
  BY <1>4, <1>6, StillShows DEF IsSnapshot
<1>7. IsSnapshot(d, chart) BY DEF CanvasSound, IsSnapshot
<1>8. ASSUME NEW i \in DOMAIN past' PROVE IsSnapshot(d, past[i])'
  <2>1. PICK x : x = past'[i] OBVIOUS
  <2>2. IsSnapshot(d, x)
    <3>1. CASE i \in 1..Len(kept)
      <4>1. PICK j \in DOMAIN past : x = past[j] BY <1>3, <1>5, <2>1, <3>1
      <4> QED BY <4>1 DEF CanvasSound
    <3>2. CASE i = Len(kept) + 1 BY <1>5, <1>7, <2>1, <3>2
    <3> QED BY <1>5, <3>1, <3>2
  <2>3. IsSnapshot(d, x)' BY <1>6, <2>2
  <2> QED BY <2>1, <2>3 DEF IsSnapshot, ShowsItsOwn
<1>9. ShowsItsOwn(d, chart)' BY <1>4 DEF ShowsItsOwn
<1>10. Len(past') + Len(future') <= Limit BY <1>2, <1>3, <1>4, <1>5, EmptyHistory
<1> QED BY <1>4, <1>5, <1>8, <1>9, <1>10, EmptyHistory DEF CanvasSound


-----------------------------------------------------------------------------
(* The steps. *)
LEMMA EditorDraws ==
  ASSUME NEW d \in Canvas, EditorIInv(d),
         \/ \E s \in Editor(d)!Slot : Editor(d)!Commit(s)
         \/ Editor(d)!Undo
         \/ Editor(d)!Redo
  PROVE  EditorIInv(d)' /\ UploadsKept(d)
<1>1. /\ UNCHANGED <<uploads, calls, local, store>>
      /\ chartGeneration' = chartGeneration /\ assetRequestIds' = assetRequestIds
  BY DEF Editor!Commit, Editor!Undo, Editor!Redo
<1>2. UploadsSound(d)' /\ UploadsKept(d)
  <2>1. chart'.id = chart.id
    <3>1. ASSUME NEW s \in Editor(d)!Slot, Editor(d)!Commit(s) PROVE chart'.id = chart.id
      BY <3>1, Redrawn DEF Editor!Commit, Editor!PushHistory, EditorIInv, CanvasSound
    <3>2. CASE Editor(d)!Undo
      <4>1. Len(past) \in DOMAIN past /\ chart' = past[Len(past)]
        BY <3>2 DEF Editor!Undo, EditorIInv, CanvasSound
      <4> QED BY <4>1 DEF EditorIInv, CanvasSound, IsSnapshot
    <3>3. CASE Editor(d)!Redo
      <4>1. 1 \in DOMAIN future /\ chart' = future[1]
        BY <3>3 DEF Editor!Redo, EditorIInv, CanvasSound
      <4> QED BY <4>1 DEF EditorIInv, CanvasSound, IsSnapshot
    <3> QED BY <3>1, <3>2, <3>3
  <2> QED BY <1>1, <2>1, UploadsStill DEF EditorIInv, UploadsSound
<1>3. KeptSound(d)' BY <1>1, <1>2, KeptStill DEF EditorIInv
<1>4. /\ chart \in Editor(d)!ChartDocument /\ ShowsItsOwn(d, chart)
      /\ past \in Seq(Editor(d)!ChartDocument) /\ future \in Seq(Editor(d)!ChartDocument)
      /\ Len(past) + Len(future) <= Limit
      /\ \A i \in DOMAIN past : IsSnapshot(d, past[i])
      /\ \A i \in DOMAIN future : IsSnapshot(d, future[i])
      /\ chartGeneration \in Nat
  BY DEF EditorIInv, CanvasSound
<1>5. ASSUME NEW s \in Editor(d)!Slot, Editor(d)!Commit(s) PROVE CanvasSound(d)'
  <2>1. PICK n : n = [chart EXCEPT !.hrefs[s] = NULL] OBVIOUS
  <2>2. /\ n \in Editor(d)!ChartDocument
        /\ n.id = chart.id /\ n.draftRevision = chart.draftRevision /\ n.hrefs[s] = NULL
        /\ \A t \in Editor(d)!Slot \ {s} : n.hrefs[t] = chart.hrefs[t]
    BY <1>4, <2>1 DEF Editor!ChartDocument
  <2>3. ShowsItsOwn(d, n)
    BY <1>4, <2>2, EditorConstants DEF ShowsItsOwn
  <2>4. ShowsItsOwn(d, n)' BY <1>2, <2>3, StillShows
  <2>5. Editor(d)!PushHistory(n) BY <1>5, <2>1 DEF Editor!Commit
  <2> QED BY <1>1, <1>2, <2>2, <2>4, <2>5, CanvasPushed DEF EditorIInv
(* Undone or redone to, a snapshot x has snapshots about it. *)
<1>6. ASSUME NEW x \in Editor(d)!ChartDocument, IsSnapshot(d, x), chart' = x,
             past' \in Seq(Editor(d)!ChartDocument), future' \in Seq(Editor(d)!ChartDocument),
             Len(past') + Len(future') = Len(past) + Len(future),
             \A i \in DOMAIN past' : past'[i] = chart \/ \E j \in DOMAIN past : past'[i] = past[j],
             \A i \in DOMAIN future' :
               future'[i] = chart \/ \E j \in DOMAIN future : future'[i] = future[j]
      PROVE  CanvasSound(d)'
  <2>1. IsSnapshot(d, chart) BY <1>4 DEF IsSnapshot
  <2>2. ASSUME NEW y, IsSnapshot(d, y) PROVE IsSnapshot(d, y)'
    BY <1>2, <1>6, <2>2, StillShows DEF IsSnapshot
  <2>3. ASSUME NEW i \in DOMAIN past' PROVE IsSnapshot(d, past[i])'
    <3>1. PICK y : y = past'[i] OBVIOUS
    <3>2. IsSnapshot(d, y) BY <1>4, <1>6, <2>1, <3>1
    <3>3. IsSnapshot(d, y)' BY <2>2, <3>2
    <3> QED BY <3>1, <3>3 DEF IsSnapshot, ShowsItsOwn
  <2>4. ASSUME NEW i \in DOMAIN future' PROVE IsSnapshot(d, future[i])'
    <3>1. PICK y : y = future'[i] OBVIOUS
    <3>2. IsSnapshot(d, y) BY <1>4, <1>6, <2>1, <3>1
    <3>3. IsSnapshot(d, y)' BY <2>2, <3>2
    <3> QED BY <3>1, <3>3 DEF IsSnapshot, ShowsItsOwn
  <2>5. ShowsItsOwn(d, chart)'
    <3>1. ShowsItsOwn(d, x)' BY <1>2, <1>6, StillShows DEF IsSnapshot
    <3> QED BY <1>6, <3>1 DEF ShowsItsOwn
  <2>6. chart' \in Editor(d)!ChartDocument BY <1>6
  <2> QED BY <1>1, <1>4, <1>6, <2>3, <2>4, <2>5, <2>6 DEF CanvasSound
<1>7. ASSUME Editor(d)!Undo PROVE CanvasSound(d)'
  <2> DEFINE n == Len(past)
  <2>1. /\ past # <<>> /\ chart' = past[n] /\ past' = SubSeq(past, 1, n - 1)
        /\ future' = <<chart>> \o future
    BY <1>7 DEF Editor!Undo
  <2>2. n \in Nat \ {0} /\ DOMAIN past = 1..n BY <1>4, <2>1
  <2>3. /\ past' \in Seq(Editor(d)!ChartDocument) /\ Len(past') = n - 1
        /\ \A i \in DOMAIN past' : i \in DOMAIN past /\ past'[i] = past[i]
    BY <1>4, <2>1, <2>2
  <2>4. <<chart>> \in Seq(Editor(d)!ChartDocument) /\ Len(<<chart>>) = 1 BY <1>4
  <2>5. /\ future' \in Seq(Editor(d)!ChartDocument) /\ Len(future') = 1 + Len(future)
        /\ future'[1] = chart
        /\ \A i \in 1..Len(future) : future'[i + 1] = future[i]
        /\ DOMAIN future' = 1..(1 + Len(future)) /\ DOMAIN future = 1..Len(future)
        /\ Len(future) \in Nat
    BY <1>4, <2>1, <2>4
  <2>6. \A i \in DOMAIN future' :
          future'[i] = chart \/ \E j \in DOMAIN future : future'[i] = future[j]
    <3> SUFFICES ASSUME NEW i \in DOMAIN future', i # 1
                 PROVE  \E j \in DOMAIN future : future'[i] = future[j]
      BY <2>5
    <3>1. i - 1 \in 1..Len(future) /\ (i - 1) + 1 = i BY <2>5
    <3> QED BY <2>5, <3>1
  <2>7. past[n] \in Editor(d)!ChartDocument /\ IsSnapshot(d, past[n]) BY <1>4, <2>2
  <2>8. Len(past') + Len(future') = Len(past) + Len(future) BY <2>2, <2>3, <2>5
  <2>9. \A i \in DOMAIN past' : past'[i] = chart \/ \E j \in DOMAIN past : past'[i] = past[j]
    BY <2>3
  <2>10. PICK x \in Editor(d)!ChartDocument : chart' = x /\ IsSnapshot(d, x) BY <2>1, <2>7
  <2>11. past' \in Seq(Editor(d)!ChartDocument) /\ future' \in Seq(Editor(d)!ChartDocument)
    BY <2>3, <2>5
  <2> QED BY <1>6, <2>6, <2>8, <2>9, <2>10, <2>11
<1>8. ASSUME Editor(d)!Redo PROVE CanvasSound(d)'
  <2>1. /\ future # <<>> /\ chart' = Head(future) /\ future' = Tail(future)
        /\ past' = Append(past, chart)
    BY <1>8 DEF Editor!Redo
  <2>2. /\ Len(future) \in Nat \ {0} /\ DOMAIN future = 1..Len(future)
        /\ Head(future) = future[1] /\ 1 \in DOMAIN future
        /\ Len(past) \in Nat /\ DOMAIN past = 1..Len(past)
    BY <1>4, <2>1
  <2>3. /\ future' \in Seq(Editor(d)!ChartDocument) /\ Len(future') = Len(future) - 1
        /\ \A i \in DOMAIN future' : i + 1 \in DOMAIN future /\ future'[i] = future[i + 1]
    BY <1>4, <2>1, <2>2
  <2>4. /\ past' \in Seq(Editor(d)!ChartDocument) /\ Len(past') = Len(past) + 1
        /\ \A i \in DOMAIN past' : past'[i] = chart \/ (i \in DOMAIN past /\ past'[i] = past[i])
    BY <1>4, <2>1, <2>2
  <2>5. future[1] \in Editor(d)!ChartDocument /\ IsSnapshot(d, future[1]) BY <1>4, <2>2
  <2>6. Len(past') + Len(future') = Len(past) + Len(future) BY <2>2, <2>3, <2>4
  <2>7. /\ \A i \in DOMAIN past' :
             past'[i] = chart \/ \E j \in DOMAIN past : past'[i] = past[j]
        /\ \A i \in DOMAIN future' :
             future'[i] = chart \/ \E j \in DOMAIN future : future'[i] = future[j]
    BY <2>3, <2>4
  <2>8. PICK x \in Editor(d)!ChartDocument : chart' = x /\ IsSnapshot(d, x)
    BY <2>1, <2>2, <2>5
  <2>9. past' \in Seq(Editor(d)!ChartDocument) /\ future' \in Seq(Editor(d)!ChartDocument)
    BY <2>3, <2>4
  <2> QED BY <1>6, <2>6, <2>7, <2>8, <2>9
<1>9. CanvasSound(d)' BY <1>5, <1>7, <1>8
<1> QED BY <1>2, <1>3, <1>9 DEF EditorIInv

(* The page starts again. *)
LEMMA EditorMounts ==
  ASSUME NEW d \in Canvas, EditorIInv(d), Editor(d)!Mount
  PROVE  EditorIInv(d)' /\ UploadsKept(d)
<1>1. /\ uploads \in [UploadsOf[d] -> UploadRecord(d)]
      /\ \A u \in UploadsOf[d] : uploads[u].at # "IDLE" => uploads[u].begun < Cardinality(Begun(d))
      /\ local \in Editor(d)!ChartDocument \union {NULL} /\ (local # NULL => ShowsItsOwn(d, local))
      /\ calls \in [CallsOf[d] -> CallRecord(d)]
  BY DEF EditorIInv, UploadsSound, KeptSound
<1>2. /\ uploads' = [u \in UploadsOf[d] |-> IF uploads[u].at = "IDLE" THEN Editor(d)!NewUpload
                                            ELSE Editor(d)!Dropped]
      /\ assetRequestIds' = [s \in Editor(d)!Slot |-> NULL]
      /\ calls' = [k \in CallsOf[d] |-> IF calls[k].at = "IDLE" THEN calls[k]
                                        ELSE [calls[k] EXCEPT !.at = "DONE", !.chart = NULL]]
      /\ local' = local /\ store' = store
  BY DEF Editor!Mount
<1>3. /\ Editor(d)!NewUpload \in UploadRecord(d) /\ Editor(d)!NewUpload.at = "IDLE"
      /\ Editor(d)!Dropped \in UploadRecord(d) /\ Editor(d)!Dropped.at = "DROPPED"
      /\ Editor(d)!Dropped.id = NULL /\ Editor(d)!Dropped.begun = 0
  BY DEF Editor!NewUpload, Editor!Dropped, UploadRecord
<1>4. \A u \in UploadsOf[d] :
        /\ uploads'[u] \in UploadRecord(d)
        /\ uploads[u].at = "IDLE" => uploads'[u].at = "IDLE"
        /\ uploads[u].at # "IDLE" =>
             uploads'[u].at = "DROPPED" /\ uploads'[u].id = NULL /\ uploads'[u].begun = 0
  BY <1>2, <1>3
<1>5. uploads' \in [UploadsOf[d] -> UploadRecord(d)] BY <1>2, <1>3
<1>6. UploadsKept(d) BY <1>4 DEF UploadsKept
<1>7. UploadsSound(d)'
  <2>1. Begun(d)' = Begun(d) BY <1>4 DEF Begun
  <2>2. ASSUME NEW u \in UploadsOf[d], uploads'[u].at # "IDLE"
        PROVE  uploads'[u].begun < Cardinality(Begun(d))
    <3>1. u \in Begun(d) /\ uploads'[u].begun = 0 BY <1>4, <2>2 DEF Begun
    <3>2. IsFiniteSet(Begun(d)) BY EditorConstants, FS_Subset DEF Begun
    <3>3. Cardinality(Begun(d)) \in Nat /\ Cardinality(Begun(d)) # 0
      BY <3>1, <3>2, FS_CardinalityType, FS_EmptySet
    <3> QED BY <3>1, <3>3
  <2>3. \A u \in UploadsOf[d] : uploads'[u].at # "SENT" BY <1>4
  <2>4. /\ assetRequestIds' \in [Editor(d)!Slot -> UploadsOf[d] \union {NULL}]
        /\ \A s \in Editor(d)!Slot : assetRequestIds'[s] = NULL
    BY <1>2
  <2> QED BY <1>5, <2>1, <2>2, <2>3, <2>4 DEF UploadsSound
<1>8. KeptSound(d)'
  <2>1. ASSUME NEW k \in CallsOf[d]
        PROVE  /\ calls'[k] \in CallRecord(d)
               /\ calls'[k].at \in {"IDLE", "DONE"}
               /\ calls'[k].chart \in {calls[k].chart, NULL}
    BY <1>1, <1>2 DEF CallRecord
  <2>2. calls' \in [CallsOf[d] -> CallRecord(d)] BY <1>2, <2>1
  <2>3. ASSUME NEW k \in CallsOf[d], calls[k].chart # NULL PROVE ShowsItsOwn(d, calls[k].chart)
    BY <2>3 DEF EditorIInv, KeptSound, CallSound
  <2>4. ASSUME NEW k \in CallsOf[d] PROVE CallSound(d, calls[k])'
    <3>1. PICK c : c = calls'[k].chart OBVIOUS
    <3>2. c # NULL => ShowsItsOwn(d, c)'
      <4> SUFFICES ASSUME c # NULL PROVE ShowsItsOwn(d, c)' OBVIOUS
      <4>1. c = calls[k].chart BY <2>1, <3>1
      <4>2. ShowsItsOwn(d, c) BY <2>3, <4>1
      <4> QED BY <1>6, <4>2, StillShows
    <3> QED BY <2>1, <3>1, <3>2 DEF CallSound, ShowsItsOwn
  <2>5. local # NULL => ShowsItsOwn(d, local)'
    BY <1>1, <1>2, <1>6 DEF ShowsItsOwn, UploadsKept
  <2>6. ASSUME NEW c \in ChartsOf[d], store[c] # NULL PROVE ShowsItsOwn(d, store[c])'
    <3>1. PICK x : x = store[c] OBVIOUS
    <3>2. ShowsItsOwn(d, x) BY <2>6, <3>1 DEF EditorIInv, KeptSound
    <3>3. ShowsItsOwn(d, x)' BY <1>6, <3>2, StillShows
    <3> QED BY <1>2, <3>1, <3>3 DEF ShowsItsOwn
  <2> QED BY <1>2, <2>2, <2>4, <2>5, <2>6 DEF EditorIInv, KeptSound
<1>9. CanvasSound(d)'
  <2>1. PICK c : c = chart' OBVIOUS
  <2>2. c = (IF local # NULL THEN local ELSE Editor(d)!Template) BY <2>1 DEF Editor!Mount
  <2>3. Editor(d)!Template \in Editor(d)!ChartDocument
    BY EditorConstants DEF Editor!Template, Editor!ChartDocument
  <2>4. ShowsItsOwn(d, Editor(d)!Template)
    BY EditorConstants DEF ShowsItsOwn, Editor!Template
  <2>5. c \in Editor(d)!ChartDocument /\ ShowsItsOwn(d, c) BY <1>1, <2>2, <2>3, <2>4
  <2>6. ShowsItsOwn(d, c)' BY <1>6, <2>5, StillShows
  <2>7. past' = <<>> /\ future' = <<>> /\ chartGeneration' \in Nat BY DEF Editor!Mount
  <2> QED BY <2>1, <2>5, <2>6, <2>7, CanvasLoaded
<1> QED BY <1>6, <1>7, <1>8, <1>9 DEF EditorIInv


(* The editor counts as this module does. *)
LEMMA EditorCounts ==
  ASSUME NEW d \in Canvas, NEW S PROVE Editor(d)!Cardinality(S) = Cardinality(S)
  BY DEF Cardinality, Editor!Cardinality

(* An upload begins. *)
LEMMA EditorBegins ==
  ASSUME NEW d \in Canvas, EditorIInv(d), NEW u \in UploadsOf[d], NEW s \in Editor(d)!Slot,
         Editor(d)!BeginAssetRequest(u, s)
  PROVE  EditorIInv(d)' /\ UploadsKept(d)
<1> DEFINE number == Cardinality(Begun(d))
<1>1. /\ uploads \in [UploadsOf[d] -> UploadRecord(d)]
      /\ assetRequestIds \in [Editor(d)!Slot -> UploadsOf[d] \union {NULL}]
      /\ chart \in Editor(d)!ChartDocument /\ chartGeneration \in Nat
  BY DEF EditorIInv, UploadsSound, CanvasSound
<1>2. IsFiniteSet(Begun(d)) /\ number \in Nat
  BY EditorConstants, FS_Subset, FS_CardinalityType DEF Begun
<1>3. PICK record : record = [at |-> "SENT", slot |-> s, replaces |-> chart.hrefs[s] # NULL,
                              id |-> chart.id, generation |-> chartGeneration, begun |-> number]
  OBVIOUS
<1>4. /\ uploads[u].at = "IDLE"
      /\ uploads' = [uploads EXCEPT ![u] = record]
      /\ assetRequestIds' = [assetRequestIds EXCEPT ![s] = u]
      /\ UNCHANGED <<calls, local, store>> /\ UNCHANGED <<chart, past, future>>
      /\ chartGeneration' = chartGeneration
  <2>1. Begun(d) = {w \in UploadsOf[d] : uploads[w].at # "IDLE"} BY DEF Begun
  <2> HIDE DEF number
  <2>2. number = Cardinality({w \in UploadsOf[d] : uploads[w].at # "IDLE"}) BY <2>1 DEF number
  <2>3. /\ uploads[u].at = "IDLE"
        /\ assetRequestIds' = [assetRequestIds EXCEPT ![s] = u]
        /\ UNCHANGED <<calls, local, store>> /\ UNCHANGED <<chart, past, future>>
        /\ chartGeneration' = chartGeneration
    BY DEF Editor!BeginAssetRequest
  <2>4. uploads' = [uploads EXCEPT
          ![u] = [at |-> "SENT", slot |-> s, replaces |-> chart.hrefs[s] # NULL, id |-> chart.id,
                  generation |-> chartGeneration,
                  begun |-> Editor(d)!Cardinality({w \in UploadsOf[d] : uploads[w].at # "IDLE"})]]
    BY Zenon DEF Editor!BeginAssetRequest
  <2>5. number = Editor(d)!Cardinality({w \in UploadsOf[d] : uploads[w].at # "IDLE"})
    BY <2>2, EditorCounts
  <2> QED BY <1>3, <2>3, <2>4, <2>5
<1>5. record \in UploadRecord(d)
  BY <1>1, <1>2, <1>3 DEF UploadRecord, Editor!ChartDocument
<1>6. /\ uploads' \in [UploadsOf[d] -> UploadRecord(d)]
      /\ uploads'[u] = record /\ \A w \in UploadsOf[d] \ {u} : uploads'[w] = uploads[w]
      /\ assetRequestIds' \in [Editor(d)!Slot -> UploadsOf[d] \union {NULL}]
      /\ assetRequestIds'[s] = u
      /\ \A t \in Editor(d)!Slot \ {s} : assetRequestIds'[t] = assetRequestIds[t]
  BY <1>1, <1>4, <1>5
<1>7. UploadsKept(d) BY <1>4, <1>6 DEF UploadsKept
<1>8. Begun(d)' = Begun(d) \union {u} /\ u \notin Begun(d)
  BY <1>3, <1>4, <1>6 DEF Begun
<1>9. Cardinality(Begun(d)') = number + 1 BY <1>2, <1>8, FS_AddElement
<1>10. UploadsSound(d)'
  <2>1. ASSUME NEW w \in UploadsOf[d]
        PROVE  /\ uploads'[w].at = "SENT" => uploads'[w].slot \in Editor(d)!Slot
               /\ uploads'[w].at # "IDLE" => uploads'[w].begun < Cardinality(Begun(d)')
    <3>1. CASE w = u BY <1>2, <1>3, <1>6, <1>9, <3>1
    <3>2. CASE w # u
      <4>1. /\ uploads'[w] = uploads[w] /\ uploads[w].begun \in Nat
            /\ uploads[w].at = "SENT" => uploads[w].slot \in Editor(d)!Slot
            /\ uploads[w].at # "IDLE" => uploads[w].begun < number
        BY <1>1, <1>6, <3>2 DEF EditorIInv, UploadsSound, UploadRecord
      <4> QED BY <1>2, <1>9, <4>1
    <3> QED BY <3>1, <3>2
  <2>2. Awaits(d, s, u)'
    <3> SUFFICES ASSUME NEW w \in UploadsOf[d], uploads'[w].at = "LANDED"
                 PROVE  uploads'[w].begun < uploads'[u].begun
      BY <1>3, <1>4, <1>6 DEF Awaits
    <3>1. w # u BY <1>3, <1>6
    <3>2. uploads'[w] = uploads[w] /\ uploads[w].at # "IDLE" BY <1>6, <3>1
    <3> QED BY <1>3, <1>6, <3>2 DEF EditorIInv, UploadsSound
  <2>3. ASSUME NEW t \in Editor(d)!Slot, assetRequestIds'[t] # NULL
        PROVE  Awaits(d, t, assetRequestIds[t])'
    <3>1. CASE t = s BY <1>6, <2>2, <3>1 DEF Awaits
    <3>2. CASE t # s
      <4>1. PICK v : v = assetRequestIds[t] OBVIOUS
      <4>2. assetRequestIds'[t] = v /\ v \in UploadsOf[d] /\ Awaits(d, t, v)
        BY <1>1, <1>6, <2>3, <3>2, <4>1 DEF EditorIInv, UploadsSound
      <4>3. v # u BY <1>4, <4>2 DEF Awaits
      <4>4. Awaits(d, t, v)' BY <1>3, <1>4, <1>6, <4>2, <4>3 DEF Awaits
      <4> QED BY <4>2, <4>4 DEF Awaits
    <3> QED BY <3>1, <3>2
  <2> QED BY <1>6, <2>1, <2>3 DEF UploadsSound
<1> QED BY <1>4, <1>7, <1>10, CanvasStill, KeptStill DEF EditorIInv

(* An upload is answered: it lands on the chart, or is dropped.            *)
Ended(d, u, at) ==
  /\ uploads[u].at = "SENT" /\ at \in {"LANDED", "DROPPED"}
  /\ chart'.id = chart.id /\ chartGeneration' = chartGeneration
  /\ uploads' \in [UploadsOf[d] -> UploadRecord(d)] /\ uploads'[u].at = at
  /\ at = "LANDED" => uploads'[u] = [uploads[u] EXCEPT !.at = "LANDED"]
  /\ at = "DROPPED" => uploads'[u].id = NULL /\ uploads'[u].begun = 0
  /\ \A w \in UploadsOf[d] \ {u} : uploads'[w] = uploads[w]
  /\ assetRequestIds' \in [Editor(d)!Slot -> UploadsOf[d] \union {NULL}]
  /\ \A s \in Editor(d)!Slot :
       /\ assetRequestIds'[s] \in {assetRequestIds[s], NULL}
       /\ assetRequestIds[s] = u => assetRequestIds'[s] = NULL
  /\ at = "LANDED" => assetRequestIds[uploads[u].slot] = u

LEMMA UploadEnded ==
  ASSUME NEW d \in Canvas, UploadsSound(d), NEW u \in UploadsOf[d],
         NEW at, Ended(d, u, at)
  PROVE  UploadsSound(d)' /\ UploadsKept(d) /\ Editor(d)!TakesTheNewest
<1>1. uploads \in [UploadsOf[d] -> UploadRecord(d)] /\ uploads[u] \in UploadRecord(d)
  BY DEF UploadsSound
<1>2. /\ uploads'[u].at = at /\ at \notin {"IDLE", "SENT"} /\ uploads[u].at = "SENT"
      /\ uploads'[u].begun \in {uploads[u].begun, 0}
      /\ at = "LANDED" => uploads'[u].slot = uploads[u].slot
  BY <1>1 DEF Ended, UploadRecord
<1>3. UploadsKept(d) BY <1>2 DEF UploadsKept, Ended
<1>4. Begun(d)' = Begun(d) BY <1>2 DEF Begun, Ended
<1>5. ASSUME NEW w \in UploadsOf[d]
      PROVE  /\ uploads'[w].at = "SENT" => uploads'[w].slot \in Editor(d)!Slot
             /\ uploads'[w].at # "IDLE" => uploads'[w].begun < Cardinality(Begun(d))
  <2>1. CASE w = u
    <3>1. uploads[u].begun < Cardinality(Begun(d)) /\ uploads[u].begun \in Nat
      BY <1>1, <1>2 DEF UploadsSound, UploadRecord
    <3>2. Cardinality(Begun(d)) \in Nat
      BY EditorConstants, FS_Subset, FS_CardinalityType DEF Begun
    <3> QED BY <1>2, <2>1, <3>1, <3>2
  <2>2. CASE w # u BY <2>2 DEF UploadsSound, Ended
  <2> QED BY <2>1, <2>2
<1>6. ASSUME NEW s \in Editor(d)!Slot, assetRequestIds'[s] # NULL
      PROVE  Awaits(d, s, assetRequestIds[s])'
  <2>1. PICK v : v = assetRequestIds[s] OBVIOUS
  <2>2. v # u /\ assetRequestIds'[s] = v /\ v \in UploadsOf[d] /\ Awaits(d, s, v)
    BY <1>6, <2>1 DEF Ended, UploadsSound
  <2>3. at = "LANDED" => uploads[u].slot # s
    BY <2>1, <2>2 DEF Ended
  <2>4. Awaits(d, s, v)'
    BY <1>2, <2>2, <2>3 DEF Ended, Awaits
  <2> QED BY <2>2, <2>4 DEF Awaits
<1>7. UploadsSound(d)' BY <1>4, <1>5, <1>6 DEF UploadsSound, Ended
<1>8. Editor(d)!TakesTheNewest
  <2> SUFFICES ASSUME NEW x \in UploadsOf[d], NEW w \in UploadsOf[d],
                      uploads[x].at = "SENT", uploads'[x].at = "LANDED",
                      uploads[w].at = "LANDED", uploads[w].slot = uploads[x].slot
               PROVE  uploads[w].begun < uploads[x].begun
    BY DEF Editor!TakesTheNewest
  <2>1. x = u /\ at = "LANDED" BY <1>2 DEF Ended
  <2>2. uploads[u].slot \in Editor(d)!Slot /\ assetRequestIds[uploads[u].slot] = u
    BY <1>2, <2>1 DEF Ended, UploadsSound
  <2>3. u # NULL BY EditorConstants
  <2>4. Awaits(d, uploads[u].slot, u) BY <2>2, <2>3 DEF UploadsSound
  <2> QED BY <2>1, <2>4 DEF Awaits
<1> QED BY <1>3, <1>7, <1>8

LEMMA EditorAnswers ==
  ASSUME NEW d \in Canvas, EditorIInv(d), NEW u \in UploadsOf[d],
         Editor(d)!AssetUploaded(u) \/ Editor(d)!EndAssetRequest(u)
  PROVE  EditorIInv(d)' /\ Editor(d)!TakesTheNewest
<1> DEFINE s == uploads[u].slot
<1>1. /\ uploads \in [UploadsOf[d] -> UploadRecord(d)]
      /\ assetRequestIds \in [Editor(d)!Slot -> UploadsOf[d] \union {NULL}]
      /\ chart \in Editor(d)!ChartDocument /\ ShowsItsOwn(d, chart)
  BY DEF EditorIInv, UploadsSound, CanvasSound
<1>2. uploads[u].at = "SENT" /\ UNCHANGED <<calls, local, store>>
  BY DEF Editor!AssetUploaded, Editor!EndAssetRequest
<1>3. s \in Editor(d)!Slot BY <1>2 DEF EditorIInv, UploadsSound
<1>4. NULL \notin UploadsOf[d] BY EditorConstants
<1>5. \A t \in Editor(d)!Slot : assetRequestIds[t] = u => t = s
  BY <1>4 DEF EditorIInv, UploadsSound, Awaits
<1>6. /\ Editor(d)!Dropped \in UploadRecord(d) /\ Editor(d)!Dropped.at = "DROPPED"
      /\ Editor(d)!Dropped.id = NULL /\ Editor(d)!Dropped.begun = 0
  BY DEF Editor!NewUpload, Editor!Dropped, UploadRecord
<1> HIDE DEF s
<1>7. CASE /\ uploads' = [uploads EXCEPT ![u] = Editor(d)!Dropped]
           /\ \/ /\ assetRequestIds' = assetRequestIds /\ assetRequestIds[s] # u
              \/ assetRequestIds' = [assetRequestIds EXCEPT ![s] = NULL]
           /\ UNCHANGED <<chart, past, future>> /\ chartGeneration' = chartGeneration
  <2>1. Ended(d, u, "DROPPED") BY <1>1, <1>2, <1>3, <1>5, <1>6, <1>7 DEF Ended
  <2>2. UploadsSound(d)' /\ UploadsKept(d) /\ Editor(d)!TakesTheNewest
    BY <2>1, UploadEnded DEF EditorIInv
  <2> QED BY <1>2, <1>7, <2>2, CanvasStill, KeptStill DEF EditorIInv
<1>8. CASE /\ ~Editor(d)!Stale(u)
           /\ uploads' = [uploads EXCEPT ![u].at = "LANDED"]
           /\ assetRequestIds' = [assetRequestIds EXCEPT ![s] = NULL]
           /\ Editor(d)!PushHistory([chart EXCEPT !.hrefs[s] = u])
           /\ chartGeneration' = chartGeneration
  <2>1. assetRequestIds[s] = u /\ uploads[u].id = chart.id
    BY <1>8 DEF Editor!Stale, Editor!SameChart, s
  <2>2. Ended(d, u, "LANDED")
    <3>1. uploads'[u] = [uploads[u] EXCEPT !.at = "LANDED"] BY <1>1, <1>8
    <3>2. uploads'[u] \in UploadRecord(d) /\ uploads'[u].at = "LANDED"
      BY <1>1, <3>1 DEF UploadRecord
    <3>3. uploads' \in [UploadsOf[d] -> UploadRecord(d)]
      BY <1>1, <1>8, <3>2
    <3>4. chart'.id = chart.id BY <1>1, <1>3, <1>8, Redrawn DEF Editor!PushHistory
    <3> QED BY <1>1, <1>2, <1>3, <1>5, <1>8, <2>1, <3>1, <3>2, <3>3, <3>4 DEF Ended, s
  <2>3. UploadsSound(d)' /\ UploadsKept(d) /\ Editor(d)!TakesTheNewest
    BY <2>2, UploadEnded DEF EditorIInv
  <2>4. PICK n : n = [chart EXCEPT !.hrefs[s] = u] OBVIOUS
  <2>5. /\ n \in Editor(d)!ChartDocument
        /\ n.id = chart.id /\ n.draftRevision = chart.draftRevision /\ n.hrefs[s] = u
        /\ \A t \in Editor(d)!Slot \ {s} : n.hrefs[t] = chart.hrefs[t]
    BY <1>1, <1>3, <2>4 DEF Editor!ChartDocument
  <2>6. uploads'[u].at = "LANDED" /\ uploads'[u].id = chart.id
    BY <1>1, <1>8, <2>1 DEF UploadRecord
  <2>7. ShowsItsOwn(d, n)'
    <3> SUFFICES ASSUME NEW t \in Editor(d)!Slot, NEW w \in UploadsOf[d], n.hrefs[t] = w
                 PROVE  /\ uploads'[w].at \in {"LANDED", "DROPPED"}
                        /\ uploads'[w].id # NULL => uploads'[w].id = n.id
      BY DEF ShowsItsOwn
    <3>1. CASE t = s BY <2>5, <2>6, <3>1
    <3>2. CASE t # s
      <4>1. chart.hrefs[t] = w BY <2>5, <3>2
      <4> QED BY <1>1, <2>3, <2>5, <4>1 DEF ShowsItsOwn, UploadsKept
    <3> QED BY <3>1, <3>2
  <2>8. CanvasSound(d)'
    BY <1>8, <2>3, <2>4, <2>5, <2>7, CanvasPushed DEF EditorIInv
  <2> QED BY <1>2, <2>3, <2>8, KeptStill DEF EditorIInv
<1>9. Editor(d)!Stale(u) => assetRequestIds[s] # u
  BY <1>3, <1>4 DEF EditorIInv, UploadsSound, Awaits, Editor!Stale, Editor!SameChart, s
<1> QED
  BY <1>1, <1>3, <1>7, <1>8, <1>9
  DEF Editor!AssetUploaded, Editor!EndAssetRequest, Editor!editor, Editor!Stale, s


-----------------------------------------------------------------------------
(* The browser's copy and the store.  The canvas stays, or shows what a    *)
(* call brought; uploads stay.                                             *)
LEMMA EditorKeeps ==
  ASSUME NEW d \in Canvas, EditorIInv(d), UNCHANGED <<chart, past, future>>,
         chartGeneration' = chartGeneration, assetRequestIds' = assetRequestIds,
         uploads' = uploads
  PROVE  /\ CanvasSound(d)' /\ UploadsSound(d)' /\ UploadsKept(d)
         /\ Editor(d)!TakesTheNewest
<1>1. UploadsKept(d) BY DEF UploadsKept
<1>2. CanvasSound(d)' BY <1>1, CanvasStill DEF EditorIInv
<1>3. UploadsSound(d)'
  BY UploadsStill DEF EditorIInv, UploadsSound
<1>4. Editor(d)!TakesTheNewest BY DEF Editor!TakesTheNewest
<1> QED BY <1>1, <1>2, <1>3, <1>4

(* One call moves; the store keeps every chart it has, under its name. *)
LEMMA CallMoved ==
  ASSUME NEW d \in Canvas, KeptSound(d), uploads' = uploads, local' = local,
         NEW k \in CallsOf[d], NEW call \in CallRecord(d),
         calls' = [calls EXCEPT ![k] = call],
         store' \in [ChartsOf[d] -> Editor(d)!ChartDocument \union {NULL}],
         \A c \in ChartsOf[d] :
           /\ store[c] # NULL => store'[c] # NULL
           /\ store'[c] # NULL => store'[c].id = c /\ ShowsItsOwn(d, store[c])',
         CallSound(d, call)'
  PROVE  KeptSound(d)'
<1>1. /\ calls' \in [CallsOf[d] -> CallRecord(d)] /\ calls'[k] = call
      /\ \A q \in CallsOf[d] \ {k} : calls'[q] = calls[q]
  BY DEF KeptSound
<1>2. ASSUME NEW q \in CallsOf[d] PROVE CallSound(d, calls[q])'
  <2>1. CASE q = k BY <1>1, <2>1 DEF CallSound, ShowsItsOwn
  <2>2. CASE q # k
    <3>1. calls'[q] = calls[q] /\ CallSound(d, calls[q]) BY <1>1, <2>2 DEF KeptSound
    <3> QED BY <3>1 DEF CallSound, ShowsItsOwn
  <2> QED BY <2>1, <2>2
<1>3. local # NULL => ShowsItsOwn(d, local)' BY DEF KeptSound, ShowsItsOwn
<1> QED BY <1>1, <1>2, <1>3 DEF KeptSound

(* The same, with the store as it was. *)
LEMMA CallMovedAlone ==
  ASSUME NEW d \in Canvas, KeptSound(d), uploads' = uploads, local' = local, store' = store,
         NEW k \in CallsOf[d], NEW call \in CallRecord(d),
         calls' = [calls EXCEPT ![k] = call], CallSound(d, call)
  PROVE  KeptSound(d)'
<1>1. CallSound(d, call)' BY DEF CallSound, ShowsItsOwn
<1>2. \A c \in ChartsOf[d] :
        /\ store[c] # NULL => store'[c] # NULL
        /\ store'[c] # NULL => store'[c].id = c /\ ShowsItsOwn(d, store[c])'
  BY DEF KeptSound, ShowsItsOwn
<1>3. store' \in [ChartsOf[d] -> Editor(d)!ChartDocument \union {NULL}] BY DEF KeptSound
<1> QED BY <1>1, <1>2, <1>3, CallMoved

LEMMA EditorCalls ==
  ASSUME NEW d \in Canvas, EditorIInv(d), NEW k \in CallsOf[d],
         \/ \E op \in {"SAVE", "PUBLISH"} : Editor(d)!SendCall(k, op, chart)
         \/ \E c \in ChartsOf[d] : Editor(d)!SendCall(k, "LOAD", store[c])
         \/ Editor(d)!StoreAnswers(k)
         \/ Editor(d)!CallFails(k)
  PROVE  EditorIInv(d)' /\ Editor(d)!TakesTheNewest
<1>1. /\ UNCHANGED <<chart, past, future>> /\ chartGeneration' = chartGeneration
      /\ assetRequestIds' = assetRequestIds /\ uploads' = uploads
      /\ local' = local /\ store' = store
  BY DEF Editor!SendCall, Editor!StoreAnswers, Editor!CallFails
<1>2. CanvasSound(d)' /\ UploadsSound(d)' /\ Editor(d)!TakesTheNewest
  BY <1>1, EditorKeeps
<1>3. /\ chart \in Editor(d)!ChartDocument /\ ShowsItsOwn(d, chart)
      /\ calls \in [CallsOf[d] -> CallRecord(d)] /\ CallSound(d, calls[k])
      /\ store \in [ChartsOf[d] -> Editor(d)!ChartDocument \union {NULL}]
      /\ \A c \in ChartsOf[d] : store[c] # NULL => store[c].id = c /\ ShowsItsOwn(d, store[c])
      /\ NULL \notin Editor(d)!ChartDocument
  BY EditorConstants DEF EditorIInv, CanvasSound, KeptSound
<1>4. ASSUME NEW op \in {"SAVE", "PUBLISH", "LOAD"}, NEW sent \in Editor(d)!ChartDocument,
             ShowsItsOwn(d, sent),
             op = "LOAD" => sent.id \in ChartsOf[d] /\ store[sent.id] # NULL,
             Editor(d)!SendCall(k, op, sent)
      PROVE  KeptSound(d)'
  <2>1. PICK call : call = [at |-> "SENT", op |-> op, chart |-> sent] OBVIOUS
  <2>2. call \in CallRecord(d) /\ calls' = [calls EXCEPT ![k] = call]
    BY <1>4, <2>1 DEF CallRecord, Editor!SendCall
  <2>3. CallSound(d, call) BY <1>3, <1>4, <2>1 DEF CallSound
  <2> QED BY <1>1, <2>2, <2>3, CallMovedAlone DEF EditorIInv
<1>5. ASSUME NEW op \in {"SAVE", "PUBLISH"}, Editor(d)!SendCall(k, op, chart)
      PROVE  KeptSound(d)'
  BY <1>3, <1>4, <1>5
<1>6. ASSUME NEW c \in ChartsOf[d], Editor(d)!SendCall(k, "LOAD", store[c])
      PROVE  KeptSound(d)'
  <2>1. store[c] # NULL BY <1>6 DEF Editor!SendCall
  <2> QED BY <1>3, <1>4, <1>6, <2>1
<1>7. CASE Editor(d)!StoreAnswers(k)
  <2>1. /\ calls[k].at = "SAVED" \/ (calls[k].at = "SENT" /\ calls[k].op = "LOAD")
        /\ calls' = [calls EXCEPT ![k].at = "ANSWERED", ![k].chart = store[calls[k].chart.id]]
    BY <1>7 DEF Editor!StoreAnswers
  <2>2. PICK now : now = store[calls[k].chart.id] OBVIOUS
  <2>3. now \in Editor(d)!ChartDocument /\ ShowsItsOwn(d, now)
    BY <1>3, <2>1, <2>2 DEF CallSound
  <2>4. PICK call : call = [calls[k] EXCEPT !.at = "ANSWERED", !.chart = now] OBVIOUS
  <2>5. call \in CallRecord(d) /\ call.at = "ANSWERED" /\ call.chart = now
    BY ZenonT(60), <1>3, <2>3, <2>4 DEF CallRecord
  <2>6. calls' = [calls EXCEPT ![k] = call] BY <1>3, <2>1, <2>2, <2>4 DEF CallRecord
  <2>7. CallSound(d, call) BY <1>3, <2>3, <2>5 DEF CallSound
  <2> QED BY <1>1, <1>2, <2>5, <2>6, <2>7, CallMovedAlone DEF EditorIInv
<1>8. CASE Editor(d)!CallFails(k)
  <2>1. PICK call : call = [calls[k] EXCEPT !.at = "DONE", !.chart = NULL] OBVIOUS
  <2>2. call \in CallRecord(d) /\ call.at = "DONE" /\ call.chart = NULL
    BY ZenonT(60), <1>3, <2>1 DEF CallRecord
  <2>3. calls' = [calls EXCEPT ![k] = call]
    BY <1>3, <1>8, <2>1 DEF CallRecord, Editor!CallFails
  <2>4. CallSound(d, call) BY <2>2 DEF CallSound
  <2> QED BY <1>1, <1>2, <2>2, <2>3, <2>4, CallMovedAlone DEF EditorIInv
<1> QED BY <1>2, <1>5, <1>6, <1>7, <1>8 DEF EditorIInv

LEMMA EditorSaves ==
  ASSUME NEW d \in Canvas, EditorIInv(d), NEW k \in CallsOf[d], Editor(d)!StoreSaves(k)
  PROVE  EditorIInv(d)' /\ Editor(d)!TakesTheNewest
<1>1. /\ UNCHANGED <<chart, past, future>> /\ chartGeneration' = chartGeneration
      /\ assetRequestIds' = assetRequestIds /\ uploads' = uploads /\ local' = local
      /\ calls[k].at = "SENT" /\ calls[k].op # "LOAD"
  BY DEF Editor!StoreSaves
<1>2. CanvasSound(d)' /\ UploadsSound(d)' /\ Editor(d)!TakesTheNewest
  BY <1>1, EditorKeeps
<1>3. /\ calls \in [CallsOf[d] -> CallRecord(d)] /\ CallSound(d, calls[k])
      /\ store \in [ChartsOf[d] -> Editor(d)!ChartDocument \union {NULL}]
      /\ \A c \in ChartsOf[d] : store[c] # NULL => store[c].id = c /\ ShowsItsOwn(d, store[c])
      /\ NULL \notin Editor(d)!ChartDocument /\ NULL \notin ChartsOf[d]
  BY EditorConstants DEF EditorIInv, KeptSound
<1>4. PICK sent : sent = calls[k].chart OBVIOUS
<1>5. sent \in Editor(d)!ChartDocument /\ ShowsItsOwn(d, sent)
  BY <1>1, <1>3, <1>4 DEF CallSound, CallRecord
<1>6. CASE calls' = [calls EXCEPT ![k].at = "DONE", ![k].chart = NULL] /\ store' = store
  <2>1. PICK call : call = [calls[k] EXCEPT !.at = "DONE", !.chart = NULL] OBVIOUS
  <2>2. call \in CallRecord(d) /\ call.at = "DONE" /\ call.chart = NULL
    BY ZenonT(60), <1>3, <2>1 DEF CallRecord
  <2>3. calls' = [calls EXCEPT ![k] = call] BY <1>3, <1>6, <2>1 DEF CallRecord
  <2>4. CallSound(d, call) BY <2>2 DEF CallSound
  <2> QED BY <1>1, <1>2, <1>6, <2>2, <2>3, <2>4, CallMovedAlone DEF EditorIInv
<1>7. ASSUME NEW c \in ChartsOf[d], sent.id \in {c, NULL}, sent.draftRevision < MaxRevisionOf[d],
             NEW saved, saved = [sent EXCEPT !.id = c, !.draftRevision = @ + 1],
             store' = [store EXCEPT ![c] = saved], NEW at \in {"ANSWERED", "SAVED"},
             calls' = [calls EXCEPT ![k].at = at, ![k].chart = saved]
      PROVE  EditorIInv(d)' /\ Editor(d)!TakesTheNewest
  <2>1. /\ saved \in Editor(d)!ChartDocument /\ saved.id = c /\ saved.hrefs = sent.hrefs
        /\ saved # NULL
    <3>1. sent.draftRevision + 1 \in 0..MaxRevisionOf[d]
      BY <1>5, <1>7, EditorConstants DEF Editor!ChartDocument
    <3> QED BY <1>3, <1>5, <1>7, <3>1 DEF Editor!ChartDocument
  <2>2. ShowsItsOwn(d, saved)
    BY <1>5, <1>7, <2>1 DEF ShowsItsOwn
  <2>3. PICK call : call = [calls[k] EXCEPT !.at = at, !.chart = saved] OBVIOUS
  <2>4. call \in CallRecord(d) /\ call.at = at /\ call.chart = saved
    BY ZenonT(60), <1>3, <2>1, <2>3 DEF CallRecord
  <2>5. calls' = [calls EXCEPT ![k] = call] BY <1>3, <1>7, <2>3 DEF CallRecord
  <2>6. /\ store' \in [ChartsOf[d] -> Editor(d)!ChartDocument \union {NULL}]
        /\ store'[c] = saved /\ \A x \in ChartsOf[d] \ {c} : store'[x] = store[x]
    BY <1>3, <1>7, <2>1
  <2>7. ASSUME NEW x \in ChartsOf[d]
        PROVE  /\ store[x] # NULL => store'[x] # NULL
               /\ store'[x] # NULL => store'[x].id = x /\ ShowsItsOwn(d, store[x])'
    <3>1. PICK y : y = store'[x] OBVIOUS
    <3>2. y # NULL => y.id = x /\ ShowsItsOwn(d, y) BY <1>3, <2>1, <2>2, <2>6, <3>1
    <3>3. y # NULL => ShowsItsOwn(d, store[x])' BY <1>1, <3>1, <3>2 DEF ShowsItsOwn
    <3> QED BY <2>1, <2>6, <3>1, <3>2, <3>3
  <2>8. CallSound(d, call)'
    BY <1>1, <2>1, <2>2, <2>4, <2>6 DEF CallSound, ShowsItsOwn
  <2>9. KeptSound(d)' BY <1>1, <2>4, <2>5, <2>6, <2>7, <2>8, CallMoved DEF EditorIInv
  <2> QED BY <1>2, <2>9 DEF EditorIInv
<1> DEFINE keys == IF sent.id = NULL THEN {c \in ChartsOf[d] : store[c] = NULL} ELSE {sent.id}
           Saved(c) == [sent EXCEPT !.id = c, !.draftRevision = @ + 1]
           Reached == IF calls[k].op = "SAVE" THEN "ANSWERED" ELSE "SAVED"
<1>8. /\ sent.draftRevision < MaxRevisionOf[d]
      /\ \E c \in keys :
           \/ calls' = [calls EXCEPT ![k].at = "DONE", ![k].chart = NULL] /\ store' = store
           \/ /\ store' = [store EXCEPT ![c] = Saved(c)]
              /\ calls' = [calls EXCEPT ![k].at = Reached, ![k].chart = Saved(c)]
  BY <1>4 DEF Editor!StoreSaves
<1>9. PICK c \in keys :
        \/ calls' = [calls EXCEPT ![k].at = "DONE", ![k].chart = NULL] /\ store' = store
        \/ /\ store' = [store EXCEPT ![c] = Saved(c)]
           /\ calls' = [calls EXCEPT ![k].at = Reached, ![k].chart = Saved(c)]
  BY <1>8
<1>10. c \in ChartsOf[d] /\ sent.id \in {c, NULL}
  BY <1>5, <1>9 DEF Editor!ChartDocument
<1>11. CASE /\ store' = [store EXCEPT ![c] = Saved(c)]
            /\ calls' = [calls EXCEPT ![k].at = Reached, ![k].chart = Saved(c)]
  <2>1. PICK saved : saved = Saved(c) OBVIOUS
  <2>2. PICK at \in {"ANSWERED", "SAVED"} : at = Reached OBVIOUS
  <2> QED BY <1>7, <1>8, <1>10, <1>11, <2>1, <2>2
<1> QED BY <1>6, <1>9, <1>11

LEMMA EditorLoads ==
  ASSUME NEW d \in Canvas, EditorIInv(d), NEW k \in CallsOf[d], Editor(d)!Answered(k)
  PROVE  EditorIInv(d)' /\ Editor(d)!TakesTheNewest
<1>1. PICK c : c = calls[k].chart OBVIOUS
<1>2. /\ calls[k].at = "ANSWERED" /\ chart' = c /\ past' = <<>> /\ future' = <<>>
      /\ chartGeneration' = chartGeneration + 1
      /\ assetRequestIds' = [s \in Editor(d)!Slot |-> NULL]
      /\ local' \in {local, c} /\ uploads' = uploads /\ store' = store
      /\ calls' = [calls EXCEPT ![k].at = "DONE", ![k].chart = NULL]
  BY <1>1 DEF Editor!Answered, Editor!Load
<1>3. /\ calls \in [CallsOf[d] -> CallRecord(d)] /\ CallSound(d, calls[k])
      /\ chartGeneration \in Nat
  BY DEF EditorIInv, KeptSound, CanvasSound
<1>4. c \in Editor(d)!ChartDocument /\ ShowsItsOwn(d, c)
  BY <1>1, <1>2, <1>3 DEF CallSound, CallRecord
<1>5. UploadsSound(d)' /\ UploadsKept(d)
  BY <1>2, UploadsStill DEF EditorIInv
<1>6. ShowsItsOwn(d, c)' BY <1>4, <1>5, StillShows
<1>7. CanvasSound(d)' BY <1>2, <1>3, <1>4, <1>6, CanvasLoaded
<1>8. KeptSound(d)'
  <2>1. PICK call : call = [calls[k] EXCEPT !.at = "DONE", !.chart = NULL] OBVIOUS
  <2>2. call \in CallRecord(d) /\ call.at = "DONE" /\ call.chart = NULL
    BY <1>3, <2>1 DEF CallRecord
  <2>3. calls' = [calls EXCEPT ![k] = call] BY <1>2, <1>3, <2>1 DEF CallRecord
  <2>4. /\ calls' \in [CallsOf[d] -> CallRecord(d)] /\ calls'[k] = call
        /\ \A q \in CallsOf[d] \ {k} : calls'[q] = calls[q]
    BY <1>3, <2>2, <2>3
  <2>5. ASSUME NEW q \in CallsOf[d] PROVE CallSound(d, calls[q])'
    <3>1. CASE q = k BY <2>2, <2>4, <3>1 DEF CallSound
    <3>2. CASE q # k
      <4>1. calls'[q] = calls[q] /\ CallSound(d, calls[q])
        BY <2>4, <3>2 DEF EditorIInv, KeptSound
      <4> QED BY <1>2, <4>1 DEF CallSound, ShowsItsOwn
    <3> QED BY <3>1, <3>2
  <2>6. PICK l : l = local' OBVIOUS
  <2>7. l \in Editor(d)!ChartDocument \union {NULL} /\ (l # NULL => ShowsItsOwn(d, l))
    BY <1>2, <1>4, <2>6 DEF EditorIInv, KeptSound
  <2>8. l # NULL => ShowsItsOwn(d, local)' BY <1>2, <2>6, <2>7 DEF ShowsItsOwn
  <2>9. ASSUME NEW x \in ChartsOf[d], store[x] # NULL PROVE store[x].id = x /\ ShowsItsOwn(d, store[x])'
    BY <1>2, <2>9 DEF EditorIInv, KeptSound, ShowsItsOwn
  <2> QED BY <1>2, <2>4, <2>5, <2>6, <2>7, <2>8, <2>9 DEF EditorIInv, KeptSound
<1>9. Editor(d)!TakesTheNewest BY <1>2 DEF Editor!TakesTheNewest
<1> QED BY <1>5, <1>7, <1>8, <1>9 DEF EditorIInv

LEMMA EditorElsewhere ==
  ASSUME NEW d \in Canvas, EditorIInv(d),
         Editor(d)!SaveLocal \/ \E c \in ChartsOf[d] : Editor(d)!AnotherSave(c)
  PROVE  EditorIInv(d)' /\ Editor(d)!TakesTheNewest
<1>1. /\ UNCHANGED <<chart, past, future>> /\ chartGeneration' = chartGeneration
      /\ assetRequestIds' = assetRequestIds /\ uploads' = uploads /\ calls' = calls
  BY DEF Editor!SaveLocal, Editor!AnotherSave
<1>2. CanvasSound(d)' /\ UploadsSound(d)' /\ Editor(d)!TakesTheNewest
  BY <1>1, EditorKeeps
<1>3. local' = local \/ local' = chart BY DEF Editor!SaveLocal, Editor!AnotherSave
<1>4. /\ local' \in Editor(d)!ChartDocument \union {NULL}
      /\ local' # NULL => ShowsItsOwn(d, local)'
  <2>1. PICK l : l = local' OBVIOUS
  <2>2. l \in Editor(d)!ChartDocument \union {NULL} /\ (l # NULL => ShowsItsOwn(d, l))
    BY <1>3, <2>1 DEF EditorIInv, KeptSound, CanvasSound
  <2> QED BY <1>1, <2>1, <2>2 DEF ShowsItsOwn
<1>5. /\ store \in [ChartsOf[d] -> Editor(d)!ChartDocument \union {NULL}]
      /\ \A c \in ChartsOf[d] : store[c] # NULL => store[c].id = c /\ ShowsItsOwn(d, store[c])
      /\ NULL \notin Editor(d)!ChartDocument
  BY EditorConstants DEF EditorIInv, KeptSound
<1>6. /\ store' \in [ChartsOf[d] -> Editor(d)!ChartDocument \union {NULL}]
      /\ \A c \in ChartsOf[d] :
           /\ store[c] # NULL => store'[c] # NULL
           /\ store'[c] # NULL => store'[c].id = c /\ ShowsItsOwn(d, store[c])'
  <2>1. CASE store' = store BY <1>1, <1>5, <2>1 DEF ShowsItsOwn
  <2>2. ASSUME NEW c \in ChartsOf[d], Editor(d)!AnotherSave(c)
        PROVE  /\ store' \in [ChartsOf[d] -> Editor(d)!ChartDocument \union {NULL}]
               /\ \A x \in ChartsOf[d] :
                    /\ store[x] # NULL => store'[x] # NULL
                    /\ store'[x] # NULL => store'[x].id = x /\ ShowsItsOwn(d, store[x])'
    <3>1. PICK old : old = store[c] OBVIOUS
    <3>2. old \in Editor(d)!ChartDocument /\ old.draftRevision < MaxRevisionOf[d]
      BY <1>5, <2>2, <3>1 DEF Editor!AnotherSave
    <3>3. PICK saved : saved = [old EXCEPT !.draftRevision = @ + 1] OBVIOUS
    <3>4. /\ saved \in Editor(d)!ChartDocument /\ saved.id = old.id /\ saved.hrefs = old.hrefs
          /\ saved # NULL
      <4>1. old.draftRevision + 1 \in 0..MaxRevisionOf[d]
        BY <3>2, EditorConstants DEF Editor!ChartDocument
      <4> QED BY <1>5, <3>2, <3>3, <4>1 DEF Editor!ChartDocument
    <3>5. store' = [store EXCEPT ![c] = saved]
      BY <1>5, <2>2, <3>1, <3>3 DEF Editor!AnotherSave
    <3>6. /\ store'[c] = saved /\ \A x \in ChartsOf[d] \ {c} : store'[x] = store[x]
          /\ store' \in [ChartsOf[d] -> Editor(d)!ChartDocument \union {NULL}]
      BY <1>5, <3>4, <3>5
    <3>7. saved.id = c /\ ShowsItsOwn(d, saved)
      BY <1>5, <3>1, <3>2, <3>4 DEF ShowsItsOwn
    <3>8. ASSUME NEW x \in ChartsOf[d]
          PROVE  /\ store[x] # NULL => store'[x] # NULL
                 /\ store'[x] # NULL => store'[x].id = x /\ ShowsItsOwn(d, store[x])'
      <4>1. PICK y : y = store'[x] OBVIOUS
      <4>2. y # NULL => y.id = x /\ ShowsItsOwn(d, y) BY <1>5, <3>6, <3>7, <4>1
      <4>3. y # NULL => ShowsItsOwn(d, store[x])' BY <1>1, <4>1, <4>2 DEF ShowsItsOwn
      <4> QED BY <3>4, <3>6, <4>1, <4>2, <4>3
    <3> QED BY <3>6, <3>8
  <2> QED BY <2>1, <2>2 DEF Editor!SaveLocal
<1>7. ASSUME NEW k \in CallsOf[d] PROVE CallSound(d, calls[k])'
  BY <1>1, <1>6 DEF EditorIInv, KeptSound, CallSound, ShowsItsOwn
<1>8. KeptSound(d)' BY <1>1, <1>4, <1>6, <1>7 DEF EditorIInv, KeptSound
<1> QED BY <1>2, <1>8 DEF EditorIInv

-----------------------------------------------------------------------------
LEMMA EditorInit == ASSUME NEW d \in Canvas, Editor(d)!Init PROVE EditorIInv(d)
<1>1. /\ store \in [ChartsOf[d] ->
             {NULL} \union {[Editor(d)!Template EXCEPT !.id = c, !.draftRevision = 1] : c \in ChartsOf[d]}]
      /\ \A c \in ChartsOf[d] : store[c] # NULL => store[c].id = c
      /\ chart \in {Editor(d)!Template} \union ({store[c] : c \in ChartsOf[d]} \ {NULL})
      /\ past = <<>> /\ future = <<>> /\ chartGeneration \in {0, 1}
      /\ assetRequestIds = [s \in Editor(d)!Slot |-> NULL]
      /\ uploads = [u \in UploadsOf[d] |-> Editor(d)!NewUpload]
      /\ calls = [k \in CallsOf[d] |-> [at |-> "IDLE", op |-> "SAVE", chart |-> NULL]]
      /\ local = NULL
  BY DEF Editor!Init
<1>2. /\ Limit \in Nat \ {0} /\ MaxRevisionOf[d] \in Nat \ {0} /\ NULL \notin UploadsOf[d]
      /\ NULL \notin Editor(d)!ChartDocument
  BY EditorConstants
<1>3. /\ Editor(d)!Template \in Editor(d)!ChartDocument
      /\ \A s \in Editor(d)!Slot : Editor(d)!Template.hrefs[s] = NULL
  BY <1>2 DEF Editor!Template, Editor!ChartDocument
<1>4. ASSUME NEW c \in ChartsOf[d], NEW x,
             x = [Editor(d)!Template EXCEPT !.id = c, !.draftRevision = 1]
      PROVE  /\ x \in Editor(d)!ChartDocument
             /\ \A s \in Editor(d)!Slot : x.hrefs[s] = NULL
  <2>1. 1 \in 0..MaxRevisionOf[d] BY <1>2
  <2> QED BY <1>3, <1>4, <2>1 DEF Editor!ChartDocument
<1>5. ASSUME NEW x, \A s \in Editor(d)!Slot : x.hrefs[s] = NULL PROVE ShowsItsOwn(d, x)
  BY <1>2, <1>5 DEF ShowsItsOwn
<1> DEFINE New(c) == [Editor(d)!Template EXCEPT !.id = c, !.draftRevision = 1]
<1>6. ASSUME NEW c \in ChartsOf[d], store[c] # NULL
      PROVE  store[c] \in Editor(d)!ChartDocument /\ ShowsItsOwn(d, store[c])
  <2>1. store[c] \in {NULL} \union {New(a) : a \in ChartsOf[d]} BY <1>1
  <2>2. PICK a \in ChartsOf[d] : store[c] = New(a) BY <1>6, <2>1
  <2>3. PICK x : x = store[c] OBVIOUS
  <2>4. x \in Editor(d)!ChartDocument /\ \A s \in Editor(d)!Slot : x.hrefs[s] = NULL
    BY <1>4, <2>2, <2>3
  <2> QED BY <1>5, <2>3, <2>4
<1>7. store \in [ChartsOf[d] -> Editor(d)!ChartDocument \union {NULL}]
  BY <1>1, <1>6
<1>8. chart \in Editor(d)!ChartDocument /\ ShowsItsOwn(d, chart)
  <2>1. CASE chart = Editor(d)!Template BY <1>3, <1>5, <2>1
  <2>2. CASE chart # Editor(d)!Template
    <3>1. PICK c \in ChartsOf[d] : chart = store[c] /\ store[c] # NULL BY <1>1, <2>2
    <3> QED BY <1>6, <3>1
  <2> QED BY <2>1, <2>2
<1>9. CanvasSound(d)
  <2>1. /\ past \in Seq(Editor(d)!ChartDocument) /\ DOMAIN past = {} /\ Len(past) = 0
        /\ future \in Seq(Editor(d)!ChartDocument) /\ DOMAIN future = {} /\ Len(future) = 0
    BY <1>1, EmptyHistory
  <2>2. Len(past) + Len(future) <= Limit
    <3>1. Limit \in Nat /\ 0 + 0 <= Limit BY <1>2
    <3> QED BY <2>1, <3>1
  <2>3. chartGeneration \in Nat
    <3>1. chartGeneration \in {0, 1} BY <1>1
    <3> QED BY <3>1
  <2> QED BY <1>8, <2>1, <2>2, <2>3 DEF CanvasSound
<1>10. UploadsSound(d)
  <2>1. Editor(d)!NewUpload \in UploadRecord(d) /\ Editor(d)!NewUpload.at = "IDLE"
    BY DEF Editor!NewUpload, UploadRecord
  <2> QED BY <1>1, <2>1 DEF UploadsSound
<1>11. KeptSound(d)
  <2>1. [at |-> "IDLE", op |-> "SAVE", chart |-> NULL] \in CallRecord(d) BY DEF CallRecord
  <2> QED BY <1>1, <1>6, <1>7, <2>1 DEF KeptSound, CallSound
<1> QED BY <1>9, <1>10, <1>11 DEF EditorIInv

LEMMA EditorNext ==
  ASSUME NEW d \in Canvas, EditorIInv(d), Editor(d)!Next
  PROVE  EditorIInv(d)' /\ Editor(d)!TakesTheNewest
<1>1. ASSUME \/ \E s \in Editor(d)!Slot : Editor(d)!Commit(s)
             \/ Editor(d)!Undo \/ Editor(d)!Redo \/ Editor(d)!Mount
             \/ \E u \in UploadsOf[d], s \in Editor(d)!Slot : Editor(d)!BeginAssetRequest(u, s)
      PROVE  EditorIInv(d)' /\ Editor(d)!TakesTheNewest
  <2>1. EditorIInv(d)' BY <1>1, EditorDraws, EditorMounts, EditorBegins
  <2>2. Editor(d)!TakesTheNewest
    <3> SUFFICES ASSUME NEW u \in UploadsOf[d], uploads[u].at = "SENT" PROVE uploads'[u].at # "LANDED"
      BY DEF Editor!TakesTheNewest
    <3>1. CASE uploads' = uploads BY <3>1
    <3>2. CASE Editor(d)!Mount
      BY <3>2 DEF Editor!Mount, Editor!Dropped, Editor!NewUpload
    <3>3. ASSUME NEW w \in UploadsOf[d], NEW s \in Editor(d)!Slot, Editor(d)!BeginAssetRequest(w, s)
          PROVE  uploads'[u].at # "LANDED"
      <4>1. uploads[w].at = "IDLE" /\ w # u BY <3>3 DEF Editor!BeginAssetRequest
      <4> QED BY <3>3, <4>1 DEF Editor!BeginAssetRequest, EditorIInv, UploadsSound
    <3> QED BY <1>1, <3>1, <3>2, <3>3 DEF Editor!Commit, Editor!Undo, Editor!Redo
  <2> QED BY <2>1, <2>2
<1> QED BY <1>1, EditorAnswers, EditorCalls, EditorSaves, EditorLoads, EditorElsewhere
        DEF Editor!Next

LEMMA EditorStill ==
  ASSUME NEW d \in Canvas, EditorIInv(d), UNCHANGED editorVars
  PROVE  EditorIInv(d)' /\ Editor(d)!TakesTheNewest
<1>1. /\ UNCHANGED <<chart, past, future>> /\ chartGeneration' = chartGeneration
      /\ assetRequestIds' = assetRequestIds /\ uploads' = uploads
      /\ UNCHANGED <<calls, local, store>>
  BY DEF editorVars
<1>2. CanvasSound(d)' /\ UploadsSound(d)' /\ UploadsKept(d) /\ Editor(d)!TakesTheNewest
  BY <1>1, EditorKeeps
<1> QED BY <1>1, <1>2, KeptStill DEF EditorIInv

EditorsSound == \A d \in Canvas : component = d => EditorIInv(d)
NewestAreTaken == \A d \in Canvas : component = d => Editor(d)!TakesTheNewest

LEMMA EditorsNext ==
  ASSUME EditorsSound, [Next]_vars
  PROVE  EditorsSound' /\ NewestAreTaken
<1> SUFFICES ASSUME NEW d \in Canvas, component' = d \/ component = d
             PROVE  EditorIInv(d)' /\ Editor(d)!TakesTheNewest
  BY DEF EditorsSound, NewestAreTaken
<1>1. component = d /\ EditorIInv(d) BY DEF Next, vars, EditorsSound
<1>2. Editor(d)!Next \/ UNCHANGED editorVars
  BY <1>1 DEF Next, vars, designVars, Canvas
<1> QED BY <1>1, <1>2, EditorNext, EditorStill

LEMMA EditorsAlways == Spec => []EditorsSound
<1>1. Init => EditorsSound
  <2> SUFFICES ASSUME Init, NEW d \in Canvas, component = d PROVE EditorIInv(d)
    BY DEF EditorsSound
  <2>1. Editor(d)!Init BY DEF Init, Drawn
  <2> QED BY <2>1, EditorInit
<1>2. EditorsSound /\ [Next]_vars => EditorsSound' BY EditorsNext
<1> QED BY <1>1, <1>2, PTL DEF Spec

(* src/src/lib/seat-designer/use-editor.ts:188-247: undo, redo and uploads *)
(* that answer late stay within the chart they belong to, and of two       *)
(* uploads for one image the later one stays.                              *)
THEOREM DesignerKeepsToItsCharts == Spec => DesignerKeepsToItsChart
<1>1. EditorsSound => \A d \in Canvas : component = d =>
        Editor(d)!HistoryIsOfThisChart /\ Editor(d)!UploadsStayOnTheirChart
  <2> SUFFICES ASSUME NEW d \in Canvas, EditorIInv(d)
               PROVE  Editor(d)!HistoryIsOfThisChart /\ Editor(d)!UploadsStayOnTheirChart
    BY DEF EditorsSound
  <2>1. Editor(d)!HistoryIsOfThisChart
    BY DEF EditorIInv, CanvasSound, IsSnapshot, Editor!HistoryIsOfThisChart
  <2>2. Editor(d)!UploadsStayOnTheirChart
    BY DEF EditorIInv, CanvasSound, ShowsItsOwn, Editor!UploadsStayOnTheirChart
  <2> QED BY <2>1, <2>2
<1>2. Spec => [](\A d \in Canvas : component = d =>
        Editor(d)!HistoryIsOfThisChart /\ Editor(d)!UploadsStayOnTheirChart)
  BY <1>1, EditorsAlways, PTL
<1>3. EditorsSound /\ [Next]_vars => [\A d \in Canvas : component = d => Editor(d)!TakesTheNewest]_vars
  BY EditorsNext DEF NewestAreTaken
<1>4. Spec => [][\A d \in Canvas : component = d => Editor(d)!TakesTheNewest]_vars
  BY <1>3, EditorsAlways, PTL DEF Spec
<1> QED BY <1>2, <1>4, PTL DEF DesignerKeepsToItsChart

-----------------------------------------------------------------------------
(* The newer designer: its drawings stay whole.                            *)

LEMMA SketchNames ==
  ASSUME NEW d \in Sheets
  PROVE  /\ \A f : Sketch(d)!Range(f) = Range(f)
         /\ \A s, S : Sketch(d)!Only(s, S) = Only(s, S)
         /\ \A S, T : Sketch(d)!Bijection(S, T) = Bijection(S, T)
<1>1. \A f : Sketch(d)!Range(f) = Range(f) BY DEF Range, Sketch!Range
<1>2. \A s, S : Sketch(d)!Only(s, S) = Only(s, S) BY DEF Only, Sketch!Only
<1>3. \A S, T : Sketch(d)!Bijection(S, T) = Bijection(S, T)
  BY DEF Bijection, Sketch!Bijection, Injection, Sketch!Injection, Surjection, Sketch!Surjection,
         IsInjective, Sketch!IsInjective
<1> QED BY <1>1, <1>2, <1>3

(* What a drawn object, a canvas and a pending image are made of.          *)
DrawnObject(d) ==
  [kind : {"SECTION", "ROW", "IMAGE"}, floorId : FloorsOf[d],
   sectionId : ObjectsOf[d] \union {NULL}, locked : BOOLEAN, place : PlacesOf[d]]

Objects(d) == UNION {[S -> DrawnObject(d)] : S \in SUBSET ObjectsOf[d]}

CanvasRecord(d) ==
  [objects : Objects(d), selectedIds : SUBSET ObjectsOf[d], floors : Seq(FloorsOf[d]),
   activeFloorId : FloorsOf[d], activeSectionId : ObjectsOf[d] \union {NULL},
   referencePlan : PlansOf[d] \union {NULL, "first"}]

ImageRecord ==
  [at : {"IDLE", "SENT", "DONE"}, purpose : {"object", "reference"}, request : Nat]

(* An object that stands on floor f and, if in a section, in one of the    *)
(* objects that stands there too.                                          *)
Stands(objects, object, f) ==
  /\ object.floorId = f
  /\ object.sectionId # NULL =>
       /\ object.sectionId \in DOMAIN objects
       /\ objects[object.sectionId].kind = "SECTION"
       /\ objects[object.sectionId].floorId = f

(* Depths by which no section lies in itself, and what is selected lies    *)
(* below the section that is edited.                                       *)
Layered(s, depth) ==
  /\ \A o \in DOMAIN s.objects : s.objects[o].sectionId # NULL =>
       depth[s.objects[o].sectionId] < depth[o]
  /\ s.activeSectionId # NULL =>
       \A o \in s.selectedIds \intersect DOMAIN s.objects : depth[s.activeSectionId] < depth[o]

(* A canvas on which nothing is stranded, and on which deleting what is    *)
(* selected will strand nothing.                                           *)
CanvasWhole(d, s) ==
  /\ s \in CanvasRecord(d)
  /\ IsInjective(s.floors)
  /\ s.activeFloorId \in Range(s.floors)
  /\ \A o \in DOMAIN s.objects :
       /\ s.objects[o].floorId \in Range(s.floors)
       /\ Stands(s.objects, s.objects[o], s.objects[o].floorId)
  /\ s.activeSectionId # NULL =>
       /\ s.activeSectionId \in DOMAIN s.objects
       /\ s.objects[s.activeSectionId].kind = "SECTION"
       /\ s.objects[s.activeSectionId].floorId = s.activeFloorId
  /\ \A o \in s.selectedIds \intersect DOMAIN s.objects : s.objects[o].floorId = s.activeFloorId
  /\ \E depth \in [ObjectsOf[d] -> Nat] : Layered(s, depth)

(* A plan is shown only when its upload has answered.                      *)
PlanArrived(d, s) == \A u \in PlansOf[d] : s.referencePlan = u => images[u].at = "DONE"

(* A drag that no undo fell into: the canvas has the floors of the state   *)
(* it began in, and selects nothing else of it.                            *)
DragFits ==
  /\ canvas.floors = drag.origin.floors
  /\ canvas.activeFloorId = drag.origin.activeFloorId
  /\ canvas.activeSectionId = drag.origin.activeSectionId
  /\ canvas.selectedIds \intersect DOMAIN drag.origin.objects \subseteq drag.origin.selectedIds

Steps(d) ==
  /\ undoable \in Seq(CanvasRecord(d)) /\ redoable \in Seq(CanvasRecord(d))
  /\ Len(undoable) + Len(redoable) <= MaxStepsOf[d]

(* Whatever is shown or can be shown again.                                *)
Kept == {canvas} \union (IF drag = NULL THEN {} ELSE {drag.origin})
                 \union Range(undoable) \union Range(redoable)

CanvasesWhole(d) == \A s \in Kept : CanvasWhole(d, s)

PlansArrived(d) == \A s \in Kept : PlanArrived(d, s)

DragSound(d) ==
  /\ drag # NULL => drag.kind \in {"OBJECTS", "NODE"} /\ drag.objectId \in ObjectsOf[d]
  /\ drag # NULL /\ ~crossed => DragFits

ImagesSound(d) ==
  /\ referenceRequest \in Nat
  /\ images \in [PlansOf[d] -> ImageRecord]
  /\ \A u \in PlansOf[d] : images[u].request <= referenceRequest

SketchIInv(d) ==
  /\ Steps(d) /\ CanvasesWhole(d) /\ PlansArrived(d) /\ DragSound(d) /\ ImagesSound(d)
  /\ copiedObjects \in Objects(d) /\ crossed \in BOOLEAN

-----------------------------------------------------------------------------
(* What the designer's operators stand for.                                *)

LEMMA SketchConstants ==
  ASSUME NEW d \in Sheets
  PROVE  /\ NULL \notin ObjectsOf[d] /\ NULL \notin PlansOf[d] /\ "first" \notin PlansOf[d]
         /\ PlacesOf[d] # {} /\ NULL # "first"
         /\ MaxStepsOf[d] \in Nat
BY SketchAssumption

LEMMA CanvasFields ==
  ASSUME NEW d \in Sheets, NEW s, CanvasWhole(d, s)
  PROVE  /\ s \in CanvasRecord(d)
         /\ DOMAIN s.objects \subseteq ObjectsOf[d]
         /\ \A o \in DOMAIN s.objects : s.objects[o] \in DrawnObject(d)
         /\ s.objects \in [DOMAIN s.objects -> DrawnObject(d)]
         /\ s.selectedIds \subseteq ObjectsOf[d]
         /\ s.floors \in Seq(FloorsOf[d])
         /\ s.activeFloorId \in FloorsOf[d]
         /\ s.activeSectionId \in ObjectsOf[d] \union {NULL}
<1>1. s \in CanvasRecord(d) BY DEF CanvasWhole
<1>2. s.objects \in Objects(d) BY <1>1 DEF CanvasRecord
<1>3. PICK S \in SUBSET ObjectsOf[d] : s.objects \in [S -> DrawnObject(d)] BY <1>2 DEF Objects
<1>4. DOMAIN s.objects = S BY <1>3
<1> QED BY <1>1, <1>3, <1>4 DEF CanvasRecord

(* Of any objects a drawing can be made. *)
LEMMA ObjectsAre ==
  ASSUME NEW d \in Sheets, NEW S \in SUBSET ObjectsOf[d], NEW objects \in [S -> DrawnObject(d)]
  PROVE  objects \in Objects(d) /\ DOMAIN objects = S
BY DEF Objects

LEMMA SketchShown ==
  ASSUME NEW d \in Sheets PROVE Sketch(d)!Shown = Kept
<1>1. Sketch(d)!Snapshots = Range(undoable) \union Range(redoable)
  BY SketchNames DEF Sketch!Snapshots
<1> QED BY <1>1 DEF Sketch!Shown, Kept

LEMMA SketchSees ==
  ASSUME NEW d \in Sheets
  PROVE  /\ Sketch(d)!Selected = canvas.selectedIds \intersect DOMAIN canvas.objects
         /\ Sketch(d)!Unlocked =
              {o \in canvas.selectedIds \intersect DOMAIN canvas.objects : ~canvas.objects[o].locked}
         /\ Sketch(d)!Visible =
              {o \in DOMAIN canvas.objects :
                 /\ canvas.objects[o].floorId = canvas.activeFloorId
                 /\ canvas.activeSectionId # NULL =>
                      canvas.objects[o].sectionId = canvas.activeSectionId}
         /\ Sketch(d)!FreshObjects \subseteq ObjectsOf[d] \ DOMAIN copiedObjects
         /\ \A s \in Kept : Sketch(d)!FreshObjects \intersect DOMAIN s.objects = {}
         /\ Sketch(d)!FreshFloors \subseteq FloorsOf[d] \ Range(canvas.floors)
<1>1. \A s : Sketch(d)!Ids(s) = DOMAIN s.objects BY DEF Sketch!Ids
<1>2. Sketch(d)!Selected = canvas.selectedIds \intersect DOMAIN canvas.objects
  BY <1>1 DEF Sketch!Selected
<1>3. Sketch(d)!Unlocked =
        {o \in canvas.selectedIds \intersect DOMAIN canvas.objects : ~canvas.objects[o].locked}
  BY <1>2 DEF Sketch!Unlocked
<1>4. Sketch(d)!Visible =
        {o \in DOMAIN canvas.objects :
           /\ canvas.objects[o].floorId = canvas.activeFloorId
           /\ canvas.activeSectionId # NULL =>
                canvas.objects[o].sectionId = canvas.activeSectionId}
  BY <1>1 DEF Sketch!Visible
<1>5. /\ Sketch(d)!FreshObjects \subseteq ObjectsOf[d] \ DOMAIN copiedObjects
      /\ \A s \in Kept : Sketch(d)!FreshObjects \intersect DOMAIN s.objects = {}
  <2>1. Sketch(d)!FreshObjects =
          ObjectsOf[d] \ ((UNION {DOMAIN s.objects : s \in Kept}) \union DOMAIN copiedObjects)
    BY <1>1, SketchShown DEF Sketch!FreshObjects
  <2>2. ASSUME NEW s \in Kept PROVE Sketch(d)!FreshObjects \intersect DOMAIN s.objects = {}
    <3>1. DOMAIN s.objects \in {DOMAIN r.objects : r \in Kept} OBVIOUS
    <3>2. DOMAIN s.objects \subseteq UNION {DOMAIN r.objects : r \in Kept} BY <3>1
    <3> QED BY <2>1, <3>2
  <2>3. Sketch(d)!FreshObjects \subseteq ObjectsOf[d] \ DOMAIN copiedObjects
    <3>1. ASSUME NEW o \in Sketch(d)!FreshObjects
          PROVE  o \in ObjectsOf[d] /\ o \notin DOMAIN copiedObjects
      BY <2>1
    <3> QED BY <3>1, Zenon
  <2> QED BY <2>2, <2>3, Zenon
<1>6. Sketch(d)!FreshFloors \subseteq FloorsOf[d] \ Range(canvas.floors)
  <2>1. Sketch(d)!FreshFloors = FloorsOf[d] \ UNION {Range(s.floors) : s \in Kept}
    BY SketchNames, SketchShown DEF Sketch!FreshFloors
  <2>2. canvas \in Kept BY DEF Kept
  <2> QED BY <2>1, <2>2
<1> QED BY <1>2, <1>3, <1>4, <1>5, <1>6

-----------------------------------------------------------------------------
(* What may be done to a canvas without stranding anything.                *)

(* The objects stay where they are in floors and sections, and what is     *)
(* selected was selected before or lies where the editor is.               *)
LEMMA RedrawnWhole ==
  ASSUME NEW d \in Sheets, NEW s, CanvasWhole(d, s), NEW t \in CanvasRecord(d),
         t.floors = s.floors, t.activeFloorId = s.activeFloorId,
         t.activeSectionId = s.activeSectionId,
         DOMAIN t.objects = DOMAIN s.objects,
         \A o \in DOMAIN s.objects :
           /\ t.objects[o].kind = s.objects[o].kind
           /\ t.objects[o].floorId = s.objects[o].floorId
           /\ t.objects[o].sectionId = s.objects[o].sectionId,
         \A o \in t.selectedIds \intersect DOMAIN s.objects :
           \/ o \in s.selectedIds
           \/ /\ s.objects[o].floorId = s.activeFloorId
              /\ s.activeSectionId # NULL => s.objects[o].sectionId = s.activeSectionId
  PROVE  CanvasWhole(d, t)
<1>1. PICK depth \in [ObjectsOf[d] -> Nat] : Layered(s, depth) BY DEF CanvasWhole
<1>2. DOMAIN s.objects \subseteq ObjectsOf[d] /\ NULL \notin ObjectsOf[d]
  BY CanvasFields, SketchConstants
<1>3. \A o \in DOMAIN s.objects :
        /\ s.objects[o].floorId \in Range(s.floors)
        /\ Stands(s.objects, s.objects[o], s.objects[o].floorId)
  BY DEF CanvasWhole
<1>4. \A o \in DOMAIN t.objects :
        /\ t.objects[o].floorId \in Range(t.floors)
        /\ Stands(t.objects, t.objects[o], t.objects[o].floorId)
  BY <1>3 DEF Stands
<1>5. \A o \in t.selectedIds \intersect DOMAIN t.objects : t.objects[o].floorId = t.activeFloorId
  BY DEF CanvasWhole
<1>6. Layered(t, depth)
  <2>1. \A o \in DOMAIN t.objects : t.objects[o].sectionId # NULL =>
          depth[t.objects[o].sectionId] < depth[o]
    BY <1>1 DEF Layered
  <2>2. ASSUME t.activeSectionId # NULL, NEW o \in t.selectedIds \intersect DOMAIN t.objects
        PROVE  depth[t.activeSectionId] < depth[o]
    BY <1>1, <2>2 DEF Layered
  <2> QED BY <2>1, <2>2 DEF Layered
<1>7. t.activeSectionId # NULL =>
        /\ t.activeSectionId \in DOMAIN t.objects
        /\ t.objects[t.activeSectionId].kind = "SECTION"
        /\ t.objects[t.activeSectionId].floorId = t.activeFloorId
  BY DEF CanvasWhole
<1>8. IsInjective(t.floors) /\ t.activeFloorId \in Range(t.floors) BY DEF CanvasWhole
<1> QED BY <1>1, <1>4, <1>5, <1>6, <1>7, <1>8 DEF CanvasWhole

(* The editor goes elsewhere, to a section there or to none. *)
LEMMA Entered ==
  ASSUME NEW d \in Sheets, NEW s, CanvasWhole(d, s), NEW t \in CanvasRecord(d),
         t.objects = s.objects, t.floors = s.floors, t.activeFloorId \in Range(s.floors),
         t.activeSectionId # NULL =>
           /\ t.selectedIds = {}
           /\ t.activeSectionId \in DOMAIN s.objects
           /\ s.objects[t.activeSectionId].kind = "SECTION"
           /\ s.objects[t.activeSectionId].floorId = t.activeFloorId,
         \A o \in t.selectedIds \intersect DOMAIN s.objects : s.objects[o].floorId = t.activeFloorId
  PROVE  CanvasWhole(d, t)
<1>1. PICK depth \in [ObjectsOf[d] -> Nat] : Layered(s, depth) BY DEF CanvasWhole
<1>2. Layered(t, depth) BY <1>1 DEF Layered
<1> QED BY <1>1, <1>2 DEF CanvasWhole

(* New objects are put where the editor is, in a section there or in none. *)
LEMMA Added ==
  ASSUME NEW d \in Sheets, NEW s, CanvasWhole(d, s), NEW t \in CanvasRecord(d),
         NEW new \in Objects(d), DOMAIN new \intersect DOMAIN s.objects = {},
         \A o \in DOMAIN new : Stands(s.objects, new[o], s.activeFloorId),
         t.floors = s.floors, t.activeFloorId = s.activeFloorId,
         t.activeSectionId = s.activeSectionId, t.selectedIds = DOMAIN new,
         t.objects = [o \in DOMAIN s.objects \union DOMAIN new |->
                        IF o \in DOMAIN new THEN new[o] ELSE s.objects[o]]
  PROVE  CanvasWhole(d, t)
<1>1. PICK depth \in [ObjectsOf[d] -> Nat] : Layered(s, depth) BY DEF CanvasWhole
<1>2. DOMAIN s.objects \subseteq ObjectsOf[d] /\ NULL \notin ObjectsOf[d]
  BY CanvasFields, SketchConstants
<1>3. /\ \A o \in DOMAIN s.objects : t.objects[o] = s.objects[o] /\ o \in DOMAIN t.objects
      /\ \A o \in DOMAIN new : t.objects[o] = new[o] /\ o \in DOMAIN t.objects
      /\ \A o \in DOMAIN t.objects : o \in DOMAIN s.objects \/ o \in DOMAIN new
  OBVIOUS
<1>4. \A o \in DOMAIN s.objects :
        /\ s.objects[o].floorId \in Range(s.floors)
        /\ Stands(s.objects, s.objects[o], s.objects[o].floorId)
  BY DEF CanvasWhole
<1>5. \A o \in DOMAIN t.objects :
        /\ t.objects[o].floorId \in Range(t.floors)
        /\ Stands(t.objects, t.objects[o], t.objects[o].floorId)
  <2>1. ASSUME NEW o \in DOMAIN s.objects
        PROVE  /\ t.objects[o].floorId \in Range(t.floors)
               /\ Stands(t.objects, t.objects[o], t.objects[o].floorId)
    BY <1>3, <1>4, <2>1 DEF Stands
  <2>2. ASSUME NEW o \in DOMAIN new
        PROVE  /\ t.objects[o].floorId \in Range(t.floors)
               /\ Stands(t.objects, t.objects[o], t.objects[o].floorId)
    <3>1. s.activeFloorId \in Range(s.floors) BY DEF CanvasWhole
    <3> QED BY <1>3, <2>2, <3>1 DEF Stands
  <2> QED BY <1>3, <2>1, <2>2
<1>6. \A o \in t.selectedIds \intersect DOMAIN t.objects : t.objects[o].floorId = t.activeFloorId
  BY <1>3 DEF Stands
<1>7. t.activeSectionId # NULL =>
        /\ t.activeSectionId \in DOMAIN t.objects
        /\ t.objects[t.activeSectionId].kind = "SECTION"
        /\ t.objects[t.activeSectionId].floorId = t.activeFloorId
  BY <1>3 DEF CanvasWhole
<1>8. IsInjective(t.floors) /\ t.activeFloorId \in Range(t.floors) BY DEF CanvasWhole
<1> DEFINE Above(o) == IF o = NULL THEN 0 ELSE depth[o]
           deeper == [o \in ObjectsOf[d] |->
                        IF o \in DOMAIN new
                        THEN Above(new[o].sectionId) + Above(s.activeSectionId) + 1
                        ELSE depth[o]]
<1>9. /\ \A o \in DOMAIN s.objects : deeper[o] = depth[o]
      /\ s.activeSectionId # NULL => Above(s.activeSectionId) = deeper[s.activeSectionId]
      /\ \A o \in DOMAIN new :
           /\ deeper[o] = Above(new[o].sectionId) + Above(s.activeSectionId) + 1
           /\ Above(new[o].sectionId) \in Nat /\ Above(s.activeSectionId) \in Nat
           /\ new[o].sectionId # NULL =>
                new[o].sectionId \in DOMAIN s.objects
                /\ Above(new[o].sectionId) = deeper[new[o].sectionId]
  <2>1. s.activeSectionId # NULL => s.activeSectionId \in DOMAIN s.objects BY DEF CanvasWhole
  <2>2. \A o \in DOMAIN new : new[o].sectionId # NULL => new[o].sectionId \in DOMAIN s.objects
    BY DEF Stands
  <2>3. DOMAIN new \subseteq ObjectsOf[d] BY DEF Objects
  <2>4. \A o \in DOMAIN s.objects : depth[o] \in Nat /\ deeper[o] = depth[o] BY <1>1, <1>2
  <2> QED BY <1>2, <2>1, <2>2, <2>3, <2>4
<1>10. deeper \in [ObjectsOf[d] -> Nat]
  <2>1. ASSUME NEW o \in ObjectsOf[d] PROVE deeper[o] \in Nat
    <3>1. CASE o \in DOMAIN new
      <4>1. PICK a \in Nat, b \in Nat : deeper[o] = a + b + 1 BY <1>9, <3>1
      <4> QED BY <4>1
    <3>2. CASE o \notin DOMAIN new BY <1>1, <3>2
    <3> QED BY <3>1, <3>2
  <2> HIDE DEF Above
  <2>2. deeper = [o \in ObjectsOf[d] |-> deeper[o]] OBVIOUS
  <2> HIDE DEF deeper
  <2> QED BY <2>1, <2>2
<1> HIDE DEF deeper, Above
<1>11. Layered(t, deeper)
  <2>1. ASSUME NEW o \in DOMAIN t.objects, t.objects[o].sectionId # NULL
        PROVE  deeper[t.objects[o].sectionId] < deeper[o]
    <3>1. CASE o \in DOMAIN s.objects
      <4>1. t.objects[o].sectionId \in DOMAIN s.objects BY <1>3, <1>4, <2>1, <3>1 DEF Stands
      <4> QED BY <1>1, <1>3, <1>9, <2>1, <3>1, <4>1 DEF Layered
    <3>2. CASE o \in DOMAIN new
      BY <1>3, <1>9, <2>1, <3>2
    <3> QED BY <1>3, <2>1, <3>1, <3>2
  <2>2. ASSUME t.activeSectionId # NULL, NEW o \in t.selectedIds \intersect DOMAIN t.objects
        PROVE  deeper[t.activeSectionId] < deeper[o]
    BY <1>9, <2>2
  <2> QED BY <2>1, <2>2 DEF Layered
<1> QED BY <1>5, <1>6, <1>7, <1>8, <1>10, <1>11 DEF CanvasWhole

(* Objects go with all they contain, other than the section edited. *)
LEMMA Deleted ==
  ASSUME NEW d \in Sheets, NEW s, CanvasWhole(d, s), NEW t \in CanvasRecord(d), NEW gone,
         \A o \in DOMAIN s.objects : s.objects[o].sectionId \in gone => o \in gone,
         s.activeSectionId \notin gone,
         t.floors = s.floors, t.activeFloorId = s.activeFloorId,
         t.activeSectionId = s.activeSectionId, t.selectedIds = {},
         t.objects = [o \in DOMAIN s.objects \ gone |-> s.objects[o]]
  PROVE  CanvasWhole(d, t)
<1>1. PICK depth \in [ObjectsOf[d] -> Nat] : Layered(s, depth) BY DEF CanvasWhole
<1>2. \A o \in DOMAIN t.objects :
        /\ o \in DOMAIN s.objects /\ o \notin gone /\ t.objects[o] = s.objects[o]
  OBVIOUS
<1>3. \A o \in DOMAIN s.objects : o \notin gone => o \in DOMAIN t.objects /\ t.objects[o] = s.objects[o]
  OBVIOUS
<1>4. \A o \in DOMAIN s.objects :
        /\ s.objects[o].floorId \in Range(s.floors)
        /\ Stands(s.objects, s.objects[o], s.objects[o].floorId)
  BY DEF CanvasWhole
<1>5. ASSUME NEW o \in DOMAIN t.objects
      PROVE  /\ t.objects[o].floorId \in Range(t.floors)
             /\ Stands(t.objects, t.objects[o], t.objects[o].floorId)
  BY <1>2, <1>3, <1>4, <1>5 DEF Stands
<1>6. t.activeSectionId # NULL =>
        /\ t.activeSectionId \in DOMAIN t.objects
        /\ t.objects[t.activeSectionId].kind = "SECTION"
        /\ t.objects[t.activeSectionId].floorId = t.activeFloorId
  BY <1>3 DEF CanvasWhole
<1>7. IsInjective(t.floors) /\ t.activeFloorId \in Range(t.floors) BY DEF CanvasWhole
<1>8. Layered(t, depth) BY <1>1, <1>2 DEF Layered
<1> QED BY <1>1, <1>5, <1>6, <1>7, <1>8 DEF CanvasWhole

(* The floors that remain when one of several is removed. *)
FloorsWithout(d, floors, f, remaining) == remaining = Only(floors, FloorsOf[d] \ {f})

LEMMA FloorsRemain ==
  ASSUME NEW d \in Sheets, NEW s, CanvasWhole(d, s), NEW f \in FloorsOf[d], Len(s.floors) > 1,
         NEW remaining, FloorsWithout(d, s.floors, f, remaining)
  PROVE  /\ remaining \in Seq(FloorsOf[d]) /\ IsInjective(remaining)
         /\ Range(remaining) = Range(s.floors) \ {f}
         /\ Head(remaining) \in Range(remaining)
         /\ Head(remaining) \in FloorsOf[d]
<1>1. s.floors \in Seq(FloorsOf[d]) /\ IsInjective(s.floors) BY CanvasFields DEF CanvasWhole
<1>2. PICK floors : floors = s.floors OBVIOUS
<1>3. floors \in Seq(FloorsOf[d]) /\ IsInjective(floors) /\ Len(floors) \in Nat /\ Len(floors) > 1
      /\ DOMAIN floors = 1..Len(floors) /\ \A i \in 1..Len(floors) : floors[i] \in FloorsOf[d]
  BY <1>1, <1>2
<1>4. /\ remaining \in Seq(FloorsOf[d])
      /\ Range(remaining) = Range(floors) \intersect (FloorsOf[d] \ {f})
      /\ IsInjective(remaining)
  BY <1>2, <1>3, OnlyFacts DEF FloorsWithout
<1>5. Range(floors) \subseteq FloorsOf[d] BY <1>3 DEF Range
<1>6. Range(remaining) = Range(s.floors) \ {f} BY <1>2, <1>4, <1>5
<1>7. floors[1] \in Range(floors) /\ floors[2] \in Range(floors) /\ floors[1] # floors[2]
  <2>1. 1 \in DOMAIN floors /\ 2 \in DOMAIN floors BY <1>3
  <2>2. floors[1] # floors[2] BY <1>3, <2>1, SMT DEF IsInjective
  <2> QED BY <2>1, <2>2 DEF Range
<1>8. Range(remaining) # {}
  <2>1. \A g \in Range(floors) : g # f => g \in Range(remaining) BY <1>2, <1>6
  <2>2. floors[1] # f \/ floors[2] # f BY <1>7
  <2> QED BY <1>7, <2>1, <2>2
<1>9. /\ Len(remaining) \in Nat /\ DOMAIN remaining = 1..Len(remaining) BY <1>4
<1>10. 1 \in DOMAIN remaining
  <2>1. PICK g : g \in Range(remaining) BY <1>8
  <2>2. PICK i \in DOMAIN remaining : remaining[i] = g BY <2>1 DEF Range
  <2>3. i \in 1..Len(remaining) BY <1>9, <2>2
  <2>4. 1 <= Len(remaining) BY <1>9, <2>3
  <2>5. 1 \in 1..Len(remaining) BY <1>9, <2>4
  <2> QED BY <1>9, <2>5
<1>11. Head(remaining) = remaining[1] BY <1>4, <1>9, <1>10
<1>12. Head(remaining) \in Range(remaining) BY <1>10, <1>11 DEF Range
<1>13. Head(remaining) \in FloorsOf[d] BY <1>2, <1>5, <1>6, <1>12
<1> QED BY <1>4, <1>6, <1>12, <1>13

(* The objects of a floor that is removed move together. *)
WithoutFloor(s, t, f, fallback) ==
  /\ IsInjective(t.floors) /\ Range(t.floors) = Range(s.floors) \ {f}
  /\ fallback \in Range(t.floors)
  /\ t.activeFloorId = IF s.activeFloorId = f THEN fallback ELSE s.activeFloorId
  /\ t.activeSectionId = NULL /\ t.selectedIds = {}
  /\ DOMAIN t.objects = DOMAIN s.objects
  /\ \A o \in DOMAIN s.objects :
       t.objects[o] = IF s.objects[o].floorId = f
                      THEN [s.objects[o] EXCEPT !.floorId = fallback] ELSE s.objects[o]

LEMMA FloorRemoved ==
  ASSUME NEW d \in Sheets, NEW s, CanvasWhole(d, s), NEW t \in CanvasRecord(d),
         NEW f, NEW fallback, WithoutFloor(s, t, f, fallback)
  PROVE  CanvasWhole(d, t)
<1> USE DEF WithoutFloor
<1>1. PICK depth \in [ObjectsOf[d] -> Nat] : Layered(s, depth) BY DEF CanvasWhole
<1>2. \A o \in DOMAIN s.objects : s.objects[o] \in DrawnObject(d) BY CanvasFields
<1>3. \A o \in DOMAIN s.objects :
        /\ t.objects[o].kind = s.objects[o].kind
        /\ t.objects[o].sectionId = s.objects[o].sectionId
        /\ t.objects[o].floorId = IF s.objects[o].floorId = f THEN fallback ELSE s.objects[o].floorId
  BY <1>2 DEF DrawnObject
<1>4. \A o \in DOMAIN s.objects :
        /\ s.objects[o].floorId \in Range(s.floors)
        /\ Stands(s.objects, s.objects[o], s.objects[o].floorId)
  BY DEF CanvasWhole
<1>5. ASSUME NEW o \in DOMAIN t.objects
      PROVE  /\ t.objects[o].floorId \in Range(t.floors)
             /\ Stands(t.objects, t.objects[o], t.objects[o].floorId)
  <2>1. o \in DOMAIN s.objects OBVIOUS
  <2>2. t.objects[o].floorId \in Range(t.floors) BY <1>3, <1>4, <2>1
  <2>3. ASSUME s.objects[o].sectionId # NULL
        PROVE  /\ s.objects[o].sectionId \in DOMAIN s.objects
               /\ s.objects[s.objects[o].sectionId].kind = "SECTION"
               /\ s.objects[s.objects[o].sectionId].floorId = s.objects[o].floorId
    BY <1>4, <2>1, <2>3 DEF Stands
  <2>4. Stands(t.objects, t.objects[o], t.objects[o].floorId)
    BY <1>3, <2>1, <2>3 DEF Stands
  <2> QED BY <2>2, <2>4
<1>6. t.activeFloorId \in Range(t.floors) BY DEF CanvasWhole
<1>7. Layered(t, depth) BY <1>1, <1>3 DEF Layered
<1> QED BY <1>1, <1>5, <1>6, <1>7 DEF CanvasWhole

-----------------------------------------------------------------------------
(* The history.                                                            *)

LEMMA AppendKeeps ==
  ASSUME NEW T, NEW p \in Seq(T), NEW c \in T
  PROVE  /\ Append(p, c) \in Seq(T) /\ Len(Append(p, c)) = Len(p) + 1
         /\ Range(Append(p, c)) = Range(p) \union {c}
<1>1. /\ Len(p) \in Nat /\ DOMAIN p = 1..Len(p)
      /\ Append(p, c) \in Seq(T) /\ Len(Append(p, c)) = Len(p) + 1
      /\ DOMAIN Append(p, c) = 1..(Len(p) + 1)
      /\ \A i \in 1..Len(p) : Append(p, c)[i] = p[i]
      /\ Append(p, c)[Len(p) + 1] = c
  OBVIOUS
<1>2. PICK a : a = Append(p, c) OBVIOUS
<1>3. Range(a) = Range(p) \union {c} BY <1>1, <1>2, SMT DEF Range
<1> QED BY <1>1, <1>2, <1>3

LEMMA SequencesKeep ==
  ASSUME NEW T, NEW p \in Seq(T), NEW q \in Seq(T), NEW c \in T
  PROVE  /\ <<>> \in Seq(T) /\ Len(<<>>) = 0 /\ Range(<<>>) = {}
         /\ Append(p, c) \in Seq(T) /\ Len(Append(p, c)) = Len(p) + 1
         /\ Range(Append(p, c)) = Range(p) \union {c}
         /\ <<c>> \o q \in Seq(T) /\ Len(<<c>> \o q) = Len(q) + 1
         /\ Range(<<c>> \o q) = Range(q) \union {c}
<1>1. <<>> \in Seq(T) /\ Len(<<>>) = 0 /\ Range(<<>>) = {} BY DEF Range
<1>2. /\ Append(p, c) \in Seq(T) /\ Len(Append(p, c)) = Len(p) + 1
      /\ Range(Append(p, c)) = Range(p) \union {c}
  BY AppendKeeps
<1>3. /\ <<c>> \o q \in Seq(T) /\ Len(<<c>> \o q) = Len(q) + 1
      /\ Range(<<c>> \o q) = Range(q) \union {c}
  <2>1. /\ Len(q) \in Nat /\ DOMAIN q = 1..Len(q)
        /\ <<c>> \o q \in Seq(T) /\ Len(<<c>> \o q) = Len(q) + 1
        /\ DOMAIN (<<c>> \o q) = 1..(Len(q) + 1)
        /\ \A i \in 1..Len(q) : (<<c>> \o q)[i + 1] = q[i]
        /\ (<<c>> \o q)[1] = c
    OBVIOUS
  <2>2. PICK a : a = <<c>> \o q OBVIOUS
  <2>3. Range(a) \subseteq Range(q) \union {c}
    <3>1. ASSUME NEW i \in 1..(Len(q) + 1) PROVE a[i] \in Range(q) \union {c}
      <4>1. CASE i = 1 BY <2>1, <2>2, <4>1
      <4>2. CASE i # 1
        <5>1. i - 1 \in 1..Len(q) /\ (i - 1) + 1 = i BY <2>1, <4>2
        <5>2. a[i] = q[i - 1] BY <2>1, <2>2, <5>1
        <5> QED BY <2>1, <5>1, <5>2 DEF Range
      <4> QED BY <4>1, <4>2
    <3> QED BY <2>1, <2>2, <3>1 DEF Range
  <2>4. Range(q) \union {c} \subseteq Range(a)
    <3>1. c \in Range(a)
      <4>1. 1 \in DOMAIN a BY <2>1, <2>2
      <4> QED BY <2>1, <2>2, <4>1 DEF Range
    <3>2. ASSUME NEW i \in 1..Len(q) PROVE q[i] \in Range(a)
      <4>1. i + 1 \in DOMAIN a BY <2>1, <2>2
      <4> QED BY <2>1, <2>2, <4>1 DEF Range
    <3> QED BY <2>1, <3>1, <3>2 DEF Range
  <2> QED BY <2>1, <2>2, <2>3, <2>4
<1> QED BY <1>1, <1>2, <1>3

LEMMA HistoryKeeps ==
  ASSUME NEW d \in Sheets, NEW p \in Seq(CanvasRecord(d)), NEW c \in CanvasRecord(d)
  PROVE  /\ <<>> \in Seq(CanvasRecord(d)) /\ Len(<<>>) = 0 /\ Range(<<>>) = {}
         /\ Append(p, c) \in Seq(CanvasRecord(d)) /\ Len(Append(p, c)) = Len(p) + 1
         /\ Range(Append(p, c)) = Range(p) \union {c}
         /\ <<c>> \o p \in Seq(CanvasRecord(d)) /\ Len(<<c>> \o p) = Len(p) + 1
         /\ Range(<<c>> \o p) = Range(p) \union {c}
<1>1. PICK T : T = CanvasRecord(d) OBVIOUS
<1>2. p \in Seq(T) /\ c \in T BY <1>1
<1>3. /\ <<>> \in Seq(T) /\ Len(<<>>) = 0 /\ Range(<<>>) = {}
      /\ Append(p, c) \in Seq(T) /\ Len(Append(p, c)) = Len(p) + 1
      /\ Range(Append(p, c)) = Range(p) \union {c}
      /\ <<c>> \o p \in Seq(T) /\ Len(<<c>> \o p) = Len(p) + 1
      /\ Range(<<c>> \o p) = Range(p) \union {c}
  BY <1>2, SequencesKeep
<1> QED BY <1>1, <1>3

LEMMA SequencesGive ==
  ASSUME NEW T, NEW p \in Seq(T), p # <<>>
  PROVE  /\ p[Len(p)] \in T /\ p[Len(p)] \in Range(p)
         /\ SubSeq(p, 1, Len(p) - 1) \in Seq(T) /\ Len(SubSeq(p, 1, Len(p) - 1)) = Len(p) - 1
         /\ Range(SubSeq(p, 1, Len(p) - 1)) \subseteq Range(p)
         /\ Head(p) \in T /\ Head(p) \in Range(p)
         /\ Tail(p) \in Seq(T) /\ Len(Tail(p)) = Len(p) - 1
         /\ Range(Tail(p)) \subseteq Range(p)
<1>1. /\ Len(p) \in Nat \ {0} /\ DOMAIN p = 1..Len(p) /\ \A i \in 1..Len(p) : p[i] \in T
  OBVIOUS
<1>2. Len(p) \in 1..Len(p) /\ 1 \in 1..Len(p) BY <1>1
<1>3. p[Len(p)] \in Range(p) /\ p[1] \in Range(p) BY <1>1, <1>2 DEF Range
<1>4. Head(p) = p[1] OBVIOUS
<1>5. /\ SubSeq(p, 1, Len(p) - 1) \in Seq(T) /\ Len(SubSeq(p, 1, Len(p) - 1)) = Len(p) - 1
      /\ Range(SubSeq(p, 1, Len(p) - 1)) \subseteq Range(p)
  <2>1. PICK a : a = SubSeq(p, 1, Len(p) - 1) OBVIOUS
  <2>2. /\ a \in Seq(T) /\ Len(a) = Len(p) - 1 /\ DOMAIN a = 1..(Len(p) - 1)
        /\ \A i \in 1..(Len(p) - 1) : a[i] = p[i]
    BY <1>1, <2>1
  <2>3. Range(a) \subseteq Range(p) BY <1>1, <2>2, SMT DEF Range
  <2> QED BY <2>1, <2>2, <2>3
<1>6. /\ Tail(p) \in Seq(T) /\ Len(Tail(p)) = Len(p) - 1
      /\ Range(Tail(p)) \subseteq Range(p)
  <2>1. PICK a : a = Tail(p) OBVIOUS
  <2>2. /\ a \in Seq(T) /\ Len(a) = Len(p) - 1 /\ DOMAIN a = 1..(Len(p) - 1)
        /\ \A i \in 1..(Len(p) - 1) : a[i] = p[i + 1] /\ i + 1 \in 1..Len(p)
    BY <1>1, <2>1
  <2>3. Range(a) \subseteq Range(p) BY <1>1, <2>2, SMT DEF Range
  <2> QED BY <2>1, <2>2, <2>3
<1> QED BY <1>1, <1>2, <1>3, <1>4, <1>5, <1>6

(* What is shown after a step is the canvas or was there before. *)
LEMMA SketchMoved ==
  ASSUME NEW d \in Sheets, SketchIInv(d),
         CanvasWhole(d, canvas'),
         \A u \in PlansOf[d] : canvas'.referencePlan = u => images'[u].at = "DONE",
         \A u \in PlansOf[d] : images[u].at = "DONE" => images'[u].at = "DONE",
         Kept' \subseteq Kept \union {canvas'},
         Steps(d)', DragSound(d)', ImagesSound(d)',
         copiedObjects' \in Objects(d), crossed' \in BOOLEAN
  PROVE  SketchIInv(d)'
<1>1. \A s \in Kept : CanvasWhole(d, s) /\ PlanArrived(d, s)
  BY DEF SketchIInv, CanvasesWhole, PlansArrived
<1>2. \A s \in Kept' : CanvasWhole(d, s) BY <1>1
<1>3. ASSUME NEW s \in Kept', NEW u \in PlansOf[d], s.referencePlan = u
      PROVE  images'[u].at = "DONE"
  BY <1>1, <1>3 DEF PlanArrived
<1>4. CanvasesWhole(d)' BY <1>2 DEF CanvasesWhole, CanvasWhole, CanvasRecord, Objects, DrawnObject, Layered, Stands
<1>5. PlansArrived(d)' BY <1>3 DEF PlansArrived, PlanArrived
<1> QED BY <1>4, <1>5 DEF SketchIInv, Objects, DrawnObject

(* A step that commits. *)
LEMMA SketchCommitted ==
  ASSUME NEW d \in Sheets, SketchIInv(d),
         Len(undoable) < MaxStepsOf[d], undoable' = Append(undoable, canvas), redoable' = <<>>,
         CanvasWhole(d, canvas'), canvas'.referencePlan = canvas.referencePlan,
         \A u \in PlansOf[d] : images[u].at = "DONE" => images'[u].at = "DONE",
         drag' = drag, drag # NULL /\ DragFits => DragFits',
         crossed' = crossed, copiedObjects' = copiedObjects, ImagesSound(d)'
  PROVE  SketchIInv(d)'
<1>1. /\ undoable \in Seq(CanvasRecord(d)) /\ redoable \in Seq(CanvasRecord(d))
      /\ MaxStepsOf[d] \in Nat /\ Len(undoable) \in Nat
  BY SketchConstants DEF SketchIInv, Steps
<1>2. canvas \in Kept BY DEF Kept
<1>3. canvas \in CanvasRecord(d) BY <1>2 DEF SketchIInv, CanvasesWhole, CanvasWhole
<1>4. /\ undoable' \in Seq(CanvasRecord(d)) /\ Len(undoable') = Len(undoable) + 1
      /\ Range(undoable') = Range(undoable) \union {canvas}
      /\ redoable' \in Seq(CanvasRecord(d)) /\ Len(redoable') = 0 /\ Range(redoable') = {}
  <2>1. /\ <<>> \in Seq(CanvasRecord(d)) /\ Len(<<>>) = 0 /\ Range(<<>>) = {}
        /\ Append(undoable, canvas) \in Seq(CanvasRecord(d))
        /\ Len(Append(undoable, canvas)) = Len(undoable) + 1
        /\ Range(Append(undoable, canvas)) = Range(undoable) \union {canvas}
    BY <1>1, <1>3, HistoryKeeps, Zenon
  <2> QED BY <2>1, Zenon
<1>5. Steps(d)'
  <2>1. Len(undoable') + Len(redoable') <= MaxStepsOf[d] BY <1>1, <1>4
  <2> QED BY <1>4, <2>1 DEF Steps, CanvasRecord, Objects, DrawnObject
<1>6. Kept' \subseteq Kept \union {canvas'} BY <1>4 DEF Kept
<1>7. \A u \in PlansOf[d] : canvas'.referencePlan = u => images'[u].at = "DONE"
  BY <1>2 DEF SketchIInv, PlansArrived, PlanArrived
<1>8. DragSound(d)' BY DEF SketchIInv, DragSound
<1>9. copiedObjects' \in Objects(d) /\ crossed' \in BOOLEAN BY DEF SketchIInv
<1> QED BY <1>5, <1>6, <1>7, <1>8, <1>9, SketchMoved

(* A step that leaves the history, the clipboard and the images alone. *)
LEMMA SketchLooked ==
  ASSUME NEW d \in Sheets, SketchIInv(d),
         undoable' = undoable, redoable' = redoable,
         CanvasWhole(d, canvas'), canvas'.referencePlan = canvas.referencePlan,
         drag' = drag, drag # NULL /\ DragFits => DragFits',
         crossed' = crossed, copiedObjects' = copiedObjects,
         images' = images, referenceRequest' = referenceRequest
  PROVE  SketchIInv(d)'
<1>1. canvas \in Kept BY DEF Kept
<1>2. Steps(d)' BY DEF SketchIInv, Steps, CanvasRecord, Objects, DrawnObject
<1>3. Kept' \subseteq Kept \union {canvas'} BY DEF Kept
<1>4. \A u \in PlansOf[d] : canvas'.referencePlan = u => images'[u].at = "DONE"
  BY <1>1 DEF SketchIInv, PlansArrived, PlanArrived
<1>5. DragSound(d)' BY DEF SketchIInv, DragSound
<1>6. ImagesSound(d)' BY DEF SketchIInv, ImagesSound, ImageRecord
<1>7. copiedObjects' \in Objects(d) /\ crossed' \in BOOLEAN BY DEF SketchIInv
<1> QED BY <1>2, <1>3, <1>4, <1>5, <1>6, <1>7, SketchMoved

-----------------------------------------------------------------------------
(* The steps of the designer.                                              *)

LEMMA CanvasIsWhole ==
  ASSUME NEW d \in Sheets, SketchIInv(d)
  PROVE  /\ CanvasWhole(d, canvas) /\ canvas \in Kept
         /\ drag # NULL => CanvasWhole(d, drag.origin) /\ drag.origin \in Kept
BY DEF SketchIInv, CanvasesWhole, Kept

LEMMA SketchSelects ==
  ASSUME NEW d \in Sheets, SketchIInv(d),
         (\E ids \in SUBSET ObjectsOf[d] : Sketch(d)!SelectAt(ids)) \/ Sketch(d)!Escape
  PROVE  SketchIInv(d)'
<1>1. CanvasWhole(d, canvas) /\ canvas \in CanvasRecord(d) BY CanvasIsWhole DEF CanvasWhole
<1>2. ASSUME NEW ids \in SUBSET ObjectsOf[d], canvas' = [canvas EXCEPT !.selectedIds = ids],
             \A o \in ids \intersect DOMAIN canvas.objects :
               o \in canvas.selectedIds \/ o \in Sketch(d)!Visible
      PROVE  /\ CanvasWhole(d, canvas') /\ canvas'.referencePlan = canvas.referencePlan
             /\ canvas'.floors = canvas.floors /\ canvas'.activeFloorId = canvas.activeFloorId
             /\ canvas'.activeSectionId = canvas.activeSectionId
             /\ canvas'.selectedIds = ids
  <2>1. /\ canvas' \in CanvasRecord(d) /\ canvas'.objects = canvas.objects
        /\ canvas'.floors = canvas.floors /\ canvas'.activeFloorId = canvas.activeFloorId
        /\ canvas'.activeSectionId = canvas.activeSectionId /\ canvas'.selectedIds = ids
        /\ canvas'.referencePlan = canvas.referencePlan
    BY <1>1, <1>2 DEF CanvasRecord
  <2>2. \A o \in canvas'.selectedIds \intersect DOMAIN canvas.objects :
          \/ o \in canvas.selectedIds
          \/ /\ canvas.objects[o].floorId = canvas.activeFloorId
             /\ canvas.activeSectionId # NULL =>
                  canvas.objects[o].sectionId = canvas.activeSectionId
    BY <1>2, <2>1, SketchSees
  <2>3. PICK t : t = canvas' OBVIOUS
  <2>4. CanvasWhole(d, t) BY <1>1, <2>1, <2>2, <2>3, RedrawnWhole
  <2> QED BY <2>1, <2>3, <2>4
<1>3. ASSUME NEW ids \in SUBSET ObjectsOf[d], Sketch(d)!SelectAt(ids) PROVE SketchIInv(d)'
  <2>1. /\ drag = NULL /\ canvas' = [canvas EXCEPT !.selectedIds = ids]
        /\ undoable' = undoable /\ redoable' = redoable /\ drag' = drag
        /\ copiedObjects' = copiedObjects /\ images' = images
        /\ referenceRequest' = referenceRequest /\ crossed' = crossed
    BY <1>3 DEF Sketch!SelectAt, Sketch!MouseIsFree, Sketch!UNEDITED, Sketch!history, Sketch!answers
  <2>2. \A o \in ids \intersect DOMAIN canvas.objects :
          o \in canvas.selectedIds \/ o \in Sketch(d)!Visible
    BY <1>3 DEF Sketch!SelectAt
  <2> QED BY <1>2, <2>1, <2>2, SketchLooked
<1>4. ASSUME Sketch(d)!Escape PROVE SketchIInv(d)'
  <2>1. /\ canvas' = [canvas EXCEPT !.selectedIds = {}]
        /\ undoable' = undoable /\ redoable' = redoable /\ drag' = drag
        /\ copiedObjects' = copiedObjects /\ images' = images
        /\ referenceRequest' = referenceRequest /\ crossed' = crossed
    BY <1>4 DEF Sketch!Escape, Sketch!UNEDITED, Sketch!history, Sketch!answers
  <2>2. PICK none \in SUBSET ObjectsOf[d] : none = {} OBVIOUS
  <2>3. /\ CanvasWhole(d, canvas') /\ canvas'.referencePlan = canvas.referencePlan
        /\ canvas'.floors = canvas.floors /\ canvas'.activeFloorId = canvas.activeFloorId
        /\ canvas'.activeSectionId = canvas.activeSectionId
        /\ canvas'.selectedIds = none
    BY <1>2, <2>1, <2>2
  <2>4. DragFits => DragFits' BY <2>1, <2>2, <2>3 DEF DragFits
  <2> QED BY <2>1, <2>3, <2>4, SketchLooked
<1> QED BY <1>3, <1>4

LEMMA SketchGoes ==
  ASSUME NEW d \in Sheets, SketchIInv(d),
         \/ \E f \in FloorsOf[d] : Sketch(d)!SwitchFloor(f)
         \/ \E o \in ObjectsOf[d] : Sketch(d)!EnterSection(o)
         \/ Sketch(d)!LeaveSection
  PROVE  SketchIInv(d)'
<1>1. CanvasWhole(d, canvas) /\ canvas \in CanvasRecord(d) BY CanvasIsWhole DEF CanvasWhole
<1>2. /\ drag = NULL
      /\ undoable' = undoable /\ redoable' = redoable /\ drag' = drag
      /\ copiedObjects' = copiedObjects /\ images' = images
      /\ referenceRequest' = referenceRequest /\ crossed' = crossed
  BY DEF Sketch!SwitchFloor, Sketch!EnterSection, Sketch!LeaveSection, Sketch!MouseIsFree,
         Sketch!UNEDITED, Sketch!history, Sketch!answers
<1>3. SUFFICES CanvasWhole(d, canvas') /\ canvas'.referencePlan = canvas.referencePlan
  BY <1>2, SketchLooked
<1>4. PICK t : t = canvas' OBVIOUS
<1>5. ASSUME NEW f \in FloorsOf[d], Sketch(d)!SwitchFloor(f)
      PROVE  CanvasWhole(d, canvas') /\ canvas'.referencePlan = canvas.referencePlan
  <2>1. /\ f \in Range(canvas.floors)
        /\ canvas' = [canvas EXCEPT !.activeFloorId = f, !.activeSectionId = NULL, !.selectedIds = {}]
    BY <1>5, SketchNames DEF Sketch!SwitchFloor
  <2>2. /\ t \in CanvasRecord(d) /\ t.objects = canvas.objects /\ t.floors = canvas.floors
        /\ t.activeFloorId = f /\ t.activeSectionId = NULL /\ t.selectedIds = {}
        /\ t.referencePlan = canvas.referencePlan
    BY <1>1, <1>4, <2>1 DEF CanvasRecord
  <2>3. CanvasWhole(d, t) BY <1>1, <2>1, <2>2, Entered
  <2> QED BY <1>4, <2>2, <2>3
<1>6. ASSUME NEW o \in ObjectsOf[d], Sketch(d)!EnterSection(o)
      PROVE  CanvasWhole(d, canvas') /\ canvas'.referencePlan = canvas.referencePlan
  <2>1. /\ o \in canvas.selectedIds \intersect DOMAIN canvas.objects
        /\ canvas.objects[o].kind = "SECTION"
        /\ canvas' = [canvas EXCEPT !.activeSectionId = o, !.selectedIds = {}]
    BY <1>6, SketchSees DEF Sketch!EnterSection
  <2>2. /\ t \in CanvasRecord(d) /\ t.objects = canvas.objects /\ t.floors = canvas.floors
        /\ t.activeFloorId = canvas.activeFloorId /\ t.activeSectionId = o /\ t.selectedIds = {}
        /\ t.referencePlan = canvas.referencePlan
    BY <1>1, <1>4, <2>1 DEF CanvasRecord
  <2>3. canvas.objects[o].floorId = canvas.activeFloorId /\ canvas.activeFloorId \in Range(canvas.floors)
    BY <1>1, <2>1 DEF CanvasWhole
  <2>4. CanvasWhole(d, t) BY <1>1, <2>1, <2>2, <2>3, Entered
  <2> QED BY <1>4, <2>2, <2>4
<1>7. ASSUME Sketch(d)!LeaveSection
      PROVE  CanvasWhole(d, canvas') /\ canvas'.referencePlan = canvas.referencePlan
  <2>1. PICK o : o = canvas.activeSectionId OBVIOUS
  <2>2. /\ o \in DOMAIN canvas.objects
        /\ canvas' = [canvas EXCEPT !.activeSectionId = NULL, !.selectedIds = {o}]
    BY <1>7, <2>1 DEF Sketch!LeaveSection, Sketch!Ids
  <2>3. o \in ObjectsOf[d] /\ o # NULL BY <1>1, <2>2, CanvasFields, SketchConstants
  <2>4. /\ t \in CanvasRecord(d) /\ t.objects = canvas.objects /\ t.floors = canvas.floors
        /\ t.activeFloorId = canvas.activeFloorId /\ t.activeSectionId = NULL /\ t.selectedIds = {o}
        /\ t.referencePlan = canvas.referencePlan
    BY <1>1, <1>4, <2>2, <2>3 DEF CanvasRecord
  <2>5. canvas.objects[o].floorId = canvas.activeFloorId /\ canvas.activeFloorId \in Range(canvas.floors)
    BY <1>1, <2>1, <2>3 DEF CanvasWhole
  <2>6. CanvasWhole(d, t) BY <1>1, <2>4, <2>5, Entered
  <2> QED BY <1>4, <2>4, <2>6
<1> QED BY <1>5, <1>6, <1>7

(* The canvas with new objects on it. *)
LEMMA ObjectsAdded ==
  ASSUME NEW d \in Sheets, SketchIInv(d), NEW new \in Objects(d),
         DOMAIN new \subseteq Sketch(d)!FreshObjects,
         \A o \in DOMAIN new : Stands(canvas.objects, new[o], canvas.activeFloorId),
         Sketch(d)!Commit(Sketch(d)!AddObjects(canvas, new)),
         drag' = drag, crossed' = crossed, copiedObjects' = copiedObjects,
         \A u \in PlansOf[d] : images[u].at = "DONE" => images'[u].at = "DONE",
         ImagesSound(d)'
  PROVE  SketchIInv(d)'
<1>1. CanvasWhole(d, canvas) /\ canvas \in CanvasRecord(d) /\ canvas \in Kept
  BY CanvasIsWhole DEF CanvasWhole
<1>2. /\ Len(undoable) < MaxStepsOf[d] /\ undoable' = Append(undoable, canvas) /\ redoable' = <<>>
      /\ canvas' = Sketch(d)!AddObjects(canvas, new)
  BY DEF Sketch!Commit, Sketch!RoomForAStep
<1>3. PICK both : both = [o \in DOMAIN canvas.objects \union DOMAIN new |->
                            IF o \in DOMAIN new THEN new[o] ELSE canvas.objects[o]]
  OBVIOUS
<1>4. PICK t : t = canvas' OBVIOUS
<1>5. t = [canvas EXCEPT !.objects = both, !.selectedIds = DOMAIN new]
  BY <1>2, <1>3, <1>4 DEF Sketch!AddObjects, Sketch!Ids
<1>6. both \in Objects(d) /\ DOMAIN new \subseteq ObjectsOf[d]
  <2>1. /\ DOMAIN canvas.objects \subseteq ObjectsOf[d]
        /\ \A o \in DOMAIN canvas.objects : canvas.objects[o] \in DrawnObject(d)
    BY <1>1, CanvasFields
  <2>2. PICK S \in SUBSET ObjectsOf[d] : new \in [S -> DrawnObject(d)] BY DEF Objects
  <2>3. DOMAIN new = S /\ \A o \in S : new[o] \in DrawnObject(d) BY <2>2
  <2>4. both \in [DOMAIN canvas.objects \union S -> DrawnObject(d)] BY <1>3, <2>1, <2>3
  <2>5. DOMAIN canvas.objects \union S \in SUBSET ObjectsOf[d] BY <2>1
  <2> QED BY <2>3, <2>4, <2>5, ObjectsAre
<1>7. /\ t \in CanvasRecord(d) /\ t.objects = both /\ t.selectedIds = DOMAIN new
      /\ t.floors = canvas.floors /\ t.activeFloorId = canvas.activeFloorId
      /\ t.activeSectionId = canvas.activeSectionId /\ t.referencePlan = canvas.referencePlan
  BY <1>1, <1>5, <1>6 DEF CanvasRecord
<1>8. \A s \in Kept : DOMAIN new \intersect DOMAIN s.objects = {} BY SketchSees
<1>9. CanvasWhole(d, t) BY <1>1, <1>3, <1>7, <1>8, Added
<1>10. ASSUME drag # NULL, DragFits PROVE DragFits'
  <2>1. drag.origin \in Kept BY <1>10, CanvasIsWhole
  <2> QED BY <1>4, <1>7, <1>8, <1>10, <2>1 DEF DragFits
<1> QED BY <1>2, <1>4, <1>7, <1>9, <1>10, SketchCommitted

LEMMA CopiesAre ==
  ASSUME NEW d \in Sheets, NEW originals \in Objects(d),
         NEW copies \in Sketch(d)!Copies(originals)
  PROVE  /\ copies \in Objects(d) /\ DOMAIN copies \subseteq Sketch(d)!FreshObjects
         /\ \A o \in DOMAIN copies : \E p \in DOMAIN originals : copies[o] = originals[p]
<1>1. PICK S \in SUBSET ObjectsOf[d] : originals \in [S -> DrawnObject(d)] BY DEF Objects
<1>2. PICK new \in SUBSET Sketch(d)!FreshObjects :
        copies \in {[o \in new |-> originals[original[o]]] :
                      original \in Bijection(new, DOMAIN originals)}
  BY SketchNames DEF Sketch!Copies
<1>3. PICK original \in Bijection(new, DOMAIN originals) :
        copies = [o \in new |-> originals[original[o]]]
  BY <1>2
<1>4. original \in [new -> DOMAIN originals] BY <1>3 DEF Bijection, Injection
<1>5. DOMAIN copies = new /\ \A o \in new : copies[o] = originals[original[o]] BY <1>3
<1>6. \A o \in new : original[o] \in DOMAIN originals /\ copies[o] \in DrawnObject(d)
  BY <1>1, <1>4, <1>5
<1>7. new \in SUBSET ObjectsOf[d] BY SketchSees
<1>8. copies \in [new -> DrawnObject(d)] BY <1>3, <1>5, <1>6
<1>9. copies \in Objects(d) BY <1>7, <1>8, ObjectsAre
<1> QED BY <1>5, <1>6, <1>9

(* Where the editor is, an object can stand. *)
LEMMA EditorStands ==
  ASSUME NEW d \in Sheets, SketchIInv(d), NEW object,
         object.floorId = canvas.activeFloorId, object.sectionId = canvas.activeSectionId
  PROVE  Stands(canvas.objects, object, canvas.activeFloorId)
BY CanvasIsWhole DEF CanvasWhole, Stands

LEMMA SketchAdds ==
  ASSUME NEW d \in Sheets, SketchIInv(d),
         \/ \E ids \in SUBSET ObjectsOf[d], kind \in {"SECTION", "ROW"}, at \in PlacesOf[d] :
              Sketch(d)!Draw(ids, kind, at)
         \/ Sketch(d)!DuplicateSelected \/ Sketch(d)!PasteCopied
  PROVE  SketchIInv(d)'
<1>1. CanvasWhole(d, canvas) /\ canvas \in CanvasRecord(d) BY CanvasIsWhole DEF CanvasWhole
<1>2. /\ drag' = drag /\ copiedObjects' = copiedObjects /\ images' = images
      /\ referenceRequest' = referenceRequest /\ crossed' = crossed
  BY DEF Sketch!Draw, Sketch!DuplicateSelected, Sketch!PasteCopied, Sketch!answers
<1>3. ImagesSound(d)' BY <1>2 DEF SketchIInv, ImagesSound, ImageRecord
<1>4. SUFFICES \E new \in Objects(d) :
        /\ DOMAIN new \subseteq Sketch(d)!FreshObjects
        /\ \A o \in DOMAIN new : Stands(canvas.objects, new[o], canvas.activeFloorId)
        /\ Sketch(d)!Commit(Sketch(d)!AddObjects(canvas, new))
  BY <1>2, <1>3, ObjectsAdded
<1>5. ASSUME NEW ids \in SUBSET ObjectsOf[d], NEW kind \in {"SECTION", "ROW"},
             NEW at \in PlacesOf[d], Sketch(d)!Draw(ids, kind, at)
      PROVE  \E new \in Objects(d) :
        /\ DOMAIN new \subseteq Sketch(d)!FreshObjects
        /\ \A o \in DOMAIN new : Stands(canvas.objects, new[o], canvas.activeFloorId)
        /\ Sketch(d)!Commit(Sketch(d)!AddObjects(canvas, new))
  <2> DEFINE object == [kind |-> kind, floorId |-> canvas.activeFloorId,
                        sectionId |-> canvas.activeSectionId, locked |-> FALSE, place |-> at]
             new == [o \in ids |-> object]
  <2>1. object \in DrawnObject(d) BY <1>1, CanvasFields DEF DrawnObject
  <2>2. Stands(canvas.objects, object, canvas.activeFloorId) BY EditorStands
  <2>3. new \in Objects(d) /\ DOMAIN new = ids BY <2>1, ObjectsAre
  <2>4. ids \subseteq Sketch(d)!FreshObjects /\ Sketch(d)!Commit(Sketch(d)!AddObjects(canvas, new))
    BY <1>5 DEF Sketch!Draw
  <2>5. \A o \in ids : new[o] = object OBVIOUS
  <2> HIDE DEF new, object
  <2> QED BY <2>2, <2>3, <2>4, <2>5
<1>6. ASSUME Sketch(d)!DuplicateSelected
      PROVE  \E new \in Objects(d) :
        /\ DOMAIN new \subseteq Sketch(d)!FreshObjects
        /\ \A o \in DOMAIN new : Stands(canvas.objects, new[o], canvas.activeFloorId)
        /\ Sketch(d)!Commit(Sketch(d)!AddObjects(canvas, new))
  <2>1. PICK chosen : chosen = Sketch(d)!Unlocked OBVIOUS
  <2>2. PICK originals : originals = [o \in chosen |-> canvas.objects[o]] OBVIOUS
  <2>3. PICK copies \in Sketch(d)!Copies(originals) :
          Sketch(d)!Commit(Sketch(d)!AddObjects(canvas, copies))
    BY <1>6, <2>1, <2>2 DEF Sketch!DuplicateSelected
  <2>4. chosen \subseteq canvas.selectedIds \intersect DOMAIN canvas.objects BY <2>1, SketchSees
  <2>5. originals \in Objects(d) /\ DOMAIN originals = chosen
    <3>1. originals \in [chosen -> DrawnObject(d)] /\ chosen \in SUBSET ObjectsOf[d]
      BY <1>1, <2>2, <2>4, CanvasFields
    <3> QED BY <3>1, ObjectsAre
  <2>6. \A p \in chosen : Stands(canvas.objects, originals[p], canvas.activeFloorId)
    BY <1>1, <2>2, <2>4 DEF CanvasWhole
  <2> QED BY <2>3, <2>5, <2>6, CopiesAre
<1>7. ASSUME Sketch(d)!PasteCopied
      PROVE  \E new \in Objects(d) :
        /\ DOMAIN new \subseteq Sketch(d)!FreshObjects
        /\ \A o \in DOMAIN new : Stands(canvas.objects, new[o], canvas.activeFloorId)
        /\ Sketch(d)!Commit(Sketch(d)!AddObjects(canvas, new))
  <2>1. PICK copies \in Sketch(d)!Copies(copiedObjects) :
          Sketch(d)!Commit(Sketch(d)!AddObjects(canvas,
            [o \in DOMAIN copies |-> Sketch(d)!Pasted(copies[o])]))
    BY <1>7 DEF Sketch!PasteCopied
  <2>2. PICK new : new = [o \in DOMAIN copies |-> Sketch(d)!Pasted(copies[o])] OBVIOUS
  <2>3. copiedObjects \in Objects(d) BY DEF SketchIInv
  <2>4. copies \in Objects(d) /\ DOMAIN copies \subseteq Sketch(d)!FreshObjects
    BY <2>3, CopiesAre
  <2>5. PICK S \in SUBSET ObjectsOf[d] : copies \in [S -> DrawnObject(d)] BY <2>4 DEF Objects
  <2>6. DOMAIN copies = S /\ \A o \in S : copies[o] \in DrawnObject(d) BY <2>5
  <2>7. ASSUME NEW o \in S
        PROVE  /\ Sketch(d)!Pasted(copies[o]) \in DrawnObject(d)
               /\ Sketch(d)!Pasted(copies[o]).floorId = canvas.activeFloorId
               /\ Sketch(d)!Pasted(copies[o]).sectionId = canvas.activeSectionId
    <3>1. PICK object : object = copies[o] OBVIOUS
    <3>2. object \in DrawnObject(d) BY <2>6, <2>7, <3>1
    <3>3. /\ canvas.activeFloorId \in FloorsOf[d]
          /\ canvas.activeSectionId \in ObjectsOf[d] \union {NULL}
      BY <1>1, CanvasFields
    <3>4. Sketch(d)!Pasted(object) = [object EXCEPT !.floorId = canvas.activeFloorId,
                                                    !.sectionId = canvas.activeSectionId]
      BY DEF Sketch!Pasted, Sketch!Scoped
    <3> QED BY <3>1, <3>2, <3>3, <3>4 DEF DrawnObject
  <2>8. new \in [S -> DrawnObject(d)] BY <2>2, <2>6, <2>7
  <2>9. new \in Objects(d) /\ DOMAIN new = S BY <2>8, ObjectsAre
  <2>10. \A o \in S : Stands(canvas.objects, new[o], canvas.activeFloorId)
    BY <2>2, <2>6, <2>7, EditorStands
  <2> QED BY <2>1, <2>2, <2>4, <2>6, <2>9, <2>10
<1> QED BY <1>5, <1>6, <1>7

(* The canvas t has the objects of s, some of them changed in place. *)
SameObjects(s, t) ==
  /\ t.selectedIds = s.selectedIds /\ t.floors = s.floors
  /\ t.activeFloorId = s.activeFloorId /\ t.activeSectionId = s.activeSectionId
  /\ t.referencePlan = s.referencePlan
  /\ DOMAIN t.objects = DOMAIN s.objects
  /\ \A o \in DOMAIN s.objects : /\ t.objects[o].kind = s.objects[o].kind
                                 /\ t.objects[o].floorId = s.objects[o].floorId
                                 /\ t.objects[o].sectionId = s.objects[o].sectionId

LEMMA SameIsWhole ==
  ASSUME NEW d \in Sheets, NEW s, CanvasWhole(d, s), NEW t \in CanvasRecord(d), SameObjects(s, t)
  PROVE  CanvasWhole(d, t)
BY RedrawnWhole DEF SameObjects

(* Putting other values for objects of s. *)
LEMMA ObjectsRedrawn ==
  ASSUME NEW d \in Sheets, NEW s, CanvasWhole(d, s), NEW objects,
         DOMAIN objects = DOMAIN s.objects, objects = [o \in DOMAIN s.objects |-> objects[o]],
         \A o \in DOMAIN s.objects :
           \E locked \in BOOLEAN, at \in PlacesOf[d] :
             objects[o] = [s.objects[o] EXCEPT !.locked = locked, !.place = at]
  PROVE  /\ [s EXCEPT !.objects = objects] \in CanvasRecord(d)
         /\ SameObjects(s, [s EXCEPT !.objects = objects])
<1>1. /\ s \in CanvasRecord(d) /\ DOMAIN s.objects \subseteq ObjectsOf[d]
      /\ \A o \in DOMAIN s.objects : s.objects[o] \in DrawnObject(d)
  BY CanvasFields
<1>2. ASSUME NEW o \in DOMAIN s.objects
      PROVE  /\ objects[o] \in DrawnObject(d) /\ objects[o].kind = s.objects[o].kind
             /\ objects[o].floorId = s.objects[o].floorId
             /\ objects[o].sectionId = s.objects[o].sectionId
  <2>1. PICK locked \in BOOLEAN, at \in PlacesOf[d] :
          objects[o] = [s.objects[o] EXCEPT !.locked = locked, !.place = at]
    OBVIOUS
  <2>2. PICK object : object = s.objects[o] OBVIOUS
  <2>3. object \in DrawnObject(d) BY <1>1, <2>2
  <2> QED BY <2>1, <2>2, <2>3 DEF DrawnObject
<1>3. objects \in [DOMAIN s.objects -> DrawnObject(d)] BY <1>2
<1>4. objects \in Objects(d) BY <1>1, <1>3, ObjectsAre
<1>5. PICK t : t = [s EXCEPT !.objects = objects] OBVIOUS
<1>6. /\ t \in CanvasRecord(d) /\ t.objects = objects /\ t.selectedIds = s.selectedIds
      /\ t.floors = s.floors /\ t.activeFloorId = s.activeFloorId
      /\ t.activeSectionId = s.activeSectionId /\ t.referencePlan = s.referencePlan
  BY <1>1, <1>4, <1>5 DEF CanvasRecord
<1> QED BY <1>2, <1>5, <1>6 DEF SameObjects

(* One object, locked or unlocked, somewhere else. *)
LEMMA ObjectRedrawn ==
  ASSUME NEW d \in Sheets, NEW s, CanvasWhole(d, s), NEW o \in DOMAIN s.objects,
         NEW locked \in BOOLEAN, NEW at \in PlacesOf[d]
  PROVE  LET t == [s EXCEPT !.objects[o].locked = locked, !.objects[o].place = at]
         IN t \in CanvasRecord(d) /\ SameObjects(s, t)
<1> DEFINE u == [s EXCEPT !.objects[o].locked = locked, !.objects[o].place = at]
           object == [s.objects[o] EXCEPT !.locked = locked, !.place = at]
           objects == [p \in DOMAIN s.objects |-> IF p = o THEN object ELSE s.objects[p]]
<1>1. /\ s \in CanvasRecord(d) /\ \A p \in DOMAIN s.objects : s.objects[p] \in DrawnObject(d)
      /\ s.objects \in [DOMAIN s.objects -> DrawnObject(d)]
  BY CanvasFields
<1>2. ASSUME NEW p \in DOMAIN s.objects
      PROVE  \E l \in BOOLEAN, a \in PlacesOf[d] :
               objects[p] = [s.objects[p] EXCEPT !.locked = l, !.place = a]
  <2>1. CASE p = o BY <2>1
  <2>2. CASE p # o
    <3>1. PICK other : other = s.objects[p] OBVIOUS
    <3>2. other \in DrawnObject(d) BY <1>1, <3>1
    <3>3. /\ other = [other EXCEPT !.locked = other.locked, !.place = other.place]
          /\ other.locked \in BOOLEAN /\ other.place \in PlacesOf[d]
      BY <3>2 DEF DrawnObject
    <3> QED BY <2>2, <3>1, <3>3
  <2> QED BY <2>1, <2>2
<1>3. u = [s EXCEPT !.objects = objects]
  <2>1. [s.objects EXCEPT ![o] = object] = objects BY <1>1
  <2>2. u = [s EXCEPT !.objects = [s.objects EXCEPT ![o] = object]] BY <1>1 DEF CanvasRecord
  <2> QED BY <2>1, <2>2
<1>4. DOMAIN objects = DOMAIN s.objects /\ objects = [p \in DOMAIN s.objects |-> objects[p]]
  OBVIOUS
<1>5. PICK redrawn : redrawn = objects OBVIOUS
<1> HIDE DEF objects
<1>6. /\ DOMAIN redrawn = DOMAIN s.objects /\ redrawn = [p \in DOMAIN s.objects |-> redrawn[p]]
      /\ \A p \in DOMAIN s.objects :
           \E l \in BOOLEAN, a \in PlacesOf[d] :
             redrawn[p] = [s.objects[p] EXCEPT !.locked = l, !.place = a]
  BY <1>2, <1>4, <1>5
<1>7. /\ [s EXCEPT !.objects = redrawn] \in CanvasRecord(d)
      /\ SameObjects(s, [s EXCEPT !.objects = redrawn])
  BY <1>6, ObjectsRedrawn
<1>8. u = [s EXCEPT !.objects = redrawn] BY <1>3, <1>5
<1> HIDE DEF u
<1>9. u \in CanvasRecord(d) /\ SameObjects(s, u) BY <1>7, <1>8
<1> QED BY <1>9 DEF u

LEMMA SketchArranges ==
  ASSUME NEW d \in Sheets, SketchIInv(d),
         \/ \E o \in ObjectsOf[d], locked \in BOOLEAN, at \in PlacesOf[d] :
              Sketch(d)!UpdateObject(o, locked, at)
         \/ \E at \in PlacesOf[d] : Sketch(d)!Arrange(at)
  PROVE  SketchIInv(d)'
<1>1. CanvasWhole(d, canvas) /\ canvas \in CanvasRecord(d) BY CanvasIsWhole DEF CanvasWhole
<1>2. /\ drag = NULL /\ drag' = drag /\ copiedObjects' = copiedObjects /\ images' = images
      /\ referenceRequest' = referenceRequest /\ crossed' = crossed
      /\ Len(undoable) < MaxStepsOf[d] /\ undoable' = Append(undoable, canvas) /\ redoable' = <<>>
  BY DEF Sketch!UpdateObject, Sketch!Arrange, Sketch!answers, Sketch!MouseIsFree,
         Sketch!Commit, Sketch!RoomForAStep
<1>3. ImagesSound(d)' BY <1>2 DEF SketchIInv, ImagesSound, ImageRecord
<1>4. SUFFICES canvas' \in CanvasRecord(d) /\ SameObjects(canvas, canvas')
  <2>1. PICK t : t = canvas' OBVIOUS
  <2>2. CanvasWhole(d, t) /\ t.referencePlan = canvas.referencePlan
    BY <1>1, <1>4, <2>1, SameIsWhole DEF SameObjects
  <2> QED BY <1>2, <1>3, <2>1, <2>2, SketchCommitted
<1>5. ASSUME NEW o \in ObjectsOf[d], NEW locked \in BOOLEAN, NEW at \in PlacesOf[d],
             Sketch(d)!UpdateObject(o, locked, at)
      PROVE  canvas' \in CanvasRecord(d) /\ SameObjects(canvas, canvas')
  <2>1. /\ o \in DOMAIN canvas.objects
        /\ canvas' = [canvas EXCEPT !.objects[o].locked = locked, !.objects[o].place = at]
    BY <1>5, SketchSees DEF Sketch!UpdateObject, Sketch!Commit
  <2> QED BY <1>1, <2>1, ObjectRedrawn
<1>6. ASSUME NEW at \in PlacesOf[d], Sketch(d)!Arrange(at)
      PROVE  canvas' \in CanvasRecord(d) /\ SameObjects(canvas, canvas')
  <2> DEFINE chosen == Sketch(d)!Unlocked
             objects == [o \in DOMAIN canvas.objects |->
                           IF o \in chosen THEN [canvas.objects[o] EXCEPT !.place = at]
                           ELSE canvas.objects[o]]
  <2>1. canvas' = [canvas EXCEPT !.objects = objects]
    BY <1>6 DEF Sketch!Arrange, Sketch!Commit, Sketch!Ids
  <2>2. ASSUME NEW o \in DOMAIN canvas.objects
        PROVE  \E l \in BOOLEAN, a \in PlacesOf[d] :
                 objects[o] = [canvas.objects[o] EXCEPT !.locked = l, !.place = a]
    <3>1. PICK object : object = canvas.objects[o] OBVIOUS
    <3>2. object \in DrawnObject(d) BY <1>1, <3>1, CanvasFields
    <3>3. /\ object = [object EXCEPT !.locked = object.locked, !.place = object.place]
          /\ [object EXCEPT !.place = at] = [object EXCEPT !.locked = object.locked, !.place = at]
          /\ object.locked \in BOOLEAN /\ object.place \in PlacesOf[d]
      BY <3>2 DEF DrawnObject
    <3>4. objects[o] = IF o \in chosen THEN [object EXCEPT !.place = at] ELSE object
      BY <3>1
    <3> HIDE DEF objects, chosen
    <3>5. CASE o \in chosen BY <3>1, <3>3, <3>4, <3>5
    <3>6. CASE o \notin chosen BY <3>1, <3>3, <3>4, <3>6
    <3> QED BY <3>5, <3>6
  <2>3. DOMAIN objects = DOMAIN canvas.objects /\ objects = [o \in DOMAIN canvas.objects |-> objects[o]]
    OBVIOUS
  <2> HIDE DEF objects
  <2> QED BY <1>1, <2>1, <2>2, <2>3, ObjectsRedrawn
<1> QED BY <1>5, <1>6

(* What a deletion takes along. *)
LEMMA ContentsGo ==
  ASSUME NEW d \in Sheets, SketchIInv(d), NEW gone, gone = Sketch(d)!Contents(Sketch(d)!Unlocked)
  PROVE  /\ \A o \in DOMAIN canvas.objects : canvas.objects[o].sectionId \in gone => o \in gone
         /\ canvas.activeSectionId \notin gone
<1> DEFINE ids == DOMAIN canvas.objects
           Closed(S) == \A o \in ids : canvas.objects[o].sectionId \in S => o \in S
<1>1. CanvasWhole(d, canvas) BY CanvasIsWhole
<1>2. gone = {o \in ids : \A S \in SUBSET ids : Sketch(d)!Unlocked \subseteq S /\ Closed(S) => o \in S}
  BY DEF Sketch!Contents, Sketch!Ids
<1>3. ASSUME NEW o \in ids, canvas.objects[o].sectionId \in gone PROVE o \in gone
  BY <1>2, <1>3
<1>4. canvas.activeSectionId \notin gone
  <2>1. CASE canvas.activeSectionId = NULL
    BY <1>1, <1>2, <2>1, CanvasFields, SketchConstants
  <2>2. CASE canvas.activeSectionId # NULL
    <3>1. PICK depth \in [ObjectsOf[d] -> Nat] : Layered(canvas, depth) BY <1>1 DEF CanvasWhole
    <3> DEFINE S == {o \in ids : depth[canvas.activeSectionId] < depth[o]}
    <3>2. ids \subseteq ObjectsOf[d] /\ NULL \notin ObjectsOf[d]
      BY <1>1, CanvasFields, SketchConstants
    <3>3. Sketch(d)!Unlocked \subseteq S
      BY <2>2, <3>1, SketchSees DEF Layered
    <3>4. Closed(S)
      <4> SUFFICES ASSUME NEW o \in ids, canvas.objects[o].sectionId \in S PROVE o \in S OBVIOUS
      <4>1. PICK section : section = canvas.objects[o].sectionId OBVIOUS
      <4>2. /\ section \in ids /\ section # NULL
            /\ depth[canvas.activeSectionId] < depth[section]
        BY <3>2, <4>1
      <4>3. depth[section] < depth[o] BY <3>1, <4>1, <4>2 DEF Layered
      <4>4. canvas.activeSectionId \in ids BY <1>1, <2>2 DEF CanvasWhole
      <4>5. depth[canvas.activeSectionId] \in Nat /\ depth[section] \in Nat /\ depth[o] \in Nat
        BY <3>1, <3>2, <4>2, <4>4
      <4>6. depth[canvas.activeSectionId] < depth[o] BY <4>2, <4>3, <4>5
      <4> QED BY <4>6
    <3>5. canvas.activeSectionId \notin S
      <4>1. canvas.activeSectionId \in ids BY <1>1, <2>2 DEF CanvasWhole
      <4>2. depth[canvas.activeSectionId] \in Nat BY <3>1, <3>2, <4>1
      <4> QED BY <4>2
    <3>6. S \in SUBSET ids OBVIOUS
    <3> HIDE DEF S
    <3> QED BY <1>2, <3>3, <3>4, <3>5, <3>6
  <2> QED BY <2>1, <2>2
<1> QED BY <1>3, <1>4

LEMMA SketchDeletes ==
  ASSUME NEW d \in Sheets, SketchIInv(d), Sketch(d)!DeleteSelected
  PROVE  SketchIInv(d)'
<1>1. CanvasWhole(d, canvas) /\ canvas \in CanvasRecord(d) BY CanvasIsWhole DEF CanvasWhole
<1>2. PICK gone : gone = Sketch(d)!Contents(Sketch(d)!Unlocked) OBVIOUS
<1>3. PICK left : left = [o \in DOMAIN canvas.objects \ gone |-> canvas.objects[o]] OBVIOUS
<1>4. PICK t : t = canvas' OBVIOUS
<1>5. /\ drag' = drag /\ copiedObjects' = copiedObjects /\ images' = images
      /\ referenceRequest' = referenceRequest /\ crossed' = crossed
      /\ Len(undoable) < MaxStepsOf[d] /\ undoable' = Append(undoable, canvas) /\ redoable' = <<>>
      /\ t = [canvas EXCEPT !.objects = left, !.selectedIds = {}]
  BY <1>2, <1>3, <1>4
     DEF Sketch!DeleteSelected, Sketch!answers, Sketch!Commit, Sketch!RoomForAStep, Sketch!Ids
<1>6. left \in Objects(d)
  <2>1. left \in [DOMAIN canvas.objects \ gone -> DrawnObject(d)] BY <1>1, <1>3, CanvasFields
  <2>2. DOMAIN canvas.objects \ gone \in SUBSET ObjectsOf[d] BY <1>1, CanvasFields
  <2> QED BY <2>1, <2>2, ObjectsAre
<1>7. /\ t \in CanvasRecord(d) /\ t.objects = left /\ t.selectedIds = {}
      /\ t.floors = canvas.floors /\ t.activeFloorId = canvas.activeFloorId
      /\ t.activeSectionId = canvas.activeSectionId /\ t.referencePlan = canvas.referencePlan
  BY <1>1, <1>5, <1>6 DEF CanvasRecord
<1>8. CanvasWhole(d, t)
  <2>1. /\ \A o \in DOMAIN canvas.objects : canvas.objects[o].sectionId \in gone => o \in gone
        /\ canvas.activeSectionId \notin gone
    BY <1>2, ContentsGo
  <2> QED BY <1>1, <1>3, <1>7, <2>1, Deleted
<1>9. DragFits => DragFits' BY <1>4, <1>5, <1>7 DEF DragFits
<1>10. ImagesSound(d)' BY <1>5 DEF SketchIInv, ImagesSound, ImageRecord
<1> QED BY <1>4, <1>5, <1>7, <1>8, <1>9, <1>10, SketchCommitted

LEMMA AppendedOnce ==
  ASSUME NEW T, NEW p \in Seq(T), IsInjective(p), NEW f, f \notin Range(p)
  PROVE  IsInjective(Append(p, f))
<1>1. /\ Len(p) \in Nat /\ DOMAIN p = 1..Len(p) /\ DOMAIN Append(p, f) = 1..(Len(p) + 1)
      /\ \A i \in 1..Len(p) : Append(p, f)[i] = p[i]
      /\ Append(p, f)[Len(p) + 1] = f
  OBVIOUS
<1>2. \A i \in 1..Len(p) : p[i] # f BY <1>1 DEF Range
<1>3. PICK a : a = Append(p, f) OBVIOUS
<1>4. IsInjective(a) BY <1>1, <1>2, <1>3, SMT DEF IsInjective
<1> QED BY <1>3, <1>4

LEMMA FloorsGrow ==
  ASSUME NEW d \in Sheets, NEW p \in Seq(FloorsOf[d]), NEW f \in FloorsOf[d]
  PROVE  Append(p, f) \in Seq(FloorsOf[d]) /\ Range(Append(p, f)) = Range(p) \union {f}
<1>1. PICK T : T = FloorsOf[d] OBVIOUS
<1>2. p \in Seq(T) /\ f \in T BY <1>1
<1>3. /\ Append(p, f) \in Seq(T) /\ Len(Append(p, f)) = Len(p) + 1
      /\ Range(Append(p, f)) = Range(p) \union {f}
  BY <1>2, AppendKeeps
<1> QED BY <1>1, <1>3

LEMMA SketchFloors ==
  ASSUME NEW d \in Sheets, SketchIInv(d), NEW f \in FloorsOf[d],
         Sketch(d)!AddFloor(f) \/ Sketch(d)!RemoveFloor(f)
  PROVE  SketchIInv(d)'
<1>1. CanvasWhole(d, canvas) /\ canvas \in CanvasRecord(d) BY CanvasIsWhole DEF CanvasWhole
<1>2. /\ drag = NULL /\ drag' = drag /\ copiedObjects' = copiedObjects /\ images' = images
      /\ referenceRequest' = referenceRequest /\ crossed' = crossed
      /\ Len(undoable) < MaxStepsOf[d] /\ undoable' = Append(undoable, canvas) /\ redoable' = <<>>
  BY DEF Sketch!AddFloor, Sketch!RemoveFloor, Sketch!answers, Sketch!MouseIsFree,
         Sketch!Commit, Sketch!RoomForAStep
<1>3. ImagesSound(d)' BY <1>2 DEF SketchIInv, ImagesSound, ImageRecord
<1>4. PICK t : t = canvas' OBVIOUS
<1>5. SUFFICES CanvasWhole(d, t) /\ t.referencePlan = canvas.referencePlan
  BY <1>2, <1>3, <1>4, SketchCommitted
<1>6. CASE Sketch(d)!AddFloor(f)
  <2>1. /\ f \notin Range(canvas.floors)
        /\ t = [canvas EXCEPT !.floors = Append(canvas.floors, f), !.activeFloorId = f,
                              !.activeSectionId = NULL, !.selectedIds = {}]
    BY <1>4, <1>6, SketchSees DEF Sketch!AddFloor, Sketch!Commit
  <2>2. canvas.floors \in Seq(FloorsOf[d]) /\ IsInjective(canvas.floors)
    BY <1>1, CanvasFields DEF CanvasWhole
  <2>3. PICK floors : floors = Append(canvas.floors, f) OBVIOUS
  <2>4. floors \in Seq(FloorsOf[d]) /\ Range(floors) = Range(canvas.floors) \union {f}
    <3>1. PICK p : p = canvas.floors OBVIOUS
    <3>2. p \in Seq(FloorsOf[d]) BY <2>2, <3>1
    <3>3. Append(p, f) \in Seq(FloorsOf[d]) /\ Range(Append(p, f)) = Range(p) \union {f}
      BY <3>2, FloorsGrow, Zenon
    <3> QED BY <2>3, <3>1, <3>3, Zenon
  <2>5. IsInjective(floors) BY <2>1, <2>2, <2>3, AppendedOnce
  <2>6. /\ t \in CanvasRecord(d) /\ t.objects = canvas.objects /\ t.floors = floors
        /\ t.activeFloorId = f /\ t.activeSectionId = NULL /\ t.selectedIds = {}
        /\ t.referencePlan = canvas.referencePlan
    BY <1>1, <2>1, <2>3, <2>4 DEF CanvasRecord
  <2>7. PICK depth \in [ObjectsOf[d] -> Nat] : Layered(canvas, depth) BY <1>1 DEF CanvasWhole
  <2>8. Layered(t, depth) BY <2>6, <2>7 DEF Layered
  <2>9. CanvasWhole(d, t) BY <1>1, <2>4, <2>5, <2>6, <2>8 DEF CanvasWhole
  <2> QED BY <2>6, <2>9
<1>7. CASE Sketch(d)!RemoveFloor(f)
  <2>1. PICK remaining : remaining = Only(canvas.floors, FloorsOf[d] \ {f}) OBVIOUS
  <2>2. PICK fallback : fallback = Head(remaining) OBVIOUS
  <2>3. PICK objects :
          objects = [o \in DOMAIN canvas.objects |-> Sketch(d)!Moved(o, f, fallback)]
    OBVIOUS
  <2>4. /\ Len(canvas.floors) > 1
        /\ t = [canvas EXCEPT !.floors = remaining, !.objects = objects,
                  !.activeFloorId = IF canvas.activeFloorId = f THEN fallback ELSE canvas.activeFloorId,
                  !.activeSectionId = NULL, !.selectedIds = {}]
    <3>1. Sketch(d)!Only(canvas.floors, FloorsOf[d] \ {f}) = remaining BY <2>1, SketchNames
    <3> QED BY <1>4, <1>7, <2>2, <2>3, <3>1 DEF Sketch!RemoveFloor, Sketch!Commit, Sketch!Ids
  <2>5. /\ remaining \in Seq(FloorsOf[d]) /\ IsInjective(remaining)
        /\ Range(remaining) = Range(canvas.floors) \ {f}
        /\ fallback \in Range(remaining) /\ fallback \in FloorsOf[d]
    <3>1. FloorsWithout(d, canvas.floors, f, remaining) BY <2>1 DEF FloorsWithout
    <3>2. CanvasWhole(d, canvas) /\ Len(canvas.floors) > 1 BY <1>1, <2>4
    <3>3. /\ remaining \in Seq(FloorsOf[d]) /\ IsInjective(remaining)
          /\ Range(remaining) = Range(canvas.floors) \ {f}
          /\ Head(remaining) \in Range(remaining) /\ Head(remaining) \in FloorsOf[d]
      BY <3>1, <3>2, FloorsRemain, Zenon
    <3> QED BY <2>2, <3>3, Zenon
  <2>6. \A o \in DOMAIN canvas.objects :
          objects[o] = IF canvas.objects[o].floorId = f
                       THEN [canvas.objects[o] EXCEPT !.floorId = fallback] ELSE canvas.objects[o]
    BY <2>3 DEF Sketch!Moved
  <2>7. objects \in Objects(d) /\ DOMAIN objects = DOMAIN canvas.objects
    <3>1. ASSUME NEW o \in DOMAIN canvas.objects PROVE objects[o] \in DrawnObject(d)
      <4>1. PICK object : object = canvas.objects[o] OBVIOUS
      <4>2. object \in DrawnObject(d) BY <1>1, <4>1, CanvasFields
      <4>3. [object EXCEPT !.floorId = fallback] \in DrawnObject(d) BY <2>5, <4>2 DEF DrawnObject
      <4> QED BY <2>6, <4>1, <4>2, <4>3
    <3>2. objects \in [DOMAIN canvas.objects -> DrawnObject(d)] BY <2>3, <3>1
    <3> QED BY <1>1, <3>2, CanvasFields, ObjectsAre
  <2>8. /\ t \in CanvasRecord(d) /\ t.objects = objects /\ t.floors = remaining
        /\ t.activeFloorId = IF canvas.activeFloorId = f THEN fallback ELSE canvas.activeFloorId
        /\ t.activeSectionId = NULL /\ t.selectedIds = {}
        /\ t.referencePlan = canvas.referencePlan
    BY <1>1, <2>4, <2>5, <2>7 DEF CanvasRecord
  <2>9. WithoutFloor(canvas, t, f, fallback) BY <2>5, <2>6, <2>7, <2>8 DEF WithoutFloor
  <2>10. CanvasWhole(d, t) BY <1>1, <2>8, <2>9, FloorRemoved
  <2> QED BY <2>8, <2>10
<1> QED BY <1>6, <1>7

(* The mouse goes down on an object or on a corner of it. *)
LEMMA SketchGrabs ==
  ASSUME NEW d \in Sheets, SketchIInv(d), ~crossed, NEW o \in ObjectsOf[d],
         Sketch(d)!BeginObjectDrag(o) \/ Sketch(d)!BeginNodeDrag(o)
  PROVE  SketchIInv(d)'
<1>1. CanvasWhole(d, canvas) /\ canvas \in CanvasRecord(d) /\ canvas \in Kept
  BY CanvasIsWhole DEF CanvasWhole
<1>2. /\ drag = NULL /\ undoable' = undoable /\ redoable' = redoable
      /\ copiedObjects' = copiedObjects /\ images' = images
      /\ referenceRequest' = referenceRequest /\ crossed' = crossed
  BY DEF Sketch!BeginObjectDrag, Sketch!BeginNodeDrag, Sketch!answers, Sketch!MouseIsFree,
         Sketch!history
<1>3. /\ CanvasWhole(d, canvas') /\ canvas'.referencePlan = canvas.referencePlan
      /\ drag'.origin = canvas' /\ drag'.kind \in {"OBJECTS", "NODE"} /\ drag'.objectId = o
  <2>1. CASE Sketch(d)!BeginNodeDrag(o)
    BY <1>1, <2>1 DEF Sketch!BeginNodeDrag
  <2>2. CASE Sketch(d)!BeginObjectDrag(o)
    <3>1. PICK ids : ids = IF o \in canvas.selectedIds THEN canvas.selectedIds ELSE {o} OBVIOUS
    <3>2. PICK t : t = canvas' OBVIOUS
    <3>3. /\ o \in Sketch(d)!Visible /\ t = [canvas EXCEPT !.selectedIds = ids]
          /\ drag' = [kind |-> "OBJECTS", objectId |-> o, origin |-> t]
      BY <2>2, <3>1, <3>2 DEF Sketch!BeginObjectDrag
    <3>4. ids \in SUBSET ObjectsOf[d] BY <1>1, <3>1, CanvasFields
    <3>5. /\ t \in CanvasRecord(d) /\ t.objects = canvas.objects
          /\ t.floors = canvas.floors /\ t.activeFloorId = canvas.activeFloorId
          /\ t.activeSectionId = canvas.activeSectionId /\ t.selectedIds = ids
          /\ t.referencePlan = canvas.referencePlan
      BY <1>1, <3>3, <3>4 DEF CanvasRecord
    <3>6. \A p \in t.selectedIds \intersect DOMAIN canvas.objects :
            \/ p \in canvas.selectedIds
            \/ /\ canvas.objects[p].floorId = canvas.activeFloorId
               /\ canvas.activeSectionId # NULL =>
                    canvas.objects[p].sectionId = canvas.activeSectionId
      BY <3>1, <3>3, <3>5, SketchSees
    <3>7. CanvasWhole(d, t) BY <1>1, <3>5, <3>6, RedrawnWhole
    <3> QED BY <3>2, <3>3, <3>5, <3>7
  <2> QED BY <2>1, <2>2
<1>4. Steps(d)' BY <1>2 DEF SketchIInv, Steps, CanvasRecord, Objects, DrawnObject
<1>5. Kept' \subseteq Kept \union {canvas'} BY <1>2, <1>3 DEF Kept
<1>6. \A u \in PlansOf[d] : canvas'.referencePlan = u => images'[u].at = "DONE"
  BY <1>1, <1>2, <1>3 DEF SketchIInv, PlansArrived, PlanArrived
<1>7. DragSound(d)' BY <1>3 DEF DragSound, DragFits
<1>8. ImagesSound(d)' BY <1>2 DEF SketchIInv, ImagesSound, ImageRecord
<1>9. copiedObjects' \in Objects(d) /\ crossed' \in BOOLEAN BY <1>2 DEF SketchIInv
<1> QED BY <1>2, <1>3, <1>4, <1>5, <1>6, <1>7, <1>8, <1>9, SketchMoved

(* Every move of the mouse draws the objects of the origin again. *)
LEMMA SketchDrags ==
  ASSUME NEW d \in Sheets, SketchIInv(d), ~crossed, NEW at \in PlacesOf[d],
         Sketch(d)!PointerMove(at)
  PROVE  SketchIInv(d)'
<1>1. CanvasWhole(d, canvas) /\ canvas \in CanvasRecord(d) BY CanvasIsWhole DEF CanvasWhole
<1>2. /\ drag # NULL /\ undoable' = undoable /\ redoable' = redoable /\ drag' = drag
      /\ copiedObjects' = copiedObjects /\ images' = images
      /\ referenceRequest' = referenceRequest /\ crossed' = crossed
  BY DEF Sketch!PointerMove, Sketch!answers, Sketch!history
<1>3. PICK origin : origin = drag.origin OBVIOUS
<1>4. CanvasWhole(d, origin) /\ origin \in CanvasRecord(d)
  BY <1>2, <1>3, CanvasIsWhole DEF CanvasWhole
<1>5. DragFits BY <1>2 DEF SketchIInv, DragSound
<1>6. PICK t : t = canvas' OBVIOUS
<1>7. SUFFICES /\ CanvasWhole(d, t) /\ t.referencePlan = canvas.referencePlan
               /\ t.floors = canvas.floors /\ t.activeFloorId = canvas.activeFloorId
               /\ t.activeSectionId = canvas.activeSectionId
               /\ t.selectedIds = canvas.selectedIds
  BY <1>2, <1>5, <1>6, SketchLooked DEF DragFits
<1>8. CASE drag.kind = "OBJECTS"
  <2> DEFINE objects == [o \in DOMAIN origin.objects |->
                           IF o \in origin.selectedIds
                           THEN [origin.objects[o] EXCEPT !.place = at] ELSE origin.objects[o]]
  <2>1. t = [canvas EXCEPT !.objects = objects]
    BY <1>3, <1>6, <1>8 DEF Sketch!PointerMove, Sketch!Ids
  <2>2. ASSUME NEW o \in DOMAIN origin.objects
        PROVE  \E l \in BOOLEAN, a \in PlacesOf[d] :
                 objects[o] = [origin.objects[o] EXCEPT !.locked = l, !.place = a]
    <3>1. PICK object : object = origin.objects[o] OBVIOUS
    <3>2. object \in DrawnObject(d) BY <1>4, <3>1, CanvasFields
    <3>3. /\ object = [object EXCEPT !.locked = object.locked, !.place = object.place]
          /\ [object EXCEPT !.place = at] = [object EXCEPT !.locked = object.locked, !.place = at]
          /\ object.locked \in BOOLEAN /\ object.place \in PlacesOf[d]
      BY <3>2 DEF DrawnObject
    <3>4. objects[o] = IF o \in origin.selectedIds THEN [object EXCEPT !.place = at] ELSE object
      BY <3>1
    <3> HIDE DEF objects
    <3>5. CASE o \in origin.selectedIds BY <3>1, <3>3, <3>4, <3>5
    <3>6. CASE o \notin origin.selectedIds BY <3>1, <3>3, <3>4, <3>6
    <3> QED BY <3>5, <3>6
  <2>3. DOMAIN objects = DOMAIN origin.objects /\ objects = [o \in DOMAIN origin.objects |-> objects[o]]
    OBVIOUS
  <2> HIDE DEF objects
  <2>4. PICK r : r = [origin EXCEPT !.objects = objects] OBVIOUS
  <2>5. r \in CanvasRecord(d) /\ SameObjects(origin, r) BY <1>4, <2>2, <2>3, <2>4, ObjectsRedrawn
  <2>6. r.objects = objects BY <1>4, <2>4 DEF CanvasRecord
  <2>7. objects \in Objects(d) BY <2>5, <2>6 DEF CanvasRecord
  <2>8. /\ t \in CanvasRecord(d) /\ t.objects = objects /\ t.selectedIds = canvas.selectedIds
        /\ t.floors = canvas.floors /\ t.activeFloorId = canvas.activeFloorId
        /\ t.activeSectionId = canvas.activeSectionId /\ t.referencePlan = canvas.referencePlan
    BY <1>1, <2>1, <2>7 DEF CanvasRecord
  <2>9. CanvasWhole(d, t)
    BY <1>3, <1>4, <1>5, <2>5, <2>6, <2>8, RedrawnWhole DEF SameObjects, DragFits
  <2> QED BY <2>8, <2>9
<1>9. CASE drag.kind # "OBJECTS"
  <2>1. t = IF drag.objectId \in DOMAIN canvas.objects
            THEN [canvas EXCEPT !.objects[drag.objectId].place = at] ELSE canvas
    BY <1>6, <1>9 DEF Sketch!PointerMove, Sketch!Ids
  <2>2. CASE drag.objectId \notin DOMAIN canvas.objects BY <1>1, <2>1, <2>2
  <2>3. CASE drag.objectId \in DOMAIN canvas.objects
    <3>1. PICK o \in DOMAIN canvas.objects : o = drag.objectId BY <2>3
    <3>2. canvas.objects[o] \in DrawnObject(d) /\ canvas.objects \in [DOMAIN canvas.objects -> DrawnObject(d)]
      BY <1>1, CanvasFields
    <3>3. PICK locked \in BOOLEAN : locked = canvas.objects[o].locked BY <3>2 DEF DrawnObject
    <3>4. t = [canvas EXCEPT !.objects[o].locked = locked, !.objects[o].place = at]
      <4>1. PICK object : object = canvas.objects[o] OBVIOUS
      <4>2. [object EXCEPT !.place = at] = [object EXCEPT !.locked = locked, !.place = at]
        BY <3>2, <3>3, <4>1 DEF DrawnObject
      <4>3. [canvas.objects EXCEPT ![o].place = at]
              = [canvas.objects EXCEPT ![o].locked = locked, ![o].place = at]
        BY <3>2, <4>1, <4>2
      <4> QED BY <1>1, <2>1, <3>1, <4>3 DEF CanvasRecord
    <3>5. t \in CanvasRecord(d) /\ SameObjects(canvas, t) BY <1>1, <3>4, ObjectRedrawn
    <3> QED BY <1>1, <3>5, SameIsWhole DEF SameObjects
  <2> QED BY <2>2, <2>3
<1> QED BY <1>8, <1>9

LEMMA SketchDrops ==
  ASSUME NEW d \in Sheets, SketchIInv(d), Sketch(d)!PointerUp
  PROVE  SketchIInv(d)'
<1>1. /\ CanvasWhole(d, canvas) /\ canvas \in Kept
      /\ CanvasWhole(d, drag.origin) /\ drag.origin \in Kept /\ drag # NULL
  BY CanvasIsWhole DEF Sketch!PointerUp
<1>2. /\ Len(undoable) < MaxStepsOf[d] /\ undoable' = Append(undoable, drag.origin)
      /\ redoable' = <<>> /\ drag' = NULL /\ canvas' = canvas
      /\ copiedObjects' = copiedObjects /\ images' = images
      /\ referenceRequest' = referenceRequest /\ crossed' = crossed
  BY DEF Sketch!PointerUp, Sketch!RoomForAStep, Sketch!answers
<1>3. /\ undoable \in Seq(CanvasRecord(d)) /\ redoable \in Seq(CanvasRecord(d))
      /\ MaxStepsOf[d] \in Nat /\ Len(undoable) \in Nat /\ drag.origin \in CanvasRecord(d)
  BY <1>1, SketchConstants DEF SketchIInv, Steps, CanvasWhole
<1>4. /\ undoable' \in Seq(CanvasRecord(d)) /\ Len(undoable') = Len(undoable) + 1
      /\ Range(undoable') = Range(undoable) \union {drag.origin}
      /\ redoable' \in Seq(CanvasRecord(d)) /\ Len(redoable') = 0 /\ Range(redoable') = {}
  <2>1. PICK begun : begun = drag.origin OBVIOUS
  <2>2. begun \in CanvasRecord(d) /\ undoable' = Append(undoable, begun) BY <1>2, <1>3, <2>1
  <2>3. /\ <<>> \in Seq(CanvasRecord(d)) /\ Len(<<>>) = 0 /\ Range(<<>>) = {}
        /\ Append(undoable, begun) \in Seq(CanvasRecord(d))
        /\ Len(Append(undoable, begun)) = Len(undoable) + 1
        /\ Range(Append(undoable, begun)) = Range(undoable) \union {begun}
    BY <1>3, <2>2, HistoryKeeps, Zenon
  <2> QED BY <1>2, <2>1, <2>2, <2>3, Zenon
<1>5. Steps(d)'
  <2>1. Len(undoable') + Len(redoable') <= MaxStepsOf[d] BY <1>2, <1>3, <1>4
  <2> QED BY <1>4, <2>1 DEF Steps, CanvasRecord, Objects, DrawnObject
<1>6. Kept' \subseteq Kept \union {canvas'} BY <1>1, <1>2, <1>4 DEF Kept
<1>7. \A u \in PlansOf[d] : canvas'.referencePlan = u => images'[u].at = "DONE"
  BY <1>1, <1>2 DEF SketchIInv, PlansArrived, PlanArrived
<1>8. DragSound(d)' BY <1>2 DEF DragSound
<1>9. ImagesSound(d)' BY <1>2 DEF SketchIInv, ImagesSound, ImageRecord
<1>10. copiedObjects' \in Objects(d) /\ crossed' \in BOOLEAN BY <1>2 DEF SketchIInv
<1> QED BY <1>1, <1>2, <1>5, <1>6, <1>7, <1>8, <1>9, <1>10, SketchMoved

(* Undo and redo show again what was kept. *)
LEMMA SketchTurns ==
  ASSUME NEW d \in Sheets, SketchIInv(d), Sketch(d)!Undo \/ Sketch(d)!Redo
  PROVE  SketchIInv(d)'
<1>1. canvas \in Kept /\ canvas \in CanvasRecord(d) BY CanvasIsWhole DEF CanvasWhole
<1>2. /\ undoable \in Seq(CanvasRecord(d)) /\ redoable \in Seq(CanvasRecord(d))
      /\ Len(undoable) + Len(redoable) <= MaxStepsOf[d]
      /\ MaxStepsOf[d] \in Nat /\ Len(undoable) \in Nat /\ Len(redoable) \in Nat
  BY SketchConstants DEF SketchIInv, Steps
<1>3. /\ drag' = drag /\ copiedObjects' = copiedObjects /\ images' = images
      /\ referenceRequest' = referenceRequest /\ crossed' = (crossed \/ drag # NULL)
  BY DEF Sketch!Undo, Sketch!Redo, Sketch!answers
<1>4. /\ canvas' \in Range(undoable) \union Range(redoable)
      /\ undoable' \in Seq(CanvasRecord(d)) /\ redoable' \in Seq(CanvasRecord(d))
      /\ Len(undoable') + Len(redoable') <= MaxStepsOf[d]
      /\ Range(undoable') \subseteq Range(undoable) \union {canvas}
      /\ Range(redoable') \subseteq Range(redoable) \union {canvas}
  <2>1. CASE Sketch(d)!Undo
    <3>1. /\ undoable # <<>> /\ canvas' = undoable[Len(undoable)]
          /\ undoable' = SubSeq(undoable, 1, Len(undoable) - 1)
          /\ redoable' = <<canvas>> \o redoable
      BY <2>1 DEF Sketch!Undo
    <3>2. /\ undoable[Len(undoable)] \in Range(undoable)
          /\ undoable' \in Seq(CanvasRecord(d)) /\ Len(undoable') = Len(undoable) - 1
          /\ Range(undoable') \subseteq Range(undoable)
      BY <1>2, <3>1, SequencesGive
    <3>3. /\ redoable' \in Seq(CanvasRecord(d)) /\ Len(redoable') = Len(redoable) + 1
          /\ Range(redoable') = Range(redoable) \union {canvas}
      <4>1. /\ <<canvas>> \o redoable \in Seq(CanvasRecord(d))
            /\ Len(<<canvas>> \o redoable) = Len(redoable) + 1
            /\ Range(<<canvas>> \o redoable) = Range(redoable) \union {canvas}
        BY <1>1, <1>2, HistoryKeeps, Zenon
      <4> QED BY <3>1, <4>1, Zenon
    <3>4. Len(undoable') + Len(redoable') <= MaxStepsOf[d] BY <1>2, <3>2, <3>3
    <3> QED BY <3>1, <3>2, <3>3, <3>4
  <2>2. CASE Sketch(d)!Redo
    <3>1. /\ redoable # <<>> /\ canvas' = Head(redoable)
          /\ undoable' = Append(undoable, canvas) /\ redoable' = Tail(redoable)
      BY <2>2 DEF Sketch!Redo
    <3>2. /\ Head(redoable) \in Range(redoable)
          /\ redoable' \in Seq(CanvasRecord(d)) /\ Len(redoable') = Len(redoable) - 1
          /\ Range(redoable') \subseteq Range(redoable)
      BY <1>2, <3>1, SequencesGive
    <3>3. /\ undoable' \in Seq(CanvasRecord(d)) /\ Len(undoable') = Len(undoable) + 1
          /\ Range(undoable') = Range(undoable) \union {canvas}
      <4>1. /\ Append(undoable, canvas) \in Seq(CanvasRecord(d))
            /\ Len(Append(undoable, canvas)) = Len(undoable) + 1
            /\ Range(Append(undoable, canvas)) = Range(undoable) \union {canvas}
        BY <1>1, <1>2, HistoryKeeps, Zenon
      <4> QED BY <3>1, <4>1, Zenon
    <3>4. Len(undoable') + Len(redoable') <= MaxStepsOf[d] BY <1>2, <3>2, <3>3
    <3> QED BY <3>1, <3>2, <3>3, <3>4
  <2> QED BY <2>1, <2>2
<1>5. canvas' \in Kept BY <1>4 DEF Kept
<1>6. CanvasWhole(d, canvas') BY <1>5 DEF SketchIInv, CanvasesWhole
<1>7. \A u \in PlansOf[d] : canvas'.referencePlan = u => images'[u].at = "DONE"
  BY <1>3, <1>5 DEF SketchIInv, PlansArrived, PlanArrived
<1>8. Steps(d)' BY <1>4 DEF Steps, CanvasRecord, Objects, DrawnObject
<1>9. Kept' \subseteq Kept \union {canvas'} BY <1>3, <1>4 DEF Kept
<1>10. DragSound(d)' BY <1>3 DEF SketchIInv, DragSound
<1>11. ImagesSound(d)' BY <1>3 DEF SketchIInv, ImagesSound, ImageRecord
<1>12. copiedObjects' \in Objects(d) /\ crossed' \in BOOLEAN BY <1>3 DEF SketchIInv
<1> QED BY <1>3, <1>6, <1>7, <1>8, <1>9, <1>10, <1>11, <1>12, SketchMoved

LEMMA SketchCopies ==
  ASSUME NEW d \in Sheets, SketchIInv(d), Sketch(d)!CopySelected
  PROVE  SketchIInv(d)'
<1>1. CanvasWhole(d, canvas) /\ canvas \in Kept BY CanvasIsWhole
<1>2. /\ undoable' = undoable /\ redoable' = redoable /\ canvas' = canvas /\ drag' = drag
      /\ images' = images /\ referenceRequest' = referenceRequest /\ crossed' = crossed
      /\ copiedObjects' = [o \in Sketch(d)!Unlocked |-> canvas.objects[o]]
  BY DEF Sketch!CopySelected, Sketch!answers, Sketch!history
<1>3. copiedObjects' \in Objects(d)
  <2>1. PICK chosen : chosen = Sketch(d)!Unlocked OBVIOUS
  <2>2. chosen \subseteq DOMAIN canvas.objects BY <2>1, SketchSees
  <2>3. [o \in chosen |-> canvas.objects[o]] \in [chosen -> DrawnObject(d)] /\ chosen \in SUBSET ObjectsOf[d]
    BY <1>1, <2>2, CanvasFields
  <2> QED BY <1>2, <2>1, <2>3, ObjectsAre
<1>4. Steps(d)' BY <1>2 DEF SketchIInv, Steps, CanvasRecord, Objects, DrawnObject
<1>5. Kept' \subseteq Kept \union {canvas'} BY <1>2 DEF Kept
<1>6. \A u \in PlansOf[d] : canvas'.referencePlan = u => images'[u].at = "DONE"
  BY <1>1, <1>2 DEF SketchIInv, PlansArrived, PlanArrived
<1>7. DragSound(d)' BY <1>2 DEF SketchIInv, DragSound, DragFits
<1>8. ImagesSound(d)' BY <1>2 DEF SketchIInv, ImagesSound, ImageRecord
<1>9. crossed' \in BOOLEAN BY <1>2 DEF SketchIInv
<1> QED BY <1>1, <1>2, <1>3, <1>4, <1>5, <1>6, <1>7, <1>8, <1>9, SketchMoved

(* An image or plan answers: no answer that has come is taken back. *)
LEMMA ImageDone ==
  ASSUME NEW d \in Sheets, SketchIInv(d), NEW u \in PlansOf[d], Sketch(d)!Done(u),
         referenceRequest' = referenceRequest
  PROVE  /\ ImagesSound(d)' /\ images'[u].at = "DONE"
         /\ \A w \in PlansOf[d] : images[w].at = "DONE" => images'[w].at = "DONE"
         /\ \A w \in PlansOf[d] : w # u => images'[w] = images[w]
<1>1. images \in [PlansOf[d] -> ImageRecord] /\ referenceRequest \in Nat
      /\ \A w \in PlansOf[d] : images[w].request <= referenceRequest
  BY DEF SketchIInv, ImagesSound
<1>2. images' = [images EXCEPT ![u].at = "DONE"] BY DEF Sketch!Done
<1>3. PICK image : image = images[u] OBVIOUS
<1>4. PICK done : done = [image EXCEPT !.at = "DONE"] OBVIOUS
<1>5. image \in ImageRecord BY <1>1, <1>3
<1>6. done \in ImageRecord /\ done.at = "DONE" /\ done.request = image.request
  BY <1>4, <1>5 DEF ImageRecord
<1>7. images' = [images EXCEPT ![u] = done] BY <1>2, <1>3, <1>4
<1>8. /\ images' \in [PlansOf[d] -> ImageRecord] /\ images'[u] = done
      /\ \A w \in PlansOf[d] : w # u => images'[w] = images[w]
  BY <1>1, <1>6, <1>7
<1>9. \A w \in PlansOf[d] : images'[w].request <= referenceRequest'
  BY <1>1, <1>3, <1>6, <1>8
<1> QED BY <1>1, <1>6, <1>8, <1>9 DEF ImagesSound, ImageRecord

LEMMA SketchAnswers ==
  ASSUME NEW d \in Sheets, SketchIInv(d), NEW u \in PlansOf[d],
         \/ \E o \in ObjectsOf[d] : Sketch(d)!ObjectUploaded(u, o)
         \/ Sketch(d)!ReferenceUploaded(u)
         \/ Sketch(d)!UploadFails(u)
  PROVE  SketchIInv(d)'
<1>1. CanvasWhole(d, canvas) /\ canvas \in Kept /\ canvas \in CanvasRecord(d)
  BY CanvasIsWhole DEF CanvasWhole
<1>2. /\ Sketch(d)!Done(u) /\ referenceRequest' = referenceRequest
      /\ drag' = drag /\ copiedObjects' = copiedObjects /\ crossed' = crossed
  BY DEF Sketch!ObjectUploaded, Sketch!ReferenceUploaded, Sketch!UploadFails
<1>3. /\ ImagesSound(d)' /\ images'[u].at = "DONE"
      /\ \A w \in PlansOf[d] : images[w].at = "DONE" => images'[w].at = "DONE"
  BY <1>2, ImageDone
<1>4. ASSUME NEW o \in ObjectsOf[d], Sketch(d)!ObjectUploaded(u, o) PROVE SketchIInv(d)'
  <2>1. PICK at \in PlacesOf[d] : at = CHOOSE p \in PlacesOf[d] : TRUE BY SketchConstants
  <2>2. PICK image : image = [kind |-> "IMAGE", floorId |-> canvas.activeFloorId,
                              sectionId |-> canvas.activeSectionId, locked |-> FALSE, place |-> at]
    OBVIOUS
  <2>3. image \in DrawnObject(d) BY <1>1, <2>2, CanvasFields DEF DrawnObject
  <2>4. PICK new : new = [id \in {o} |-> image] OBVIOUS
  <2>5. new \in Objects(d) /\ DOMAIN new = {o}
    <3>1. new \in [{o} -> DrawnObject(d)] /\ {o} \in SUBSET ObjectsOf[d] BY <2>3, <2>4
    <3> QED BY <3>1, ObjectsAre
  <2>6. Stands(canvas.objects, image, canvas.activeFloorId) BY <2>2, EditorStands
  <2>7. \A id \in DOMAIN new : Stands(canvas.objects, new[id], canvas.activeFloorId)
    BY <2>4, <2>5, <2>6
  <2>8. /\ o \in Sketch(d)!FreshObjects
        /\ Sketch(d)!Commit(Sketch(d)!AddObjects(canvas, new))
    BY <1>4, <2>1, <2>2, <2>4 DEF Sketch!ObjectUploaded, Sketch!Current
  <2>9. DOMAIN new \subseteq Sketch(d)!FreshObjects BY <2>5, <2>8
  <2> QED BY <1>2, <1>3, <2>5, <2>7, <2>8, <2>9, ObjectsAdded
<1>5. ASSUME Sketch(d)!ReferenceUploaded(u) \/ Sketch(d)!UploadFails(u) PROVE SketchIInv(d)'
  <2>1. PICK t : t = canvas' OBVIOUS
  <2>2. /\ undoable' = undoable /\ redoable' = redoable
        /\ t = [canvas EXCEPT !.referencePlan = u] \/ t = canvas
    BY <1>5, <2>1 DEF Sketch!ReferenceUploaded, Sketch!UploadFails, Sketch!Current, Sketch!history
  <2>3. /\ t \in CanvasRecord(d) /\ t.objects = canvas.objects /\ t.selectedIds = canvas.selectedIds
        /\ t.floors = canvas.floors /\ t.activeFloorId = canvas.activeFloorId
        /\ t.activeSectionId = canvas.activeSectionId
        /\ t.referencePlan \in {canvas.referencePlan, u}
    BY <1>1, <2>2 DEF CanvasRecord
  <2>4. CanvasWhole(d, t) BY <1>1, <2>3, RedrawnWhole
  <2>5. \A w \in PlansOf[d] : t.referencePlan = w => images'[w].at = "DONE"
    BY <1>1, <1>3, <2>3 DEF SketchIInv, PlansArrived, PlanArrived
  <2>6. Steps(d)' BY <2>2 DEF SketchIInv, Steps, CanvasRecord, Objects, DrawnObject
  <2>7. Kept' \subseteq Kept \union {canvas'} BY <1>2, <2>2 DEF Kept
  <2>8. DragSound(d)' BY <1>2, <2>1, <2>3 DEF SketchIInv, DragSound, DragFits
  <2>9. copiedObjects' \in Objects(d) /\ crossed' \in BOOLEAN BY <1>2 DEF SketchIInv
  <2> QED BY <1>3, <2>1, <2>4, <2>5, <2>6, <2>7, <2>8, <2>9, SketchMoved
<1> QED BY <1>4, <1>5

LEMMA SketchAsks ==
  ASSUME NEW d \in Sheets, SketchIInv(d),
         \/ \E u \in PlansOf[d], purpose \in {"object", "reference"} : Sketch(d)!Send(u, purpose)
         \/ Sketch(d)!RemoveReference
  PROVE  SketchIInv(d)'
<1>1. CanvasWhole(d, canvas) /\ canvas \in Kept /\ canvas \in CanvasRecord(d)
  BY CanvasIsWhole DEF CanvasWhole
<1>2. images \in [PlansOf[d] -> ImageRecord] /\ referenceRequest \in Nat
      /\ \A w \in PlansOf[d] : images[w].request <= referenceRequest
  BY DEF SketchIInv, ImagesSound
<1>3. /\ drag = NULL /\ undoable' = undoable /\ redoable' = redoable
      /\ drag' = drag /\ copiedObjects' = copiedObjects /\ crossed' = crossed
  BY DEF Sketch!Send, Sketch!RemoveReference, Sketch!MouseIsFree, Sketch!history
<1>4. PICK t : t = canvas' OBVIOUS
<1>5. /\ t \in CanvasRecord(d) /\ t.objects = canvas.objects /\ t.selectedIds = canvas.selectedIds
      /\ t.floors = canvas.floors /\ t.activeFloorId = canvas.activeFloorId
      /\ t.activeSectionId = canvas.activeSectionId
      /\ t.referencePlan \in {canvas.referencePlan, NULL}
  <2>1. t = canvas \/ t = [canvas EXCEPT !.referencePlan = NULL]
    BY <1>4 DEF Sketch!Send, Sketch!RemoveReference
  <2> QED BY <1>1, <2>1 DEF CanvasRecord
<1>6. CanvasWhole(d, t) BY <1>1, <1>5, RedrawnWhole
<1>7. ImagesSound(d)' /\ \A w \in PlansOf[d] : images[w].at = "DONE" => images'[w].at = "DONE"
  <2>1. CASE Sketch(d)!RemoveReference
    <3>1. images' = images /\ referenceRequest' = referenceRequest + 1
      BY <2>1 DEF Sketch!RemoveReference
    <3>2. \A w \in PlansOf[d] : images[w].request \in Nat /\ images[w].request <= referenceRequest + 1
      BY <1>2 DEF ImageRecord
    <3> QED BY <1>2, <3>1, <3>2 DEF ImagesSound, ImageRecord
  <2>2. ASSUME NEW u \in PlansOf[d], NEW purpose \in {"object", "reference"}, Sketch(d)!Send(u, purpose)
        PROVE  ImagesSound(d)' /\ \A w \in PlansOf[d] : images[w].at = "DONE" => images'[w].at = "DONE"
    <3>1. /\ images[u].at = "IDLE" /\ referenceRequest' \in {referenceRequest, referenceRequest + 1}
          /\ images' = [images EXCEPT ![u] = [at |-> "SENT", purpose |-> purpose,
                                              request |-> referenceRequest']]
      <4>1. /\ images[u].at = "IDLE"
            /\ referenceRequest' = referenceRequest + (IF purpose = "reference" THEN 1 ELSE 0)
            /\ images' = [images EXCEPT ![u] = [at |-> "SENT", purpose |-> purpose,
                                                request |-> referenceRequest']]
        BY <2>2 DEF Sketch!Send
      <4>2. referenceRequest' \in {referenceRequest, referenceRequest + 1}
        <5>1. CASE purpose = "reference" BY <1>2, <4>1, <5>1
        <5>2. CASE purpose # "reference" BY <1>2, <4>1, <5>2
        <5> QED BY <5>1, <5>2
      <4> QED BY <4>1, <4>2
    <3>2. PICK r : r = referenceRequest' OBVIOUS
    <3>3. r \in Nat /\ referenceRequest <= r BY <1>2, <3>1, <3>2
    <3>4. PICK image : image = [at |-> "SENT", purpose |-> purpose, request |-> r] OBVIOUS
    <3>5. image \in ImageRecord /\ image.request = r BY <3>3, <3>4 DEF ImageRecord
    <3>6. images' = [images EXCEPT ![u] = image] BY <3>1, <3>2, <3>4
    <3>7. /\ images' \in [PlansOf[d] -> ImageRecord] /\ images'[u] = image
          /\ \A w \in PlansOf[d] : w # u => images'[w] = images[w]
      BY <1>2, <3>5, <3>6
    <3>8. ASSUME NEW w \in PlansOf[d] PROVE images'[w].request <= r
      <4>1. CASE w = u BY <3>3, <3>5, <3>7, <4>1
      <4>2. CASE w # u
        <5>1. images[w] \in ImageRecord BY <1>2
        <5>2. images[w].request \in Nat /\ images[w].request <= referenceRequest
          BY <1>2, <5>1 DEF ImageRecord
        <5> QED BY <1>2, <3>3, <3>7, <4>2, <5>2
      <4> QED BY <4>1, <4>2
    <3>9. ImagesSound(d)' BY <3>2, <3>3, <3>7, <3>8 DEF ImagesSound, ImageRecord
    <3>10. \A w \in PlansOf[d] : images[w].at = "DONE" => images'[w].at = "DONE" BY <3>1, <3>7
    <3> QED BY <3>9, <3>10
  <2>3. Sketch(d)!RemoveReference \/ \E u \in PlansOf[d], purpose \in {"object", "reference"} :
          Sketch(d)!Send(u, purpose)
    OBVIOUS
  <2> QED BY <2>1, <2>2, <2>3
<1>8. \A w \in PlansOf[d] : t.referencePlan = w => images'[w].at = "DONE"
  BY <1>1, <1>5, <1>7, SketchConstants DEF SketchIInv, PlansArrived, PlanArrived
<1>9. Steps(d)' BY <1>3 DEF SketchIInv, Steps, CanvasRecord, Objects, DrawnObject
<1>10. Kept' \subseteq Kept \union {canvas'} BY <1>3 DEF Kept
<1>11. DragSound(d)' BY <1>3 DEF DragSound
<1>12. copiedObjects' \in Objects(d) /\ crossed' \in BOOLEAN BY <1>3 DEF SketchIInv
<1> QED BY <1>4, <1>6, <1>7, <1>8, <1>9, <1>10, <1>11, <1>12, SketchMoved

LEMMA SketchInit == ASSUME NEW d \in Sheets, Sketch(d)!Init PROVE SketchIInv(d)
<1>1. PICK f \in FloorsOf[d], plan \in {NULL, "first"} :
        canvas = [objects |-> Sketch(d)!NoObjects, selectedIds |-> {}, floors |-> <<f>>,
                  activeFloorId |-> f, activeSectionId |-> NULL, referencePlan |-> plan]
  BY DEF Sketch!Init
<1>2. /\ undoable = <<>> /\ redoable = <<>> /\ drag = NULL /\ copiedObjects = Sketch(d)!NoObjects
      /\ images = [u \in PlansOf[d] |-> Sketch(d)!NewUpload]
      /\ referenceRequest = 0 /\ crossed = FALSE
  BY DEF Sketch!Init
<1>3. Sketch(d)!NoObjects \in Objects(d) /\ DOMAIN Sketch(d)!NoObjects = {}
  <2>1. Sketch(d)!NoObjects \in [{} -> DrawnObject(d)] BY DEF Sketch!NoObjects
  <2> QED BY <2>1, ObjectsAre
<1>4. PICK floors : floors = <<f>> OBVIOUS
<1>5. /\ floors \in Seq(FloorsOf[d]) /\ DOMAIN floors = {1} /\ floors[1] = f
  <2>1. PICK T : T = FloorsOf[d] OBVIOUS
  <2>2. f \in T BY <2>1
  <2>3. <<f>> \in Seq(T) BY <2>2
  <2>4. Len(<<f>>) = 1 /\ <<f>>[1] = f /\ DOMAIN <<f>> = 1..1 OBVIOUS
  <2> QED BY <1>4, <2>1, <2>3, <2>4
<1>6. IsInjective(floors) /\ f \in Range(floors) BY <1>5 DEF IsInjective, Range
<1>7. PICK none : none = Sketch(d)!NoObjects OBVIOUS
<1>8. /\ canvas \in CanvasRecord(d) /\ canvas.objects = none /\ canvas.selectedIds = {}
      /\ canvas.floors = floors /\ canvas.activeFloorId = f /\ canvas.activeSectionId = NULL
      /\ canvas.referencePlan = plan
  BY <1>1, <1>3, <1>4, <1>5, <1>7 DEF CanvasRecord
<1>9. CanvasWhole(d, canvas)
  <2>1. [o \in ObjectsOf[d] |-> 0] \in [ObjectsOf[d] -> Nat] OBVIOUS
  <2>2. Layered(canvas, [o \in ObjectsOf[d] |-> 0]) BY <1>3, <1>7, <1>8 DEF Layered
  <2> QED BY <1>3, <1>6, <1>7, <1>8, <2>1, <2>2 DEF CanvasWhole
<1>10. /\ <<>> \in Seq(CanvasRecord(d)) /\ Len(<<>>) = 0 /\ Range(<<>>) = {}
  <2>1. PICK c \in CanvasRecord(d) : TRUE BY <1>8
  <2>2. PICK p : p \in Seq(CanvasRecord(d))
    <3>1. PICK T : T = CanvasRecord(d) OBVIOUS
    <3>2. <<>> \in Seq(T) OBVIOUS
    <3> QED BY <3>1, <3>2
  <2> QED BY <2>1, <2>2, HistoryKeeps
<1>11. Steps(d)
  <2>1. 0 + 0 <= MaxStepsOf[d] BY SketchConstants
  <2> QED BY <1>2, <1>10, <2>1 DEF Steps
<1>12. Kept = {canvas} BY <1>2, <1>10 DEF Kept
<1>13. CanvasesWhole(d) BY <1>9, <1>12 DEF CanvasesWhole
<1>14. PlansArrived(d) BY <1>1, <1>8, <1>12, SketchConstants DEF PlansArrived, PlanArrived
<1>15. DragSound(d) BY <1>2 DEF DragSound
<1>16. ImagesSound(d)
  <2>1. Sketch(d)!NewUpload \in ImageRecord /\ Sketch(d)!NewUpload.request = 0
    BY DEF Sketch!NewUpload, ImageRecord
  <2> QED BY <1>2, <2>1 DEF ImagesSound
<1>17. crossed \in BOOLEAN /\ copiedObjects \in Objects(d) BY <1>2, <1>3
<1> QED BY <1>11, <1>13, <1>14, <1>15, <1>16, <1>17 DEF SketchIInv

LEMMA SketchNext ==
  ASSUME NEW d \in Sheets, SketchIInv(d), ~crossed, Sketch(d)!Next
  PROVE  SketchIInv(d)'
BY SketchSelects, SketchGoes, SketchAdds, SketchArranges, SketchDeletes, SketchFloors,
   SketchGrabs, SketchDrags, SketchDrops, SketchTurns, SketchCopies, SketchAnswers, SketchAsks
   DEF Sketch!Next

LEMMA SketchStill ==
  ASSUME NEW d \in Sheets, SketchIInv(d), UNCHANGED canvasVars
  PROVE  SketchIInv(d)'
<1>1. /\ canvas' = canvas /\ undoable' = undoable /\ redoable' = redoable /\ drag' = drag
      /\ copiedObjects' = copiedObjects /\ images' = images
      /\ referenceRequest' = referenceRequest /\ crossed' = crossed
  BY DEF canvasVars
<1>2. CanvasWhole(d, canvas) BY CanvasIsWhole
<1>3. PICK t : t = canvas OBVIOUS
<1> QED BY <1>1, <1>2, SketchLooked DEF DragFits

-----------------------------------------------------------------------------
(* What an answer may do.                                                  *)

LEMMA AnswerComes ==
  ASSUME NEW d \in Sheets, SketchIInv(d), Sketch(d)!Next,
         NEW u \in PlansOf[d], images[u].at = "SENT", images'[u].at = "DONE"
  PROVE  \/ \E o \in ObjectsOf[d] : Sketch(d)!ObjectUploaded(u, o)
         \/ Sketch(d)!ReferenceUploaded(u)
         \/ Sketch(d)!UploadFails(u)
<1>1. images \in [PlansOf[d] -> ImageRecord] BY DEF SketchIInv, ImagesSound
<1>2. PICK w \in PlansOf[d] :
        \/ \E o \in ObjectsOf[d] : Sketch(d)!ObjectUploaded(w, o)
        \/ Sketch(d)!ReferenceUploaded(w)
        \/ Sketch(d)!UploadFails(w)
  <2>1. ASSUME NEW w \in PlansOf[d], NEW purpose, Sketch(d)!Send(w, purpose) PROVE FALSE
    <3>1. images[w].at = "IDLE" /\ images'[w].at = "SENT"
          /\ \A v \in PlansOf[d] : v # w => images'[v] = images[v]
      BY <1>1, <2>1 DEF Sketch!Send
    <3> QED BY <3>1
  <2>2. images' # images OBVIOUS
  <2> QED BY <2>1, <2>2
       DEF Sketch!Next, Sketch!answers, Sketch!UNEDITED, Sketch!SelectAt, Sketch!Draw,
           Sketch!EnterSection, Sketch!UpdateObject, Sketch!BeginObjectDrag, Sketch!BeginNodeDrag,
           Sketch!SwitchFloor, Sketch!AddFloor, Sketch!RemoveFloor, Sketch!Arrange,
           Sketch!PointerMove, Sketch!Escape, Sketch!LeaveSection, Sketch!DeleteSelected,
           Sketch!DuplicateSelected, Sketch!CopySelected, Sketch!PasteCopied, Sketch!PointerUp,
           Sketch!Undo, Sketch!Redo, Sketch!RemoveReference
<1>3. w = u
  <2>1. Sketch(d)!Done(w)
    BY <1>2 DEF Sketch!ObjectUploaded, Sketch!ReferenceUploaded, Sketch!UploadFails
  <2> QED BY <1>1, <2>1 DEF Sketch!Done
<1> QED BY <1>2, <1>3

LEMMA SketchKeepsEdits ==
  ASSUME NEW d \in Sheets, SketchIInv(d), Sketch(d)!Next
  PROVE  Sketch(d)!AnswersKeepEdits
<1> SUFFICES ASSUME NEW u \in PlansOf[d], images[u].at = "SENT", images'[u].at = "DONE"
             PROVE  /\ DOMAIN canvas.objects \subseteq DOMAIN canvas'.objects
                    /\ \A o \in DOMAIN canvas.objects : canvas'.objects[o] = canvas.objects[o]
                    /\ canvas'.floors = canvas.floors
                    /\ canvas'.referencePlan \in {canvas.referencePlan, u}
  BY DEF Sketch!AnswersKeepEdits, Sketch!Ids
<1>1. CanvasWhole(d, canvas) /\ canvas \in Kept /\ canvas \in CanvasRecord(d)
  BY CanvasIsWhole DEF CanvasWhole
<1>2. ASSUME NEW o \in ObjectsOf[d], Sketch(d)!ObjectUploaded(u, o)
      PROVE  /\ DOMAIN canvas.objects \subseteq DOMAIN canvas'.objects
             /\ \A p \in DOMAIN canvas.objects : canvas'.objects[p] = canvas.objects[p]
             /\ canvas'.floors = canvas.floors /\ canvas'.referencePlan = canvas.referencePlan
  <2>1. o \notin DOMAIN canvas.objects
    BY <1>1, <1>2, SketchSees DEF Sketch!ObjectUploaded
  <2>2. PICK new : /\ DOMAIN new = {o}
                   /\ canvas' = Sketch(d)!AddObjects(canvas, new)
    BY <1>2 DEF Sketch!ObjectUploaded, Sketch!Commit, Sketch!Current
  <2>3. PICK both : both = [p \in DOMAIN canvas.objects \union DOMAIN new |->
                              IF p \in DOMAIN new THEN new[p] ELSE canvas.objects[p]]
    OBVIOUS
  <2>4. canvas' = [canvas EXCEPT !.objects = both, !.selectedIds = DOMAIN new]
    BY <2>2, <2>3 DEF Sketch!AddObjects, Sketch!Ids
  <2>5. canvas'.objects = both /\ canvas'.floors = canvas.floors
        /\ canvas'.referencePlan = canvas.referencePlan
    BY <1>1, <2>4 DEF CanvasRecord
  <2> QED BY <2>1, <2>2, <2>3, <2>5
<1>3. ASSUME Sketch(d)!ReferenceUploaded(u) \/ Sketch(d)!UploadFails(u)
      PROVE  /\ canvas'.objects = canvas.objects /\ canvas'.floors = canvas.floors
             /\ canvas'.referencePlan \in {canvas.referencePlan, u}
  <2>1. canvas' = [canvas EXCEPT !.referencePlan = u] \/ canvas' = canvas
    BY <1>3 DEF Sketch!ReferenceUploaded, Sketch!UploadFails, Sketch!Current
  <2> QED BY <1>1, <2>1 DEF CanvasRecord
<1> QED BY <1>2, <1>3, AnswerComes

LEMMA SketchKeepsOrder ==
  ASSUME NEW d \in Sheets, SketchIInv(d), ~crossed, Sketch(d)!Next
  PROVE  Sketch(d)!PlansComeInOrder
<1> SUFFICES ASSUME NEW u \in PlansOf[d], images[u].at = "SENT", images[u].purpose = "reference",
                    canvas'.referencePlan = u, canvas.referencePlan # u
             PROVE  \A w \in PlansOf[d] : images[w].request <= images[u].request
  BY DEF Sketch!PlansComeInOrder
<1>1. images'[u].at = "DONE"
  <2>1. SketchIInv(d)' BY SketchNext
  <2>2. canvas' \in Kept' BY DEF Kept
  <2> QED BY <2>1, <2>2 DEF SketchIInv, PlansArrived, PlanArrived
<1>2. Sketch(d)!ReferenceUploaded(u)
  BY <1>1, AnswerComes DEF Sketch!ObjectUploaded, Sketch!UploadFails
<1>3. images[u].request = referenceRequest
  BY <1>2 DEF Sketch!ReferenceUploaded, Sketch!NewestRequest
<1> QED BY <1>3 DEF SketchIInv, ImagesSound

SketchesWhole == \A d \in Sheets : component = d => SketchIInv(d)

SketchAnswersWell ==
  \A d \in Sheets : component = d => Sketch(d)!AnswersKeepEdits /\ Sketch(d)!PlansComeInOrder

LEMMA SketchesNext ==
  ASSUME SketchesWhole, [Next]_vars
  PROVE  SketchesWhole' /\ SketchAnswersWell
<1> SUFFICES ASSUME NEW d \in Sheets, component' = d \/ component = d
             PROVE  SketchIInv(d)' /\ Sketch(d)!AnswersKeepEdits /\ Sketch(d)!PlansComeInOrder
  BY DEF SketchesWhole, SketchAnswersWell
<1>1. component = d /\ SketchIInv(d) BY DEF Next, vars, SketchesWhole
<1>2. (~crossed /\ Sketch(d)!Next) \/ UNCHANGED canvasVars
  BY <1>1 DEF Next, vars, designVars, Sheets
<1>3. CASE ~crossed /\ Sketch(d)!Next
  BY <1>1, <1>3, SketchNext, SketchKeepsEdits, SketchKeepsOrder
<1>4. CASE UNCHANGED canvasVars
  <2>1. Sketch(d)!AnswersKeepEdits /\ Sketch(d)!PlansComeInOrder
    BY <1>4 DEF canvasVars, Sketch!AnswersKeepEdits, Sketch!PlansComeInOrder
  <2> QED BY <1>1, <1>4, <2>1, SketchStill
<1> QED BY <1>2, <1>3, <1>4

LEMMA SketchesAlways == Spec => []SketchesWhole
<1>1. Init => SketchesWhole
  <2> SUFFICES ASSUME Init, NEW d \in Sheets, component = d PROVE SketchIInv(d)
    BY DEF SketchesWhole
  <2>1. Sketch(d)!Init BY DEF Init, Sketched
  <2> QED BY <2>1, SketchInit
<1>2. SketchesWhole /\ [Next]_vars => SketchesWhole' BY SketchesNext
<1> QED BY <1>1, <1>2, PTL DEF Spec

LEMMA WholeIsPlaced ==
  ASSUME NEW d \in Sheets, NEW s, CanvasWhole(d, s)
  PROVE  Sketch(d)!WellPlaced(s) /\ Sketch(d)!IsEditorState(s)
<1>1. Sketch(d)!WellPlaced(s)
  BY SketchNames DEF CanvasWhole, Stands, Sketch!WellPlaced, Sketch!Ids
<1>2. Sketch(d)!IsEditorState(s)
  <2>1. Sketch(d)!ChartObject = DrawnObject(d) BY DEF Sketch!ChartObject, DrawnObject
  <2>2. s.referencePlan \in PlansOf[d] \union {NULL, "first"} BY DEF CanvasWhole, CanvasRecord
  <2> QED BY <2>1, <2>2, CanvasFields DEF Sketch!IsEditorState, Sketch!Ids
<1> QED BY <1>1, <1>2

(* src/src/components/seat-designer-v2/use-editor-history.ts:31-38 and     *)
(* use-editor-persistence.ts:38-60: an image or a plan that arrives late   *)
(* takes back no edit and no later plan; use-editor-history.ts:62-87 and   *)
(* floor-bar.tsx:35-51: nothing is left on a floor or in a section that is *)
(* gone, whatever is undone and redone.                                    *)
THEOREM DrawingsAreWhole == Spec => DrawingsAreKept
<1>1. SketchesWhole => \A d \in Sheets : component = d => Sketch(d)!NothingIsStranded
  <2> SUFFICES ASSUME NEW d \in Sheets, SketchIInv(d) PROVE Sketch(d)!NothingIsStranded
    BY DEF SketchesWhole
  <2> QED BY SketchShown, WholeIsPlaced DEF SketchIInv, CanvasesWhole, Sketch!NothingIsStranded
<1>2. Spec => [](\A d \in Sheets : component = d => Sketch(d)!NothingIsStranded)
  BY <1>1, SketchesAlways, PTL
<1>3. SketchesWhole /\ [Next]_vars =>
        [\A d \in Sheets : component = d =>
           Sketch(d)!AnswersKeepEdits /\ Sketch(d)!PlansComeInOrder]_vars
  BY SketchesNext DEF SketchAnswersWell
<1>4. Spec => [][\A d \in Sheets : component = d =>
                   Sketch(d)!AnswersKeepEdits /\ Sketch(d)!PlansComeInOrder]_vars
  BY <1>3, SketchesAlways, PTL DEF Spec
<1> QED BY <1>2, <1>4, PTL DEF DrawingsAreKept

LEMMA SketchTyped == ASSUME NEW d \in Sheets, SketchIInv(d) PROVE Sketch(d)!TypeOK
<1>1. \A s \in Sketch(d)!Shown : Sketch(d)!IsEditorState(s)
  BY SketchShown, WholeIsPlaced DEF SketchIInv, CanvasesWhole
<1>2. Len(undoable) + Len(redoable) <= MaxStepsOf[d] BY DEF SketchIInv, Steps
<1>3. DOMAIN copiedObjects \subseteq ObjectsOf[d] BY DEF SketchIInv, Objects
<1>4. ASSUME NEW u \in PlansOf[d]
      PROVE  /\ images[u].at \in {"IDLE", "SENT", "DONE"}
             /\ images[u].request \in 0..referenceRequest
  <2>1. /\ images[u] \in ImageRecord /\ images[u].request <= referenceRequest
        /\ referenceRequest \in Nat
    BY DEF SketchIInv, ImagesSound
  <2> QED BY <2>1 DEF ImageRecord
<1>5. drag # NULL => drag.kind \in {"OBJECTS", "NODE"} /\ drag.objectId \in ObjectsOf[d]
  BY DEF SketchIInv, DragSound
<1> QED BY <1>1, <1>2, <1>3, <1>4, <1>5 DEF SketchIInv, Sketch!TypeOK

-----------------------------------------------------------------------------
(* The types of the back office.                                           *)

LEMMA EditorTyped == ASSUME NEW d \in Canvas, EditorIInv(d) PROVE Editor(d)!TypeOK
BY DEF EditorIInv, CanvasSound, UploadsSound, KeptSound, UploadRecord, CallRecord, Editor!TypeOK

(* Every handler of the back office and of its pages keeps the shape of    *)
(* the records it writes, for any events, sellers, accounts, charts,       *)
(* drawings and requests.                                                  *)
THEOREM BackOfficeTyped == Spec => []TypeOK
<1>1. Edits => \A e \in Catalogue : component = e => Editing(e)!TypeOK BY DEF Edits, EditIInv
<1>2. SellerIInv => Onboarding!TypeOK BY DEF SellerIInv
<1>3. LoginIInv => Social!TypeOK BY DEF LoginIInv
<1>4. NiceIInv => Nice!TypeOK BY DEF NiceIInv
<1>5. ListIInv => Following!TypeOK BY DEF ListIInv
<1>6. FilesIInv => Files!TypeOK BY FilesTypeOK
<1>7. EditorsSound => \A d \in Canvas : component = d => Editor(d)!TypeOK
  BY EditorTyped DEF EditorsSound
<1>8. SketchesWhole => \A d \in Sheets : component = d => Sketch(d)!TypeOK
  BY SketchTyped DEF SketchesWhole
<1>9. Edits /\ SellerIInv /\ LoginIInv /\ NiceIInv /\ ListIInv /\ FilesIInv
        /\ EditorsSound /\ SketchesWhole => TypeOK
  BY <1>1, <1>2, <1>3, <1>4, <1>5, <1>6, <1>7, <1>8 DEF TypeOK
<1> QED BY <1>9, EditAlways, SellerAlways, LoginAlways, NiceAlways, ListAlways, FilesAlways,
           EditorsAlways, SketchesAlways, PTL
=============================================================================
