----------------------------- MODULE SeatEditor -----------------------------
(***************************************************************************)
(* The seat designer of the administration pages                           *)
(* (src/src/lib/seat-designer/use-editor.ts): one chart on the canvas, its *)
(* undo history, image uploads that answer late or out of order, and saves *)
(* whose answers replace the chart.  The chart store is one record per     *)
(* chart here (ChartRevisions has its files and locks); another editor may *)
(* save over it at any time and any answer may be lost.                    *)
(*                                                                         *)
(* A chart is its key, its draft revision and, per image slot (the two     *)
(* overlays, and every image object), the upload it shows; the rest of the *)
(* drawing is left out.                                                    *)
(***************************************************************************)
EXTENDS Naturals, FiniteSets, Sequences

CONSTANTS Chart,        \* keys of the chart store
          Upload,       \* image uploads; an object image is named by its own
          Overlay,      \* overlay slots: background image, reference chart
          Call,         \* calls of the chart store
          NULL,         \* none; also the key of a template never saved
          Limit,        \* undo steps kept: 80 in the code
          MaxRevision   \* bound on draft revisions

VARIABLES chart,            \* state.chart
          past, future,     \* state.past and state.future
          chartGeneration,  \* state.chartGeneration
          assetRequestIds,  \* state.assetRequestIds: the upload a slot awaits
          uploads,          \* what each upload was started for
          calls,            \* calls of the store and the charts they carry
          local,            \* the chart in localStorage, or NULL
          store             \* the store's draft of each chart, or NULL

editor == <<chart, past, future, chartGeneration, assetRequestIds>>
vars == <<chart, past, future, chartGeneration, assetRequestIds, uploads,
          calls, local, store>>

-----------------------------------------------------------------------------
Slot == Overlay \cup Upload

ChartDocument == [id : Chart \cup {NULL}, draftRevision : 0..MaxRevision,
                  hrefs : [Slot -> Upload \cup {NULL}]]

Template == [id |-> NULL, draftRevision |-> 0,
             hrefs |-> [s \in Slot |-> NULL]]

TypeOK ==
  /\ chart \in ChartDocument
  /\ past \in Seq(ChartDocument) /\ future \in Seq(ChartDocument)
  /\ Len(past) + Len(future) <= Limit
  /\ chartGeneration \in Nat
  /\ assetRequestIds \in [Slot -> Upload \cup {NULL}]
  /\ uploads \in [Upload ->
                    [at : {"IDLE", "SENT", "LANDED", "DROPPED"},
                     slot : Slot \cup {NULL}, replaces : BOOLEAN,
                     id : Chart \cup {NULL}, generation : Nat, begun : Nat]]
  /\ calls \in [Call ->
                  [at : {"IDLE", "SENT", "SAVED", "ANSWERED", "DONE"},
                   op : {"SAVE", "PUBLISH", "LOAD"},
                   chart : ChartDocument \cup {NULL}]]
  /\ local \in ChartDocument \cup {NULL}
  /\ store \in [Chart -> ChartDocument \cup {NULL}]

NewUpload == [at |-> "IDLE", slot |-> NULL, replaces |-> FALSE, id |-> NULL,
              generation |-> 0, begun |-> 0]

Dropped == [NewUpload EXCEPT !.at = "DROPPED"]

\* The store holds some charts, saved once; the page shows the blank template
\* or one of them, just loaded.
Init ==
  /\ store \in [Chart -> {NULL} \cup
                          {[Template EXCEPT !.id = c, !.draftRevision = 1] : c \in Chart}]
  /\ \A c \in Chart : store[c] # NULL => store[c].id = c
  /\ chart \in {Template} \cup ({store[c] : c \in Chart} \ {NULL})
  /\ past = <<>> /\ future = <<>>
  /\ chartGeneration = IF chart = Template THEN 0 ELSE 1
  /\ assetRequestIds = [s \in Slot |-> NULL]
  /\ uploads = [u \in Upload |-> NewUpload]
  /\ calls = [k \in Call |-> [at |-> "IDLE", op |-> "SAVE", chart |-> NULL]]
  /\ local = NULL

-----------------------------------------------------------------------------
(* The reducer.                                                            *)

\* A slip: one snapshot too many is kept.
NewestAndOneMore(s, n) == IF Len(s) <= n + 1 THEN s ELSE SubSeq(s, Len(s) - n, Len(s))
Newest(s, n) == IF Len(s) <= n THEN s ELSE SubSeq(s, Len(s) - n + 1, Len(s))

\* pushHistory: past.slice(-79) and the chart as it was; the future goes.
PushHistory(new) ==
  /\ chart' = new
  /\ past' = Append(Newest(past, Limit - 1), chart)
  /\ future' = <<>>

\* COMMIT and SET_NAME, from the handlers of the canvas and of the panels:
\* the drawing changes, and an image or an overlay may be taken off it.
Commit(s) ==
  /\ PushHistory([chart EXCEPT !.hrefs[s] = NULL])
  /\ UNCHANGED <<chartGeneration, assetRequestIds, uploads, calls, local, store>>

Undo ==
  /\ past # <<>>
  /\ chart' = past[Len(past)]
  /\ past' = SubSeq(past, 1, Len(past) - 1)
  /\ future' = <<chart>> \o future
  /\ UNCHANGED <<chartGeneration, assetRequestIds, uploads, calls, local, store>>

Redo ==
  /\ future # <<>>
  /\ chart' = Head(future)
  /\ past' = Append(past, chart)
  /\ future' = Tail(future)
  /\ UNCHANGED <<chartGeneration, assetRequestIds, uploads, calls, local, store>>

\* A slip: the history outlives the chart.
LoadKeepingHistory(new) ==
  /\ chart' = new
  /\ chartGeneration' = chartGeneration + 1
  /\ assetRequestIds' = [s \in Slot |-> NULL]
  /\ UNCHANGED <<past, future>>

\* LOAD and RESTORE_LOCAL.
Load(new) ==
  /\ chart' = new
  /\ past' = <<>> /\ future' = <<>>
  /\ chartGeneration' = chartGeneration + 1
  /\ assetRequestIds' = [s \in Slot |-> NULL]

\* The page is reloaded: its state is gone, calls in flight with it, and the
\* chart kept in the browser is restored.
Mount ==
  /\ \E u \in Upload : uploads[u].at # "IDLE" \/ \E k \in Call : calls[k].at # "IDLE"
  /\ past # <<>> \/ future # <<>> \/ chart # Template
  /\ chart' = IF local # NULL THEN local ELSE Template
  /\ past' = <<>> /\ future' = <<>>
  /\ chartGeneration' = IF local # NULL THEN 1 ELSE 0
  /\ assetRequestIds' = [s \in Slot |-> NULL]
  /\ uploads' = [u \in Upload |-> IF uploads[u].at = "IDLE" THEN NewUpload
                                  ELSE Dropped]
  /\ calls' = [k \in Call |-> IF calls[k].at = "IDLE" THEN calls[k]
                              ELSE [calls[k] EXCEPT !.at = "DONE",
                                                    !.chart = NULL]]
  /\ UNCHANGED <<local, store>>

-----------------------------------------------------------------------------
(* Image uploads.                                                          *)

InFlight == {u \in Upload : uploads[u].at = "SENT"}

\* BEGIN_ASSET_REQUEST: a new image object (its slot is the upload's own), the
\* replacement of an image on the chart, or an overlay.
BeginAssetRequest(u, s) ==
  LET replaces == chart.hrefs[s] # NULL IN
  /\ uploads[u].at = "IDLE"
  /\ replaces \/ s \in Overlay \/ s = u
  /\ assetRequestIds' = [assetRequestIds EXCEPT ![s] = u]
  /\ uploads' = [uploads EXCEPT
       ![u] = [at |-> "SENT", slot |-> s, replaces |-> replaces,
               id |-> chart.id, generation |-> chartGeneration,
               begun |-> Cardinality({w \in Upload : uploads[w].at # "IDLE"})]]
  /\ UNCHANGED <<chart, past, future, chartGeneration, calls, local, store>>

\* targetChartId and targetChartGeneration against the chart on the canvas.
SameChart(u) ==
  uploads[u].id = chart.id /\ uploads[u].generation = chartGeneration

\* A slip: only the chart is compared.
StaleChart(u) == ~SameChart(u)

\* A slip: every answer is taken.
NeverStale(u) == FALSE

Stale(u) == ~SameChart(u) \/ assetRequestIds[uploads[u].slot] # u

\* ADD_OBJECT, PATCH_IMAGE_ASSET and SET_OVERLAY_ASSET: an answer for another
\* chart, or one a later request of the slot replaced, changes nothing; one
\* whose image has gone meanwhile only ends the request.
AssetUploaded(u) ==
  LET s == uploads[u].slot IN
  /\ uploads[u].at = "SENT"
  /\ IF Stale(u)
     THEN /\ uploads' = [uploads EXCEPT ![u] = Dropped]
          /\ UNCHANGED editor
     ELSE /\ assetRequestIds' = [assetRequestIds EXCEPT ![s] = NULL]
          /\ UNCHANGED chartGeneration
          /\ IF uploads[u].replaces /\ chart.hrefs[s] = NULL
             THEN /\ uploads' = [uploads EXCEPT ![u] = Dropped]
                  /\ UNCHANGED <<chart, past, future>>
             ELSE /\ uploads' = [uploads EXCEPT ![u].at = "LANDED"]
                  /\ PushHistory([chart EXCEPT !.hrefs[s] = u])
  /\ UNCHANGED <<calls, local, store>>

\* END_ASSET_REQUEST: the upload failed.
EndAssetRequest(u) ==
  LET s == uploads[u].slot IN
  /\ uploads[u].at = "SENT"
  /\ uploads' = [uploads EXCEPT ![u] = Dropped]
  /\ assetRequestIds' = IF assetRequestIds[s] = u
                        THEN [assetRequestIds EXCEPT ![s] = NULL]
                        ELSE assetRequestIds
  /\ UNCHANGED <<chart, past, future, chartGeneration, calls, local, store>>

-----------------------------------------------------------------------------
(* The browser's copy and the store.                                       *)

\* The buttons are disabled while a slot awaits an upload.
NoUploadPending == \A s \in Slot : assetRequestIds[s] = NULL

SaveLocal ==
  /\ NoUploadPending
  /\ local' = chart
  /\ UNCHANGED <<chart, past, future, chartGeneration, assetRequestIds,
                 uploads, calls, store>>

\* saveToServer, publishToServer and loadFromServer up to their first await:
\* the call carries the chart of the render it was made from.
SendCall(k, op, sent) ==
  /\ calls[k].at = "IDLE"
  /\ op # "LOAD" => NoUploadPending /\ sent = chart
  /\ op = "LOAD" => sent \in {store[c] : c \in Chart} \ {NULL}
  /\ calls' = [calls EXCEPT ![k] = [at |-> "SENT", op |-> op, chart |-> sent]]
  /\ UNCHANGED <<chart, past, future, chartGeneration, assetRequestIds,
                 uploads, local, store>>

\* saveSeatChart: a template gets a new key, a draft must still be at the
\* revision that was sent.  A publication goes on with the saved draft.
StoreSaves(k) ==
  LET sent == calls[k].chart
      keys == IF sent.id = NULL THEN {c \in Chart : store[c] = NULL} ELSE {sent.id}
  IN
  /\ calls[k].at = "SENT" /\ calls[k].op # "LOAD"
  /\ sent.draftRevision < MaxRevision
  /\ \E c \in keys :
       LET saved == [sent EXCEPT !.id = c, !.draftRevision = @ + 1] IN
       IF sent.id # NULL /\ (store[c] = NULL \/ store[c].draftRevision # sent.draftRevision)
       THEN /\ calls' = [calls EXCEPT ![k].at = "DONE", ![k].chart = NULL]
            /\ UNCHANGED store
       ELSE /\ store' = [store EXCEPT ![c] = saved]
            /\ calls' = [calls EXCEPT
                 ![k].at = IF calls[k].op = "SAVE" THEN "ANSWERED" ELSE "SAVED",
                 ![k].chart = saved]
  /\ UNCHANGED <<chart, past, future, chartGeneration, assetRequestIds,
                 uploads, local>>

\* The record of a publication or of a load is the draft as it is by then.
StoreAnswers(k) ==
  /\ \/ calls[k].at = "SAVED"
     \/ calls[k].at = "SENT" /\ calls[k].op = "LOAD"
  /\ calls' = [calls EXCEPT ![k].at = "ANSWERED",
                            ![k].chart = store[calls[k].chart.id]]
  /\ UNCHANGED <<chart, past, future, chartGeneration, assetRequestIds,
                 uploads, local, store>>

\* The answer arrives: LOAD, whatever the canvas shows by now; a publication
\* leaves localStorage alone.
Answered(k) ==
  /\ calls[k].at = "ANSWERED"
  /\ Load(calls[k].chart)
  /\ local' = IF calls[k].op = "PUBLISH" THEN local ELSE calls[k].chart
  /\ calls' = [calls EXCEPT ![k].at = "DONE", ![k].chart = NULL]
  /\ UNCHANGED <<uploads, store>>

\* The call fails on its way there or back: a message, and nothing else.
CallFails(k) ==
  /\ calls[k].at \in {"SENT", "SAVED", "ANSWERED"}
  /\ calls' = [calls EXCEPT ![k].at = "DONE", ![k].chart = NULL]
  /\ UNCHANGED <<chart, past, future, chartGeneration, assetRequestIds,
                 uploads, local, store>>

\* Another editor saves the chart.
AnotherSave(c) ==
  /\ store[c] # NULL /\ store[c].draftRevision < MaxRevision
  /\ store' = [store EXCEPT ![c].draftRevision = @ + 1]
  /\ UNCHANGED <<chart, past, future, chartGeneration, assetRequestIds,
                 uploads, calls, local>>

Next ==
  \/ \E s \in Slot : Commit(s)
  \/ Undo
  \/ Redo
  \/ Mount
  \/ \E u \in Upload, s \in Slot : BeginAssetRequest(u, s)
  \/ \E u \in Upload : AssetUploaded(u) \/ EndAssetRequest(u)
  \/ SaveLocal
  \/ \E k \in Call :
       \/ \E op \in {"SAVE", "PUBLISH"} : SendCall(k, op, chart)
       \/ \E c \in Chart : SendCall(k, "LOAD", store[c])
       \/ StoreSaves(k)
       \/ StoreAnswers(k)
       \/ Answered(k)
       \/ CallFails(k)
  \/ \E c \in Chart : AnotherSave(c)

Spec == Init /\ [][Next]_vars

-----------------------------------------------------------------------------
\* Undo and redo never leave the chart on the canvas, and never bring back a
\* revision the store has moved on from: every snapshot has the key and the
\* draft revision of the chart shown (LOAD empties past and future).
HistoryIsOfThisChart ==
  \A h \in {past[i] : i \in 1..Len(past)} \cup {future[i] : i \in 1..Len(future)} :
    h.id = chart.id /\ h.draftRevision = chart.draftRevision

\* An image uploaded for one chart never shows on another, however late its
\* answer comes and whatever was loaded, saved, undone or redone meanwhile.
UploadsStayOnTheirChart ==
  \A u \in Upload, s \in Slot :
    chart.hrefs[s] = u /\ uploads[u].id # NULL => uploads[u].id = chart.id

\* The step of NewestUploadWins.
TakesTheNewest ==
  \A u, w \in Upload :
    /\ uploads[u].at = "SENT" /\ uploads'[u].at = "LANDED"
    /\ uploads[w].at = "LANDED"
    /\ uploads[w].slot = uploads[u].slot
    /\ uploads[w].generation = uploads[u].generation
    => uploads[w].begun < uploads[u].begun

\* Of two uploads for one slot of one loaded chart, the answer of the earlier
\* is never taken after the answer of the later.
NewestUploadWins == [][TakesTheNewest]_vars
=============================================================================
