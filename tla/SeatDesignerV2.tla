--------------------------- MODULE SeatDesignerV2 ---------------------------
(***************************************************************************)
(* The seat designer the administration page shows                         *)
(* (src/src/components/seat-designer-v2): floors, sections and objects on  *)
(* a canvas, an undo history of whole editor states, drags that redraw the *)
(* canvas from the state they began in, keys that work while the mouse is  *)
(* down, and images whose uploads answer at any time.                      *)
(*                                                                         *)
(* An object has the floor and the section it lies in, whether it is       *)
(* locked, and a place, which a drag or an alignment changes; its shape,   *)
(* label and seats are left out, and so are tools, zoom and messages.  An  *)
(* object or a floor gets a name no state, kept or shown, still uses.      *)
(***************************************************************************)
EXTENDS Integers, FiniteSets, Sequences, Functions, Lists

CONSTANTS Object,      \* names of objects
          Floor,       \* names of floors
          Upload,      \* image uploads, and the plans they bring
          Place,       \* where an object can be
          NULL,        \* no section, no plan, no drag
          MaxSteps,    \* bound on the states past and future together
          MaxRequests  \* bound on the requests for a plan, removals included

VARIABLES state,             \* what is on the canvas (stateRef.current too)
          past, future,      \* states to undo and to redo to
          drag,              \* the drag under way and its dragOrigin, or NULL
          copiedObjects,     \* the clipboard
          uploads,           \* what each upload is for, and its request
          referenceRequest,  \* referenceRequest.current
          crossed            \* an undo or redo fell into a drag

vars == <<state, past, future, drag, copiedObjects, uploads, referenceRequest,
          crossed>>
history == <<past, future>>
answers == <<uploads, referenceRequest>>

-----------------------------------------------------------------------------
ChartObject == [kind : {"SECTION", "ROW", "IMAGE"}, floorId : Floor,
                sectionId : Object \cup {NULL}, locked : BOOLEAN, place : Place]

Ids(s) == DOMAIN s.objects

IsEditorState(s) ==
  /\ Ids(s) \subseteq Object
  /\ \A o \in Ids(s) : s.objects[o] \in ChartObject
  /\ s.selectedIds \subseteq Object
  /\ s.floors \in Seq(Floor)
  /\ s.activeFloorId \in Floor
  /\ s.activeSectionId \in Object \cup {NULL}
  /\ s.referencePlan \in Upload \cup {NULL, "first"}

Snapshots == Range(past) \cup Range(future)

Shown == {state} \cup (IF drag = NULL THEN {} ELSE {drag.origin}) \cup Snapshots

TypeOK ==
  /\ \A s \in Shown : IsEditorState(s)
  /\ Len(past) + Len(future) <= MaxSteps
  /\ drag # NULL => drag.kind \in {"OBJECTS", "NODE"} /\ drag.objectId \in Object
  /\ DOMAIN copiedObjects \subseteq Object
  /\ \A u \in Upload : /\ uploads[u].at \in {"IDLE", "SENT", "DONE"}
                       /\ uploads[u].request \in 0..referenceRequest
  /\ crossed \in BOOLEAN

NoObjects == [o \in {} |-> NULL]

NewUpload == [at |-> "IDLE", purpose |-> "object", request |-> 0]

\* INITIAL_STATE, and start: a blank canvas over a plan or over none.
Init ==
  /\ \E f \in Floor, plan \in {NULL, "first"} :
       state = [objects |-> NoObjects, selectedIds |-> {}, floors |-> <<f>>,
                activeFloorId |-> f, activeSectionId |-> NULL,
                referencePlan |-> plan]
  /\ past = <<>> /\ future = <<>>
  /\ drag = NULL
  /\ copiedObjects = NoObjects
  /\ uploads = [u \in Upload |-> NewUpload]
  /\ referenceRequest = 0
  /\ crossed = FALSE

-----------------------------------------------------------------------------
(* Helpers of the canvas.                                                  *)

Selected == state.selectedIds \cap Ids(state)

Unlocked == {o \in Selected : ~state.objects[o].locked}

\* visibleObjects; the contents of sections are shown among the rest or not.
Visible ==
  {o \in Ids(state) :
     /\ state.objects[o].floorId = state.activeFloorId
     /\ state.activeSectionId # NULL =>
          state.objects[o].sectionId = state.activeSectionId}

FreshObjects ==
  Object \ ((UNION {Ids(s) : s \in Shown}) \cup DOMAIN copiedObjects)

FreshFloors == Floor \ UNION {Range(s.floors) : s \in Shown}

\* The mouse holds the canvas: no button, list or field can be clicked.
MouseIsFree == drag = NULL

RoomForAStep == Len(past) < MaxSteps

\* commit and commitCurrent: the state as it was can be undone to, and what
\* could be redone is gone.
Commit(next) ==
  /\ RoomForAStep
  /\ past' = Append(past, state)
  /\ future' = <<>>
  /\ state' = next

\* scoped: a new object belongs to the floor and section being edited.
Scoped(object) == [object EXCEPT !.floorId = state.activeFloorId,
                                 !.sectionId = state.activeSectionId]

\* The rehoming of pasteCopied.
Pasted(object) == Scoped(object)

AddObjects(s, new) ==
  [s EXCEPT
     !.objects = [o \in Ids(s) \cup DOMAIN new |->
                    IF o \in DOMAIN new THEN new[o] ELSE s.objects[o]],
     !.selectedIds = DOMAIN new]

-----------------------------------------------------------------------------
(* Selecting, floors and sections: none of it enters the history.          *)

UNEDITED == <<history, drag, copiedObjects, answers, crossed>>

\* selectAt: nothing, one object, one more, or all of a kind.
SelectAt(ids) ==
  /\ MouseIsFree
  /\ \/ ids = {}
     \/ \E o \in Visible :
          \/ ids = {o}
          \/ ids = state.selectedIds \cup {o}
          \/ ids = {p \in Visible : state.objects[p].kind = state.objects[o].kind}
  /\ ids # state.selectedIds
  /\ state' = [state EXCEPT !.selectedIds = ids]
  /\ UNCHANGED UNEDITED

\* The Escape key, drag or not.
Escape ==
  /\ state.selectedIds # {}
  /\ state' = [state EXCEPT !.selectedIds = {}]
  /\ UNCHANGED UNEDITED

SwitchFloor(f) ==
  /\ MouseIsFree
  /\ f \in Range(state.floors) \ {state.activeFloorId}
  /\ state' = [state EXCEPT !.activeFloorId = f, !.activeSectionId = NULL,
                            !.selectedIds = {}]
  /\ UNCHANGED UNEDITED

EnterSection(o) ==
  /\ MouseIsFree
  /\ o \in Selected /\ state.objects[o].kind = "SECTION"
  /\ state' = [state EXCEPT !.activeSectionId = o, !.selectedIds = {}]
  /\ UNCHANGED UNEDITED

LeaveSection ==
  LET o == state.activeSectionId IN
  /\ MouseIsFree
  /\ o \in Ids(state) /\ state.objects[o].kind = "SECTION"
  /\ state' = [state EXCEPT !.activeSectionId = NULL, !.selectedIds = {o}]
  /\ UNCHANGED UNEDITED

-----------------------------------------------------------------------------
(* Edits that are committed at once.                                       *)

\* The drawing tools: one object, or several rows.
Draw(ids, kind, at) ==
  LET object == [kind |-> kind, floorId |-> state.activeFloorId,
                 sectionId |-> state.activeSectionId, locked |-> FALSE, place |-> at]
  IN
  /\ MouseIsFree
  /\ ids # {} /\ ids \subseteq FreshObjects
  /\ kind = "SECTION" => Cardinality(ids) = 1
  /\ Commit(AddObjects(state, [o \in ids |-> object]))
  /\ UNCHANGED <<drag, copiedObjects, answers, crossed>>

\* updateObject and the handles of nodes: the object shown in the inspector
\* is locked, unlocked or redrawn.
UpdateObject(o, locked, at) ==
  LET next == [state EXCEPT !.objects[o].locked = locked,
                            !.objects[o].place = at]
  IN
  /\ MouseIsFree
  /\ o \in Selected
  /\ next # state
  /\ Commit(next)
  /\ UNCHANGED <<drag, copiedObjects, answers, crossed>>

\* alignSelected, distributeSelected and flipSelected.
Arrange(at) ==
  /\ MouseIsFree
  /\ state.selectedIds # {}
  /\ Commit([state EXCEPT !.objects =
       [o \in Ids(state) |-> IF o \in Unlocked
                             THEN [state.objects[o] EXCEPT !.place = at]
                             ELSE state.objects[o]]])
  /\ UNCHANGED <<drag, copiedObjects, answers, crossed>>

\* The cascade of deleteSelected: what lies in a section goes with it, down
\* to the least set that has the contents of its sections.
Contents(gone) ==
  LET Closed(ids) == \A o \in Ids(state) : state.objects[o].sectionId \in ids => o \in ids
  IN {o \in Ids(state) :
        \A ids \in SUBSET Ids(state) : gone \subseteq ids /\ Closed(ids) => o \in ids}

DeleteSelected ==
  LET gone == Contents(Unlocked) IN
  /\ gone # {}
  /\ Commit([state EXCEPT
       !.objects = [o \in Ids(state) \ gone |-> state.objects[o]],
       !.selectedIds = {}])
  /\ UNCHANGED <<drag, copiedObjects, answers, crossed>>

\* Copies of some objects under new names.
Copies(originals) ==
  UNION {{[o \in new |-> originals[original[o]]] :
             original \in Bijection(new, DOMAIN originals)} : new \in SUBSET FreshObjects}

DuplicateSelected ==
  /\ MouseIsFree
  /\ Unlocked # {}
  /\ \E copies \in Copies([o \in Unlocked |-> state.objects[o]]) :
       Commit(AddObjects(state, copies))
  /\ UNCHANGED <<drag, copiedObjects, answers, crossed>>

CopySelected ==
  /\ copiedObjects' = [o \in Unlocked |-> state.objects[o]]
  /\ copiedObjects' # copiedObjects
  /\ UNCHANGED <<state, history, drag, answers, crossed>>

PasteCopied ==
  /\ DOMAIN copiedObjects # {}
  /\ \E copies \in Copies(copiedObjects) :
       Commit(AddObjects(state, [o \in DOMAIN copies |-> Pasted(copies[o])]))
  /\ UNCHANGED <<drag, copiedObjects, answers, crossed>>

AddFloor(f) ==
  /\ MouseIsFree
  /\ f \in FreshFloors
  /\ Commit([state EXCEPT !.floors = Append(@, f), !.activeFloorId = f,
                          !.activeSectionId = NULL, !.selectedIds = {}])
  /\ UNCHANGED <<drag, copiedObjects, answers, crossed>>

\* The objects of a floor that is removed move to the first that remains.
Moved(o, f, fallback) ==
  IF state.objects[o].floorId = f
  THEN [state.objects[o] EXCEPT !.floorId = fallback]
  ELSE state.objects[o]

RemoveFloor(f) ==
  LET remaining == Only(state.floors, Floor \ {f}) IN
  /\ MouseIsFree
  /\ f \in Range(state.floors) /\ Len(state.floors) > 1
  /\ Commit([state EXCEPT
       !.floors = remaining,
       !.objects = [o \in Ids(state) |-> Moved(o, f, Head(remaining))],
       !.activeFloorId = IF @ = f THEN Head(remaining) ELSE @,
       !.activeSectionId = NULL, !.selectedIds = {}])
  /\ UNCHANGED <<drag, copiedObjects, answers, crossed>>

-----------------------------------------------------------------------------
(* Drags.  Each move draws the objects of dragOrigin again, the selected   *)
(* ones displaced; only the end of the drag enters the history.            *)

\* beginObjectDrag: the object under the mouse is selected; if it is locked,
\* that is all.
BeginObjectDrag(o) ==
  LET ids == IF o \in state.selectedIds THEN state.selectedIds ELSE {o}
      next == [state EXCEPT !.selectedIds = ids]
  IN
  /\ MouseIsFree /\ RoomForAStep
  /\ o \in Visible
  /\ ~state.objects[o].locked
  /\ drag' = [kind |-> "OBJECTS", objectId |-> o, origin |-> next]
  /\ state' = next
  /\ UNCHANGED <<history, copiedObjects, answers, crossed>>

\* The node tool takes hold of a corner of a selected object.
BeginNodeDrag(o) ==
  /\ MouseIsFree /\ RoomForAStep
  /\ o \in Selected
  /\ drag' = [kind |-> "NODE", objectId |-> o, origin |-> state]
  /\ UNCHANGED <<state, history, copiedObjects, answers, crossed>>

PointerMove(at) ==
  LET origin == drag.origin IN
  /\ drag # NULL
  /\ IF drag.kind = "OBJECTS"
     THEN state' = [state EXCEPT !.objects =
            [o \in Ids(origin) |-> IF o \in origin.selectedIds
                                   THEN [origin.objects[o] EXCEPT !.place = at]
                                   ELSE origin.objects[o]]]
     ELSE state' = IF drag.objectId \in Ids(state)
                   THEN [state EXCEPT !.objects[drag.objectId].place = at]
                   ELSE state
  /\ state' # state
  /\ UNCHANGED <<history, drag, copiedObjects, answers, crossed>>

PointerUp ==
  /\ drag # NULL
  /\ RoomForAStep
  /\ past' = Append(past, drag.origin)
  /\ future' = <<>>
  /\ drag' = NULL
  /\ UNCHANGED <<state, copiedObjects, answers, crossed>>

-----------------------------------------------------------------------------
(* The history.  The keys work during a drag, which goes on from its own   *)
(* origin: what it draws next may not belong to the state undone to.       *)

Undo ==
  /\ past # <<>>
  /\ state' = past[Len(past)]
  /\ past' = SubSeq(past, 1, Len(past) - 1)
  /\ future' = <<state>> \o future
  /\ crossed' = (crossed \/ drag # NULL)
  /\ UNCHANGED <<drag, copiedObjects, answers>>

Redo ==
  /\ future # <<>>
  /\ state' = Head(future)
  /\ past' = Append(past, state)
  /\ future' = Tail(future)
  /\ crossed' = (crossed \/ drag # NULL)
  /\ UNCHANGED <<drag, copiedObjects, answers>>

-----------------------------------------------------------------------------
(* Images and the reference plan: sent from one state, answered in another.*)

\* uploadObject and replaceReference up to their await.
Send(u, purpose) ==
  /\ MouseIsFree
  /\ uploads[u].at = "IDLE"
  /\ purpose = "reference" =>
       state.referencePlan # NULL /\ referenceRequest < MaxRequests
  /\ referenceRequest' = referenceRequest + (IF purpose = "reference" THEN 1 ELSE 0)
  /\ uploads' = [uploads EXCEPT ![u] = [at |-> "SENT", purpose |-> purpose,
                                        request |-> referenceRequest']]
  /\ UNCHANGED <<state, history, drag, copiedObjects, crossed>>

Done(u) == uploads' = [uploads EXCEPT ![u].at = "DONE"]

\* A slip: the state of an earlier render, from before the last edit.
Rendered == IF past = <<>> THEN state ELSE past[Len(past)]

\* stateRef.current and the updaters of setState: the state by now.  (The
\* effect that sets the ref runs after rendering; between a setState and that
\* effect the ref is a state behind, which is left out.)
Current == state

\* The image of uploadObject is added to the floor and section edited by now.
ObjectUploaded(u, o) ==
  LET current == Current
      image == [kind |-> "IMAGE", floorId |-> current.activeFloorId,
                sectionId |-> current.activeSectionId, locked |-> FALSE,
                place |-> CHOOSE p \in Place : TRUE]
  IN
  /\ uploads[u].at = "SENT" /\ uploads[u].purpose = "object"
  /\ o \in FreshObjects
  /\ Commit(AddObjects(current, [id \in {o} |-> image]))
  /\ Done(u)
  /\ UNCHANGED <<drag, copiedObjects, referenceRequest, crossed>>

NewestRequest(u) == uploads[u].request = referenceRequest

\* replaceReference: only the newest request, only while there is a plan, and
\* past the history.
ReferenceUploaded(u) ==
  /\ uploads[u].at = "SENT" /\ uploads[u].purpose = "reference"
  /\ state' = IF NewestRequest(u) /\ Current.referencePlan # NULL
              THEN [Current EXCEPT !.referencePlan = u] ELSE state
  /\ Done(u)
  /\ UNCHANGED <<history, drag, copiedObjects, referenceRequest, crossed>>

UploadFails(u) ==
  /\ uploads[u].at = "SENT"
  /\ Done(u)
  /\ UNCHANGED <<state, history, drag, copiedObjects, referenceRequest, crossed>>

RemoveReference ==
  /\ MouseIsFree
  /\ state.referencePlan # NULL
  /\ referenceRequest < MaxRequests
  /\ state' = [state EXCEPT !.referencePlan = NULL]
  /\ referenceRequest' = referenceRequest + 1
  /\ UNCHANGED <<history, drag, copiedObjects, uploads, crossed>>

-----------------------------------------------------------------------------
Next ==
  \/ \E ids \in SUBSET Object :
       \/ SelectAt(ids)
       \/ \E kind \in {"SECTION", "ROW"}, at \in Place : Draw(ids, kind, at)
  \/ \E o \in Object :
       \/ EnterSection(o)
       \/ \E locked \in BOOLEAN, at \in Place : UpdateObject(o, locked, at)
       \/ BeginObjectDrag(o)
       \/ BeginNodeDrag(o)
  \/ \E f \in Floor : SwitchFloor(f) \/ AddFloor(f) \/ RemoveFloor(f)
  \/ \E at \in Place : Arrange(at) \/ PointerMove(at)
  \/ Escape
  \/ LeaveSection
  \/ DeleteSelected
  \/ DuplicateSelected
  \/ CopySelected
  \/ PasteCopied
  \/ PointerUp
  \/ Undo
  \/ Redo
  \/ RemoveReference
  \/ \E u \in Upload :
       \/ \E purpose \in {"object", "reference"} : Send(u, purpose)
       \/ \E o \in Object : ObjectUploaded(u, o)
       \/ ReferenceUploaded(u)
       \/ UploadFails(u)

Spec == Init /\ [][Next]_vars

-----------------------------------------------------------------------------
\* Every object of a state lies on a floor of the chart and in no section or
\* in one that is there, on the same floor.
WellPlaced(s) ==
  /\ s.activeFloorId \in Range(s.floors)
  /\ \A o \in Ids(s) :
       LET object == s.objects[o] IN
       /\ object.floorId \in Range(s.floors)
       /\ object.sectionId # NULL =>
            /\ object.sectionId \in Ids(s)
            /\ s.objects[object.sectionId].kind = "SECTION"
            /\ s.objects[object.sectionId].floorId = object.floorId

\* Nothing is drawn where no floor or section shows it, in the chart and in
\* every state that can be undone or redone to: whatever order sections are
\* entered, copied, pasted into and deleted and floors removed in, and
\* wherever the editor is when an image arrives.  An undo in the middle of a
\* drag is the exception: the drag draws the objects of the state it began in
\* on the floors of another.
NothingIsStranded == ~crossed => \A s \in Shown : WellPlaced(s)

\* An answer that arrives adds its image or its plan and takes back nothing
\* that was edited since it was asked for.
AnswersKeepEdits ==
  \A u \in Upload :
    uploads[u].at = "SENT" /\ uploads'[u].at = "DONE" =>
      /\ Ids(state) \subseteq Ids(state')
      /\ \A o \in Ids(state) : state'.objects[o] = state.objects[o]
      /\ state'.floors = state.floors
      /\ state'.referencePlan \in {state.referencePlan, u}

\* Of the plans asked for in turn none replaces one asked for later, nor
\* comes back after the plan was removed, other than by undo and redo.
PlansComeInOrder ==
  \A u \in Upload :
    /\ uploads[u].at = "SENT" /\ uploads[u].purpose = "reference"
    /\ state'.referencePlan = u /\ state.referencePlan # u
    => \A w \in Upload : uploads[w].request <= uploads[u].request
=============================================================================
