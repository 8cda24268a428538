--------------------------- MODULE ChartRevisions ---------------------------
(***************************************************************************)
(* The seat-chart store of src/src/lib/seat-charts: drafts, published      *)
(* revisions and one pointer file per venue, all of them files written by  *)
(* asynchronous calls that several HTTP requests and several processes     *)
(* interleave.  An editor opens a draft and saves over it with the draft   *)
(* revision it read; a publication freezes the draft in a revision file    *)
(* and then moves the venue's pointer to it.  Only saves and deactivations *)
(* take the chart's lock file; a crash leaves the lock behind.             *)
(*                                                                         *)
(* A document is the request that wrote it.  A request is used once, so    *)
(* the number of requests bounds the behaviours.                           *)
(***************************************************************************)
EXTENDS Naturals

CONSTANTS Chart,     \* chart keys
          Venue,     \* venues a chart can be drawn for
          Request,   \* HTTP requests; also the names of what they write
          NULL       \* no file

VARIABLES drafts,     \* drafts/<chart>.json, NULL where there is none
          locks,      \* the charts with a file locks/<chart>.lock
          revisions,  \* the revision file a request wrote, NULL before
          venues,     \* venues/<venue>.json: the request whose revision is
                      \* active, or NULL
          requests    \* the requests in flight and the copies they hold

vars == <<drafts, locks, revisions, venues, requests>>

-----------------------------------------------------------------------------
Draft == [chart : Chart, venue : Venue, draftRevision : Nat,
          author : Request \cup {NULL}]

Revision == [draft : Draft, whole : BOOLEAN]

Phases == {"IDLE", "OPENED", "SAVING", "CHECKED", "PUBLISHING", "FREEZING",
           "ACTIVATING", "DEACTIVATING", "COMPARING", "REMOVING", "DELETING",
           "UNLOCKING", "ANSWERED", "LOST"}

\* What a request does once its document is saved.
After == {"ANSWERED", "PUBLISHING", "DEACTIVATING"}

Idle == [phase |-> "IDLE", after |-> "ANSWERED", copy |-> NULL, venue |-> NULL]

TypeOK ==
  /\ drafts \in [Chart -> Draft \cup {NULL}]
  /\ locks \subseteq Chart
  /\ revisions \in [Request -> Revision \cup {NULL}]
  /\ venues \in [Venue -> Request \cup {NULL}]
  /\ requests \in [Request ->
                     [phase : Phases, after : After, copy : Draft \cup {NULL},
                      venue : Venue \cup {NULL}]]

\* Some charts were saved once before the requests begin; none is published.
Init ==
  /\ \E saved \in SUBSET Chart, v \in Venue :
       drafts = [c \in Chart |->
                  IF c \in saved
                  THEN [chart |-> c, venue |-> v, draftRevision |-> 1,
                        author |-> NULL]
                  ELSE NULL]
  /\ locks = {}
  /\ revisions = [r \in Request |-> NULL]
  /\ venues = [v \in Venue |-> NULL]
  /\ requests = [r \in Request |-> Idle]

At(r, phase) == requests[r].phase = phase

Goto(r, phase) == requests' = [requests EXCEPT ![r].phase = phase]

CurrentRevision(c) == IF drafts[c] = NULL THEN 0 ELSE drafts[c].draftRevision

\* createChartKey: a key no file and no request ever named.
FreshKey(c) ==
  /\ drafts[c] = NULL
  /\ \A q \in Request : requests[q].copy # NULL => requests[q].copy.chart # c

\* The document saveSeatChart builds over the copy the caller holds.
Document(r) ==
  LET copy == requests[r].copy IN
  [chart |-> copy.chart, venue |-> requests[r].venue,
   draftRevision |-> copy.draftRevision + 1, author |-> r]

-----------------------------------------------------------------------------
(* Opening a chart, and the requests made from the opened copy.            *)

\* An editor loads a draft, or starts a chart of its own; publishSeatChart
\* reads the current record the same way before it does anything.
Open(r, c) ==
  /\ At(r, "IDLE")
  /\ \/ /\ drafts[c] # NULL
        /\ requests' = [requests EXCEPT ![r].phase = "OPENED",
                                        ![r].copy = drafts[c],
                                        ![r].venue = drafts[c].venue]
     \/ /\ FreshKey(c)
        /\ \E v \in Venue :
             requests' = [requests EXCEPT ![r].phase = "OPENED",
                            ![r].copy = [chart |-> c, venue |-> v,
                                         draftRevision |-> 0, author |-> NULL],
                            ![r].venue = v]
  /\ UNCHANGED <<drafts, locks, revisions, venues>>

\* withChartLock, at its start: the lock file is created, or the request is
\* answered STALE because it exists.
Lock(r, phase) ==
  LET c == requests[r].copy.chart IN
  \/ c \in locks /\ Goto(r, "ANSWERED") /\ UNCHANGED locks
  \/ c \notin locks /\ locks' = locks \cup {c} /\ Goto(r, phase)

\* A save bound to any venue, on its own or because a publication or a
\* deactivation names another venue than the draft's.
SaveSeatChart(r, v, after) ==
  LET c == requests[r].copy.chart IN
  /\ At(r, "OPENED")
  /\ after # "ANSWERED" =>
       requests[r].copy.draftRevision > 0 /\ v # requests[r].copy.venue
  /\ \/ /\ c \in locks
        /\ Goto(r, "ANSWERED")
        /\ UNCHANGED locks
     \/ /\ c \notin locks
        /\ locks' = locks \cup {c}
        /\ requests' = [requests EXCEPT ![r].phase = "SAVING",
                                        ![r].venue = v, ![r].after = after]
  /\ UNCHANGED <<drafts, revisions, venues>>

\* publishSeatChart without a change of venue.
PublishSeatChart(r, publish) ==
  /\ At(r, "OPENED")
  /\ requests[r].copy.draftRevision > 0
  /\ Goto(r, IF publish THEN "PUBLISHING" ELSE "DEACTIVATING")
  /\ UNCHANGED <<drafts, locks, revisions, venues>>

-----------------------------------------------------------------------------
(* saveSeatChartDraft, under the chart's lock.                             *)

\* A slip: only the draft's existence is checked.
DraftExists(r) ==
  drafts[requests[r].copy.chart] # NULL \/ requests[r].copy.draftRevision = 0

DraftIsCurrent(r) ==
  CurrentRevision(requests[r].copy.chart) = requests[r].copy.draftRevision

ReadDraft(r) ==
  /\ At(r, "SAVING")
  /\ IF DraftIsCurrent(r)
     THEN Goto(r, "CHECKED")
     ELSE requests' = [requests EXCEPT ![r].phase = "UNLOCKING",
                                       ![r].after = "ANSWERED"]
  /\ UNCHANGED <<drafts, locks, revisions, venues>>

\* writeJsonAtomic: the temporary file is renamed over the draft.
RenameDraft(r) ==
  /\ At(r, "CHECKED")
  /\ drafts' = [drafts EXCEPT ![requests[r].copy.chart] = Document(r)]
  /\ requests' = [requests EXCEPT ![r].phase = "UNLOCKING",
                                  ![r].copy = Document(r)]
  /\ UNCHANGED <<locks, revisions, venues>>

\* withChartLock, at its end; the request goes on with what is left of it.
Unlock(r) ==
  /\ At(r, "UNLOCKING")
  /\ locks' = locks \ {requests[r].copy.chart}
  /\ Goto(r, requests[r].after)
  /\ UNCHANGED <<drafts, revisions, venues>>

-----------------------------------------------------------------------------
(* publishVenueRevision, which takes no lock.                              *)

\* The draft is read again and must be the revision the request expects; the
\* revision file is created empty.
FreezeDraft(r) ==
  LET c == requests[r].copy.chart IN
  /\ At(r, "PUBLISHING")
  /\ IF drafts[c] # NULL /\ DraftIsCurrent(r)
     THEN /\ revisions' = [revisions EXCEPT
                             ![r] = [draft |-> drafts[c], whole |-> FALSE]]
          /\ Goto(r, "FREEZING")
     ELSE Goto(r, "ANSWERED") /\ UNCHANGED revisions
  /\ UNCHANGED <<drafts, locks, venues>>

WriteRevision(r) ==
  /\ At(r, "FREEZING")
  /\ revisions' = [revisions EXCEPT ![r].whole = TRUE]
  /\ Goto(r, "ACTIVATING")
  /\ UNCHANGED <<drafts, locks, venues>>

PointVenue(r) ==
  /\ At(r, "ACTIVATING")
  /\ venues' = [venues EXCEPT ![revisions[r].draft.venue] = r]
  /\ Goto(r, "ANSWERED")
  /\ UNCHANGED <<drafts, locks, revisions>>

-----------------------------------------------------------------------------
(* Deactivation and deletion.                                              *)

ActiveChart(v) == IF venues[v] = NULL THEN NULL
                                      ELSE revisions[venues[v]].draft.chart

DeactivateVenueRevision(r) ==
  /\ At(r, "DEACTIVATING")
  /\ Lock(r, "COMPARING")
  /\ UNCHANGED <<drafts, revisions, venues>>

ReadPointer(r) ==
  /\ At(r, "COMPARING")
  /\ IF ActiveChart(requests[r].venue) = requests[r].copy.chart
     THEN Goto(r, "REMOVING")
     ELSE requests' = [requests EXCEPT ![r].phase = "UNLOCKING",
                                       ![r].after = "ANSWERED"]
  /\ UNCHANGED <<drafts, locks, revisions, venues>>

\* rm: whatever the pointer names by now is gone; the lock goes with it.
RemovePointer(r) ==
  /\ At(r, "REMOVING")
  /\ venues' = [venues EXCEPT ![requests[r].venue] = NULL]
  /\ requests' = [requests EXCEPT ![r].phase = "UNLOCKING",
                                  ![r].after = "ANSWERED"]
  /\ UNCHANGED <<drafts, locks, revisions>>

\* deleteSeatChart looks at the venue the draft names now.
DeleteSeatChart(r) ==
  /\ At(r, "OPENED")
  /\ requests[r].copy.draftRevision > 0
  /\ Goto(r, IF ActiveChart(requests[r].copy.venue) = requests[r].copy.chart
             THEN "ANSWERED" ELSE "DELETING")
  /\ UNCHANGED <<drafts, locks, revisions, venues>>

RemoveDraft(r) ==
  /\ At(r, "DELETING")
  /\ drafts' = [drafts EXCEPT ![requests[r].copy.chart] = NULL]
  /\ Goto(r, "ANSWERED")
  /\ UNCHANGED <<locks, revisions, venues>>

-----------------------------------------------------------------------------
\* The process dies: its requests go, the files it wrote stay, the lock files
\* among them.
Crash ==
  /\ \E r \in Request : requests[r].phase \notin {"IDLE", "ANSWERED", "LOST"}
  /\ requests' = [r \in Request |->
                    IF requests[r].phase \in {"IDLE", "ANSWERED"}
                    THEN requests[r]
                    ELSE [requests[r] EXCEPT !.phase = "LOST"]]
  /\ UNCHANGED <<drafts, locks, revisions, venues>>

Next ==
  \/ \E r \in Request :
       \/ \E c \in Chart : Open(r, c)
       \/ \E v \in Venue, after \in After : SaveSeatChart(r, v, after)
       \/ \E publish \in BOOLEAN : PublishSeatChart(r, publish)
       \/ ReadDraft(r)
       \/ RenameDraft(r)
       \/ Unlock(r)
       \/ FreezeDraft(r)
       \/ WriteRevision(r)
       \/ PointVenue(r)
       \/ DeactivateVenueRevision(r)
       \/ ReadPointer(r)
       \/ RemovePointer(r)
       \/ DeleteSeatChart(r)
       \/ RemoveDraft(r)
  \/ Crash

Spec == Init /\ [][Next]_vars

-----------------------------------------------------------------------------
\* What getPublishedChartForVenue serves is always a revision that was written
\* to its end, for that venue, whatever the process died in the middle of.
VenuesShowWholeCharts ==
  \A v \in Venue :
    venues[v] # NULL =>
      /\ revisions[venues[v]] # NULL
      /\ revisions[venues[v]].whole
      /\ revisions[venues[v]].draft.venue = v

\* A save replaces the very draft its author had opened, or no draft at all:
\* of two editors of one revision, the second never overwrites the first
\* (saveSeatChartDraft, "STALE_SEAT_CHART_DRAFT").
SavesReplaceWhatWasRead ==
  [][\A r \in Request : RenameDraft(r) =>
       LET c == requests[r].copy.chart IN
       drafts[c] \in {NULL, requests[r].copy}]_vars
=============================================================================
