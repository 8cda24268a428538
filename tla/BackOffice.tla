----------------------------- MODULE BackOffice -----------------------------
(***************************************************************************)
(* The administration and account components, side by side: editing an     *)
(* event while it sells, taking a seller on, logging in through a social   *)
(* provider, identity verification, the list of events a customer follows, *)
(* the files of the seat-chart store and the two seat designers.  They     *)
(* share no record, so that a behaviour of all of them is one behaviour of *)
(* each; the model runs each alone, and component says which.  The editing *)
(* of events and the designers come in several variants, each with bounds  *)
(* of its own, and component names the variant.                            *)
(*                                                                         *)
(* Nothing is fixed here: MCBackOffice gives the constants small values,   *)
(* the proofs leave them open.                                             *)
(***************************************************************************)
EXTENDS Naturals, Sequences, FiniteSets

CONSTANTS
  NULL,
  Catalogue, Zone, Hall, HallsOf, Seat, Seller, EditsOf,        \* edits of an event
  Price, SeatOf, ZoneOf, ADMIN, KEEP, MaxEventsOf,
  Application, Username, EventDraft, Paper,                     \* sellers
  SELLER_MAX_AGE, MaxPassword, SellerHorizon,
  Login, Subject, STATE_MAX_AGE, HANDOFF_MAX_AGE,               \* logins
  LOGIN_MAX_AGE, MaxSessions, LoginHorizon,
  Account, Phone, Person, Verification, Callback, MockAllowed,  \* identities
  Watch, Channels, MaxNotices,                                  \* the watchlist
  ChartKey, ChartVenue, ChartRequest,                           \* files of charts
  ChartsOf, UploadsOf, Overlay, CallsOf, Limit, MaxRevisionOf,  \* the old designer
  ObjectsOf, FloorsOf, PlansOf, PlacesOf, MaxStepsOf, MaxRequestsOf     \* the new one

Canvas == {"designer", "images"}                \* questions to the old designer
Sheets == {"drawing", "floors", "plans"}        \* and to the new one
Office == {"onboarding", "social", "nice", "following", "charts"} \union Canvas \union Sheets

ASSUME CatalogueAssumption == Catalogue # {} /\ Catalogue \intersect Office = {}

(* A seat lies in one zone, and a zone's seats lie in it.                  *)
ASSUME EventAssumption ==
  /\ ZoneOf \in [Seat -> Zone]
  /\ \A z \in Zone, h \in Hall : ZoneOf[SeatOf[<<z, h>>]] = z
  /\ \A e \in Catalogue : HallsOf[e] \subseteq Hall /\ MaxEventsOf[e] \in Nat

(* NULL is no draft, no account of a seller and no time.                   *)
ASSUME SellerAssumption ==
  /\ NULL \notin EventDraft
  /\ NULL \notin [username : Username, password : Nat, mustChangePassword : BOOLEAN]
  /\ MaxPassword \in Nat \ {0} /\ SellerHorizon \in Nat

ASSUME LoginAssumption ==
  {STATE_MAX_AGE, HANDOFF_MAX_AGE, LOGIN_MAX_AGE, MaxSessions, LoginHorizon} \subseteq Nat

(* NULL is no identity.                                                    *)
ASSUME IdentityAssumption ==
  /\ NULL \notin [phone : Phone, person : Person \union Phone]
  /\ MockAllowed \in BOOLEAN

(* NULL is no item of the list.                                            *)
ASSUME WatchAssumption ==
  /\ NULL \notin [channels : Channels, notificationEnabled : BOOLEAN]
  /\ MaxNotices \in Nat

(* NULL is no request, no venue, and neither a draft nor a revision.       *)
ASSUME ChartAssumption ==
  LET Drafts == [chart : ChartKey, venue : ChartVenue, draftRevision : Nat,
                 author : ChartRequest \union {NULL}]
  IN NULL \notin ChartRequest \union ChartVenue \union Drafts
                 \union [draft : Drafts, whole : BOOLEAN]

(* Names are finitely many, NULL is none of them and no chart, and at      *)
(* least one step can be undone.                                           *)
ASSUME EditorAssumption ==
  /\ Limit \in Nat \ {0}
  /\ \A d \in Canvas :
       LET Slots == Overlay \union UploadsOf[d]
           Charts == [id : ChartsOf[d] \union {NULL}, draftRevision : Nat,
                      hrefs : [Slots -> UploadsOf[d] \union {NULL}]]
       IN /\ IsFiniteSet(UploadsOf[d]) /\ MaxRevisionOf[d] \in Nat \ {0}
          /\ NULL \notin ChartsOf[d] \union Slots \union Charts

(* NULL names nothing, the plan a chart begins with is no upload, and      *)
(* there is a place for an object.                                         *)
ASSUME SketchAssumption ==
  \A d \in Sheets :
    /\ NULL \notin ObjectsOf[d] \union PlansOf[d] \union {"first"}
    /\ "first" \notin PlansOf[d] /\ PlacesOf[d] # {}
    /\ MaxStepsOf[d] \in Nat /\ MaxRequestsOf[d] \in Nat

VARIABLES
  component,
  events, tickets, requests,
  sellerNow, applications, accounts, eventDrafts, tokens,
  loginNow, logins, stateCookie, users, sessions,
  verifications, identities, callbacks,
  watchlist, notificationJobs,
  drafts, locks, revisions, venues, chartRequests,
  chart, past, future, chartGeneration, assetRequestIds, uploads, calls, local, store,
  canvas, undoable, redoable, drag, copiedObjects, images, referenceRequest, crossed

eventVars == <<events, tickets, requests>>
sellerVars == <<sellerNow, applications, accounts, eventDrafts, tokens>>
loginVars == <<loginNow, logins, stateCookie, users, sessions>>
identityVars == <<verifications, identities, callbacks>>
listVars == <<watchlist, notificationJobs>>
chartVars == <<drafts, locks, revisions, venues, chartRequests>>
editorVars == <<chart, past, future, chartGeneration, assetRequestIds, uploads,
                calls, local, store>>
accountVars == <<sellerVars, loginVars, identityVars, listVars>>
canvasVars == <<canvas, undoable, redoable, drag, copiedObjects, images,
                referenceRequest, crossed>>
designVars == <<chartVars, editorVars, canvasVars>>
vars == <<component, eventVars, accountVars, designVars>>

-----------------------------------------------------------------------------
Editing(e) == INSTANCE EventEdit WITH
  Venue <- HallsOf[e], Request <- EditsOf[e], MaxEvents <- MaxEventsOf[e]

Onboarding == INSTANCE SellerOnboarding WITH
  now <- sellerNow, drafts <- eventDrafts, Draft <- EventDraft, Check <- Paper,
  SESSION_MAX_AGE <- SELLER_MAX_AGE, Horizon <- SellerHorizon

Social == INSTANCE SocialLogin WITH
  now <- loginNow, SESSION_MAX_AGE <- LOGIN_MAX_AGE, Horizon <- LoginHorizon

Nice == INSTANCE Identity WITH users <- identities, User <- Account

Following == INSTANCE Watchlist

Files == INSTANCE ChartRevisions WITH
  requests <- chartRequests, Chart <- ChartKey, Venue <- ChartVenue, Request <- ChartRequest

(* Charts that are loaded, saved and edited around uploads; and uploads    *)
(* that answer in any order.                                               *)
Editor(d) == INSTANCE SeatEditor WITH
  Chart <- ChartsOf[d], Upload <- UploadsOf[d], Call <- CallsOf[d],
  MaxRevision <- MaxRevisionOf[d]

(* Objects and sections on one floor; floors; and plans that arrive late.  *)
Sketch(d) == INSTANCE SeatDesignerV2 WITH
  state <- canvas, past <- undoable, future <- redoable, uploads <- images,
  Object <- ObjectsOf[d], Floor <- FloorsOf[d], Upload <- PlansOf[d],
  Place <- PlacesOf[d], MaxSteps <- MaxStepsOf[d], MaxRequests <- MaxRequestsOf[d]

-----------------------------------------------------------------------------
(* The variant that runs, and some variant when another component does.    *)
Edited == IF component \in Catalogue THEN component ELSE CHOOSE e \in Catalogue : TRUE
Drawn == IF component \in Canvas THEN component ELSE "images"
Sketched == IF component \in Sheets THEN component ELSE "plans"

NoCharts == \A c \in ChartKey : drafts[c] = NULL
NothingStored == \A c \in DOMAIN store : store[c] = NULL
NoPlan == canvas.referencePlan = NULL

Init ==
  /\ component \in Catalogue \union Office
  /\ \E e \in Catalogue : e = Edited /\ Editing(e)!Init
  /\ Onboarding!Init /\ Social!Init /\ Nice!Init /\ Following!Init
  /\ Files!Init /\ (component # "charts" => NoCharts)
  /\ \E d \in Canvas : d = Drawn /\ Editor(d)!Init
  /\ component \notin Canvas => NothingStored
  /\ \E d \in Sheets : d = Sketched /\ Sketch(d)!Init
  /\ component # "plans" => NoPlan

(* Bound: a drawing is followed to the first undo in the middle of a drag. *)
Next ==
  \/ \E e \in Catalogue :
       /\ component = e /\ Editing(e)!Next
       /\ UNCHANGED <<component, accountVars, designVars>>
  \/ /\ component = "onboarding" /\ Onboarding!Next
     /\ UNCHANGED <<component, eventVars, loginVars, identityVars, listVars, designVars>>
  \/ /\ component = "social" /\ Social!Next
     /\ UNCHANGED <<component, eventVars, sellerVars, identityVars, listVars, designVars>>
  \/ /\ component = "nice" /\ Nice!Next
     /\ UNCHANGED <<component, eventVars, sellerVars, loginVars, listVars, designVars>>
  \/ /\ component = "following" /\ Following!Next
     /\ UNCHANGED <<component, eventVars, sellerVars, loginVars, identityVars, designVars>>
  \/ /\ component = "charts" /\ Files!Next
     /\ UNCHANGED <<component, eventVars, accountVars, editorVars, canvasVars>>
  \/ \E d \in Canvas :
       /\ component = d /\ Editor(d)!Next
       /\ UNCHANGED <<component, eventVars, accountVars, chartVars, canvasVars>>
  \/ \E d \in Sheets :
       /\ component = d /\ ~crossed /\ Sketch(d)!Next
       /\ UNCHANGED <<component, eventVars, accountVars, chartVars, editorVars>>

Spec == Init /\ [][Next]_vars

-----------------------------------------------------------------------------
(* The records of every component keep their shape.                        *)
TypeOK ==
  /\ \A e \in Catalogue : component = e => Editing(e)!TypeOK
  /\ component = "onboarding" => Onboarding!TypeOK
  /\ component = "social" => Social!TypeOK
  /\ component = "nice" => Nice!TypeOK
  /\ component = "following" => Following!TypeOK
  /\ component = "charts" => Files!TypeOK
  /\ \A d \in Canvas : component = d => Editor(d)!TypeOK
  /\ \A d \in Sheets : component = d => Sketch(d)!TypeOK

(* backend/seller-events.js:115 and admin.js:594: an edit waits for its    *)
(* poster while its event is reviewed, and is not shown under that review; *)
(* only a draft that came in beside another of its id (admin.js:369, 398)  *)
(* is, unreviewed.  admin.js:453 and 594: no edit takes a ticket from its  *)
(* owner, and a sold seat keeps its zone unless it was sold while an edit  *)
(* that drops the zone waited.  admin.js:408: a draft waits while its application is reviewed  *)
(* or registered by another, and neither decision is taken back.           *)
(* backend/engagement.js:64-88: what is due to a customer follows what the *)
(* customer chose, and nothing is due a second time.                       *)
DecisionsHold ==
  /\ [](\A e \in Catalogue : component = e =>
          Editing(e)!UnreviewedIsHidden /\ Editing(e)!SoldSeatsHaveZones)
  /\ [][\A e \in Catalogue : component = e => Editing(e)!KeepsTakenTickets]_vars
  /\ []Onboarding!SellersAreReviewed /\ Onboarding!ReviewsAreFinal
  /\ []Following!NoticesFollowTheList
  /\ Following!SentOnce

(* backend/social-oauth.js:285 and identity.js:329: whatever callbacks     *)
(* interleave or repeat, a person has one account and one identity.        *)
AccountsAreWhole == Social!LoginsAreWhole /\ Nice!OneAccountPerPerson

(* src/src/lib/seat-charts/revisions.ts:182-191: a venue's pointer names a *)
(* revision that was written to its end; revisions.ts:133-146: a save      *)
(* replaces the draft its editor had opened.                               *)
ChartFilesAreSound ==
  []Files!VenuesShowWholeCharts /\ Files!SavesReplaceWhatWasRead

(* src/src/lib/seat-designer/use-editor.ts:188-247: undo, redo and uploads *)
(* that answer late stay within the chart they belong to, and of two       *)
(* uploads for one image the later one stays.                              *)
DesignerKeepsToItsChart ==
  /\ [](\A d \in Canvas : component = d =>
          Editor(d)!HistoryIsOfThisChart /\ Editor(d)!UploadsStayOnTheirChart)
  /\ [][\A d \in Canvas : component = d => Editor(d)!TakesTheNewest]_vars

(* src/src/components/seat-designer-v2/use-editor-history.ts:31-38 and     *)
(* use-editor-persistence.ts:38-60: an image or a plan that arrives late   *)
(* takes back no edit and no later plan; use-editor-history.ts:62-87 and   *)
(* floor-bar.tsx:35-51: nothing is left on a floor or in a section that is *)
(* gone, whatever is undone and redone.                                    *)
DrawingsAreKept ==
  /\ [](\A d \in Sheets : component = d => Sketch(d)!NothingIsStranded)
  /\ [][\A d \in Sheets : component = d =>
          Sketch(d)!AnswersKeepEdits /\ Sketch(d)!PlansComeInOrder]_vars
=============================================================================
