# Ticketground: a verification of the ticketing service

Ticketground sells event tickets: a Node.js backend (`backend/*.js`), a Next.js
site (`src/`) and two native apps in front of it, an operator console beside it. This
directory holds TLA+ models of its core logic, the TLC configurations
that check them on small instances, and TLAPS proofs of what matters most for
instances of every size. Paths below are relative to the repository.

## 1. Inventory

### How the backend runs

`backend/app.js` builds one in-memory object `db` (arrays of users, events,
tickets, holds, drafts, transactions, pools, credentials, ...) and hands it to
two HTTP servers of the same process, the public one and the operator's. Request
handlers are ordinary synchronous functions over `db`. A handler gives way to
others only where it awaits: while the body of the request is parsed, at the card
payment provider (Toss confirm and cancel), at the attestation verifier, at file
storage (event images, group booking files), at the identity provider. Everything
between two awaits is atomic, and nothing is locked across one. There is no timer
in the domain code: every expiry is a timestamp that is compared when some
handler happens to look. After every `/api` request, also a failing one, the whole
object is serialised and queued to be written to one JSON file
(`backend/persistence.js`, `backend/http-handler.js`).

So the hard behaviours are (a) different users' handlers in any order over shared
records, with the clock moving in between, (b) the few routes that read before an
await and write after it, (c) a process that dies at any point, with a save queue
and an external capture of money in flight, (d) clients that retry.

### Components

| Component | State it keeps | Operations | What makes it correct | Module |
|---|---|---|---|---|
| JSON database (`persistence.js`, `http-handler.js`) | `db` in memory, save queue, pending file, database file, requests in flight | `handleRequest`, `saveDb`, `loadDb` | an answered request survives a crash; the file is always one whole state and never goes back; every request is answered | `Persistence`, `DurableStore` |
| Seat holds and drafts (`booking-holds.js`) | `seatHolds`, `reservationDrafts`, claim fields of `tickets` | create, get, extend, release, convert, cancel, lazy expiry | records and tickets agree; no seat in two hands or in none; claims are bounded in time; an abandoned claim ends | `SeatInventory`, `SeatBook` |
| Primary sales, operator's seats (`commerce.js`, `group-booking.js`, `admin.js`) | `tickets`, `transactions` | `buyPrimary`, `buyPrimaryGroup`, `approveGroupBookingRequest`, `updateTicketStatuses` | only open or own, live seats are sold; a group is all or nothing; what is sold stays sold | `SeatInventory`, `TossPurchase` |
| Mobile booking session (`booking-session.js`) | the same `seatHolds` and `reservationDrafts`, `bookingQueues`, a revision of the seats | queue, seats, hold, renew, release, draft | its holds and the holds above respect each other | `BookingSession` |
| Admission queue (`booking-holds.js`) | `queueEntries` | enter, get, leave, lazy expiry | at most the slots are admitted, in order; a place is not kept forever | `AdmissionQueue` |
| Card payments (`tosspayments.js`, `api-router.js`) | `transactions`, refund entries of the ledger; the provider's own records | confirm purchase and group purchase | money captured is a sale or a recorded refund; amounts agree; a retry does not pay twice | `TossPurchase` |
| Retry receipts (`idempotency.js`, `idempotent-mutation.js`, `mobile-lifecycle.js`) | receipts by user, scope and key | run, replay, prune | a retried request has one effect and the same answer | `Receipts` |
| Resale pools (`commerce.js`, `admin.js`) | `resalePools`, balances, ticket owner | list, join, draw, buy, cancel, forced cancel | one owner, one seller of a ticket; money conserved; a sale is final | `ResaleAdmission` |
| Admission codes (`admission.js`, `admission-qr.js`, `mobile-ticket-qr.js`) | `admissionCredentials`, `tickets.currentQr`, `mobileQrTokens` | issue, verify at either gate, revoke | one entry per ticket, by its owner | `ResaleAdmission` |
| Gates and their scanner (`gate-sessions.js`, `admission-qr.js`, `src/components/gate/gate-scanner-panel.tsx`) | gate tokens; the terminal's stored queue, its flushes and scans in flight | issue and revoke a gate, verify, scan, flush | a code counts once whatever answer is lost; no scan is lost | `GateScanner` |
| Attestation and devices (`app-attest.js`, `admission-devices.js`, `device-registration.js`) | challenges, trusted devices, the second register with counters and push tokens | challenge, prove, trust, revoke, register | a challenge is used once; codes go to devices trusted at that moment | `AppAttest`, `DeviceRegistration` |
| Event catalogue and editing (`admin.js`, `seller-events.js`) | `events`, `tickets` | draft, edit, move, review, cancel | no taken seat disappears; nothing unreviewed is public | `EventEdit` |
| Sellers (`seller-*.js`) | applications, accounts, sessions | apply, check, approve, issue, change password | one account per approved application | `SellerOnboarding` |
| Accounts and identity (`social-oauth*.js`, `native-*.js`, `session.js`, `identity.js`) | users, sessions, hand-off codes, verifications | log in, hand off, verify | a person has one account and one identity; a code is used once | `SocialLogin`, `Identity` |
| Seat-chart store (`src/lib/seat-charts/revisions.ts`, `v2-store.ts`) | files of drafts, revisions and venue pointers, lock files | open, save, publish, deactivate | a venue shows a whole revision; a save overwrites only what its editor has seen | `ChartRevisions` |
| Seat designer (`src/components/seat-designer-v2`) | canvas, history, clipboard, drag, uploads | draw, move, group, paste, undo, floors, images | an undo leads to what was there; nothing is left where no view shows it | `SeatDesignerV2` |
| Earlier seat designer (`src/lib/seat-designer/use-editor.ts`, which no page imports any more) | chart, history, uploads, calls of the store | edit, undo, upload, load, save | uploads and history stay on their chart | `SeatEditor` |
| Seat choice of the web shop (`src/components/ticketing/booking-panel.tsx`, `src/lib/seat-charts`) | performance, seat map, chart, selection | choose, fetch, select, go to checkout | the seats to pay are the seats shown; tables go whole | `WebBooking` |
| Booking in the Android app (`ui/CustomerApp.kt`, `ui/CustomerModels.kt`, `data/TossCheckout.kt`) | screens, one pending flag, a generation, calls in flight, the stored checkout | book, retry, refresh, go back, pay, give up | a failure leaves no claim; no late answer opens a screen; only what is owned is confirmed | `AppBooking` |
| Engagement (`engagement.js`, `watchlist-contract.js`) | followed events, notices | follow, switch notices, take off, notify | nothing is due for what is off the list; what was sent is not due again | `Watchlist` |
| Catalogue data, permissions, support, other pages and clients, scripts | lists, views, single records | single-record updates | no shared or ordered state to check | - |

### Interactions

All components meet in `db`. The sharpest meeting points are the ticket record
(written by holds, drafts, sales, allotment, operator, resale, admission), the
`seatHolds` and `reservationDrafts` arrays (written by `booking-holds.js` and by
`booking-session.js`, with different ideas of a hold), `transactions` (written by
sales and payment routes and read back as the receipt of a retry) and the
admission credential (written by sales, resale, operator and both gates). All of
them share the database file: a crash takes every component back to the same
snapshot, and nothing takes the payment provider back with it.

`PROJECT.json` lists under "hazards" every place of this kind, at its line, with the
properties that cover it.

## 2. Plan

In order, the most important behaviour first. Modules meant for proofs use no
RECURSIVE operator.

1. `DurableStore`, `Persistence`, `PersistenceProofs`: the database file. Done:
   checked, invariants and refinement proved.
2. `SeatBook`, `SeatInventory`, `SeatInventoryProofs`: everything that writes a
   ticket before it is sold. Done: checked, invariants and refinement proved.
3. `TossPurchase`, `TossPurchaseProofs`: the purchase routes around the await at the
   payment provider. Done: checked, safety proved. Next: the operator's
   cancellation, and `SeatBook` as the abstraction of the other handlers' steps.
4. `ResaleAdmission`, `ResaleAdmissionProofs`: pools, forced cancellation and both gates
   over one ticket. Done: checked, safety proved.
5. `BookingSession`, `AdmissionQueue`, `Receipts`, `AppAttest`, `DeviceRegistration`:
   the smaller services of the backend, composed in `Services`. Done: checked; all but the
   queue proved, in `ServiceProofs`.
6. `EventEdit`, `SellerOnboarding`, `SocialLogin`, `Identity`: what operators, sellers
   and accounts do around awaits; `Watchlist`: what they follow; composed in `BackOffice`.
   Done: checked, and proved in `BackOfficeProofs`.
7. `ChartRevisions`, `SeatEditor`, `SeatDesignerV2`: the seat charts. Done: checked, and
   proved in `DesignProofs`.
8. `GateScanner`, `WebBooking`, `AppBooking`: clients with state of their own. Done:
   checked, and proved in `ServiceProofs`.
9. Later: proofs for `AdmissionQueue` (slots, positions); the checkout pages
   of the web (`checkout-panel.tsx`, `tosspayments-result-panel.tsx`), the booking view of
   the iOS app, requests for group bookings.

Abstract specifications: `DurableStore` and `SeatBook` (done); worth stating still are an
account book of payments (every captured payment is in exactly one place) and a
one-use token for codes, hand-offs and challenges.

## 3. Modules

### Persistence (`persistence.js:18-65`, `http-handler.js:80-135`)

A database state is the set of requests whose effects it holds; that is all that
durability is about. `Handle` and `Throw` are a handler that returns or throws
(then with some or none of its effects in memory). `SaveResult` and
`SaveAfterError` are the two calls of `saveDb`: the snapshot is taken at the call
(`JSON.stringify` runs synchronously) and the write joins `saveQueue`. The save at
the head of `saves` goes through `Chmod`, `BeginWrite` (the file is truncated),
`EndWrite`, `Rename`; `FailSave` is a rejection of any of them. `Settle` moves the
queue on whatever the outcome, as `saveQueue = save.catch(...)` does. `Reply` is the
200 answer after the awaited save. `Crash` loses memory, queue and connections and
keeps the files as they are; `LoadDb` reads the file and, when a migration changed
something, saves once more before the servers listen. Each request is sent once;
`phase` follows it.

`DurableStore` says what this promises without files: effects are visible first,
durable later, lost by a crash when not durable, and a client is answered only when
everything its answer was computed from is durable. `ImplementsDurableStore` maps
`visible` to `db` (to `disk` while the process is down) and `durable` to `disk`.

### SeatInventory (`booking-holds.js:136-405`, parts of `commerce.js`, `admin.js`, `group-booking.js`)

One event's seats. Every handler is synchronous, hence one action; what
interleaves is users, operator and clock. `tickets`, `seatHolds` and
`reservationDrafts` are the arrays of `db`, by id, with the fields the handlers
read; `now` is `currentTimeMs()`. `createSeatHold` first reconciles every overdue
hold of the database and does so also when it then refuses; the other hold
operations reconcile the hold they are given; a draft is reconciled only by
requests of its own user (`requireOwnDraft`). `PayableHolds` and `PayableDrafts` are
`assertTicketPurchasable`'s exceptions for the buyer's own claim. `buyPrimary`
accepts a hold or a draft of exactly that seat; `buyPrimaryGroup` and
`approveGroupBookingRequest` take seats on sale only. In the code as it is, a hold
of several seats can therefore be paid for only after it is let go.

Abstracted: prices and payments (`TossPurchase`), text fields, the
receipts of retried requests, removal of stale open tickets by `updateEventSale`.
The buyer of an allotment is a fresh user in the code and any user in the model. A
request that throws without having written anything is a stuttering step.

Definitions whose comment begins with "A slip:" are plausible mistakes that
`PROJECT.json` swaps in for the real definition to show that a property notices;
`Next` uses none of them.

`SeatBook` says what a user may rely on: a seat is open, blocked, claimed by one
user until a time, or sold; sets of seats are claimed all or none; only the claimant
may prolong, give up or buy, and only in time; a lapsed claim may be cleared by
anybody; a sale is final. `ImplementsSeatBook` maps a HELD or RESERVED ticket to
the claim of the user of its hold or draft.

### TossPurchase (`api-router.js:967-1118`, `tosspayments.js:42-88`, `commerce.js:21-359`)

The route that sells for a card payment. Each request is a process: `Begin` is the
handler up to its await (a replay of a finished purchase is answered without the
provider; otherwise the tickets are looked at and their price is fixed as
`approvedAmount`), `ProviderCaptures` and `ProviderDeclines` are the provider,
`AnswerLost` and `Mismatch` the two ways in which a captured payment comes back as an
exception, `Allocate` is everything after the await in one step (replay, sale, or the
catch block's `TOSSPAYMENTS_PAYMENT_NEEDS_REFUND` entry), `Reply` and `SaveFails` are
the save that follows. `OthersChange` is every other handler's write to an unsold
ticket, `Reprice` the operator's new prices, `OthersSave` any other request; all of
them save memory as it is, so with it what the requests here have done so far.
`Restart` takes memory back to `disk` and the provider nowhere.

One action covers the single and the group path, which differ in what
`Purchasable` accepts (only a single purchase may use the buyer's own claim), in
`RecordedAmounts` and in the digest of the key (`group`). A save is atomic here;
`Persistence` shows what that rests on. The `transactions` record `order`, the ticket
set, where the code records a digest of it.

External assumptions, on the provider: a payment is captured once and a repeated
confirmation is declined; a payment belongs to one order of one user, and clients
do not send it with other tickets or under a second key (`RequestAssumption`; the
provider is given an `orderId` and an amount and checks them).

Abstracted: a claim is a live hold or draft that the request names, everything else
that is not for sale is `UNAVAILABLE`; who is verified does not change; what an owner
does with a ticket after the purchase is not here, so a sold ticket stays `OWNED`.

### ResaleAdmission (`commerce.js:361-553`, `admin.js:979-1057`, `admission.js:57-117`, `admission-qr.js`, `mobile-ticket-qr.js`)

A ticket from its sale to the gate. Every handler is one action named after it;
`tickets`, `resalePools` and `credentials` are the arrays of `db` with the fields the
handlers read, `currentQr` is the field of the ticket, `codes` holds codes of both
kinds ever issued (a code of the app is only a signature in the code; here it is a
record, so that a scan of an old one can be asked about). `balance` and `paid` are the
sums that `completeResaleMatch` and its reversal add to a seller's balance and to a
buyer's transactions; `admitted` counts what the gates have let in. `Complete` is
`completeResaleMatch` in one piece: it looks at the buyer's identity and at nothing
else, neither owner nor status of the ticket. `drawPool`'s hash may draw any buyer.
A `purchaseResale` by somebody whose identity is not verified is refused after it has
entered the buyer in the pool, so it is a `joinPool`; a draw of such a buyer is refused.
`adminCancelResalePool` unwinds a matched pool whatever its winner has done since.

`PrepareCredential` is `virtualQr`, and `issueQr` when it is refused for its channel,
device, risk or an operator's hold, by which time `ensureAdmissionCredential` has
written. A refusal that writes nothing is a stuttering step, a gate of another event
included. `Lapse` is the end of a code's twenty seconds, at any time.

Abstracted: the operator's hold on a credential (an emergency issue ignores it), trust
scores, receipts of retried mobile requests, restarts (`Persistence` has them). A ticket
starts as its purchase left it; `SeatInventory` and `TossPurchase` are how it got there.

### BookingSession (`booking-session.js`, `booking-holds.js:139-390`)

Two modules write `db.seatHolds`. A hold has a `kind` in the model, for the fields it has
and lacks: a session hold has one `ticketId` and a revision, the other lists `ticketIds`
and makes them HELD. Every handler finds holds by id and owner alone, so each is applied
to both kinds, with the TypeError that follows where a field is missing and with what was
written before it (`reconcileHold` on a session hold). A booking hold may also become a draft
that keeps its seats RESERVED, to be bought or to end; drafts have their rules in
`SeatInventory`, and when one ends is left open here. `RevisionGuardsViews` says what
`bookingInventoryRevision` is worth to a client; `EndedHoldsStayEnded` that neither module
revives or prolongs what has ended.

### AdmissionQueue (`booking-holds.js:32-134`)

Entries of one performance in the order of the array, with rank of the time of entry and
remaining time of an admission. Each request reconciles first: admissions past their time
end, free slots go to who waits. Equal times of entry share a position.

### Receipts (`idempotency.js`, `idempotent-mutation.js`, `mobile-lifecycle.js:17-60`)

One key of each retention: for ever, and dropped after a while. A mutation and its receipt
are one synchronous step, the answer waits for the save, a crash takes memory back to the
file. `EffectsAreSpaced` says that a key takes effect once per time of retention,
`AnswersAgree` that its answers do.

### AppAttest, DeviceRegistration

`verifyProof` reads the challenge, awaits the verifier and marks the challenge consumed
afterwards; the route goes on in the same turn. Two requests can therefore use one
challenge, and do; `UsesOfAChallengeOverlap` says that they must overlap (a challenge that
was used is never used by a later request), and `CodesGoToTrustedDevices` that the device is
trusted when the code is issued, whatever was revoked during the await. `DeviceRegistration` is the
other register, with nonce, counter and push token; what is revoked keeps nothing.

### EventEdit (`admin.js:343-930`, `seller-events.js`)

One event with zones that stand for zones and dates, and the tickets made for them. A
request that brings a poster checks, awaits the file, and assigns; another runs in
one step. Seats are taken and given back, sellers and operators edit and review, the
venue moves. The catalogue is a sequence: the public reads every entry (`dtos.js:147-152`),
all other handlers find the first with the id. `UnreviewedIsHidden` says that no entry the public
sees has content of a seller that nobody reviewed, `SoldSeatsHaveZones` that a sold seat lies
in a zone of the event, `KeepsTakenTickets` that no edit deletes or reprices the ticket of a
buyer, which holds because the sweep after the await looks at each ticket again. The first two
have an exception each, which the code really has (see the remarks below). Two fields are
history: `unreviewed` of an event, `late` of a ticket that was sold while an update that drops
its zone waited for the poster.

### SellerOnboarding, SocialLogin, Identity

Applications with their checklist, approval, the account that is issued, its password and its
stateless sessions, and the event drafted from the application. Logins with one state
cookie for all tabs, two awaits of the provider, hand-off codes and app sessions.
Verification by NICE, whose callback may be repeated while an earlier one waits.
`SellersAreReviewed`, `LoginsAreWhole` and `OneAccountPerPerson` are about what
overlapping requests may not bring about; `ReviewsAreFinal` that no approval, rejection or
registration is taken back by a request that waited meanwhile.

### Watchlist (`engagement.js`, `watchlist-contract.js`)

The events on customers' lists and the notices due for them. An item that is taken off
and put on again has its old id (`stableId`), so that it meets its old notices, cancelled
ones among them; the operator adds notices of any type. `NoticesFollowTheList` says that
nothing is due off the list and that each reminder that is wanted was sent or is due by the
channels chosen last; `SentOnce` that no notice that was sent is due again. The code never
looks at the list when an event moves: a reminder keeps the time it was given until the
customer's next change. That time is left out of the model.

### ChartRevisions (`revisions.ts`, `v2-store.ts`)

Every file operation is a step: the lock file, the draft read, the write to a temporary
file and its rename, the revision file, the pointer. Processes die between any two. A
save names the revision its editor read and is refused when another was quicker;
`SavesReplaceWhatWasRead` says so of the files, `VenuesShowWholeCharts` of what the public
sees. The newer editor names its charts so that `v2-store.ts` never finds the old draft:
each of its saves is an `Open` with a new key.

### SeatDesignerV2, SeatEditor

Whole editor states in a history, objects by their floor, section, lock and place. A drag
redraws from the state it began in, keys work meanwhile, uploads answer at any time.
It is one instance, `Sketch(d)`, asked three questions at three sizes. Left out: tools, zoom,
gestures until they are done, seats, labels, list of assets, and the calls that save and
publish (the store is `ChartRevisions`). `NothingIsStranded` is checked as far as no drag is crossed by
an undo (`~crossed`); see the remarks below. `stateRef.current` is taken to be the state. In the code an
effect sets it after rendering (`use-seat-designer-controller.ts:34`), so that an upload that answers between
a pointer move and that effect commits the state of before the move: that window is not modelled. That undo
leads to exactly what was there before is in the definitions of the history and not a property.
`SeatEditor` is the earlier designer: one chart, its history, uploads by chart and
generation, saves whose answers replace the chart. Its guard on chart and generation is
redundant with the one on the request id, because loading a chart clears
`assetRequestIds`.

### GateScanner (`gate-scanner-panel.tsx`, `gate-api.ts`, `gate-sessions.js`, `admission-qr.js:137-194`)

A terminal in front of the server. A scan or a flush is a process that waits at its
request; a request is lost before or after the server has verified the code. The queue is
the one of `localStorage`; a flush sends its snapshot and writes back what failed. The
server uses a code up once per gate's event and says so afterwards.

### WebBooking (`booking-panel.tsx:56-362`, `inventory.ts`, `bind-backend-seats.ts`, `seat-selection.ts`)

The chart becomes sellable seats, these find their tickets by price and label, and the
customer selects among them; seat map and chart are fetched while the performance
changes. `chartToSellableSeats`, the binding and `toggleChartSeatSelection` are operators
over all charts of one or two objects.

### AppBooking (`CustomerApp.kt`, `CustomerModels.kt:279-372`, `TossCheckout.kt:106-152`, `booking-holds.js`)

An attempt is a `BookingRequest` with its operation keys. A call goes through the awaits of
`continueBookingAfterQueue`: queue, hold, draft, checkout, and on failure `compensateBooking`;
each request may be refused, lost, or lost on its way back. `current` compares the
generation a call began with and that of now. `bookingPending` is one flag that a login and a
checkout set and clear too. The server's receipts answer a repeated key as the first time,
whatever the record has become. `uncertain` remembers the attempts of which an answer or a
clean-up was lost, `unguarded` the calls that were in flight when another operation cleared the
pending flag. The queue, the receipts and the purchase behind it are the modules above, here one step each.

### Services, BackOffice and the MC modules

`Services` and `BackOffice` run several components in one model, each alone:
`component` is chosen in `Init`, and only that component moves. They share no variable and no
record of `db`, so a behaviour of all of them together is, for each, a behaviour of it
alone with stuttering in between, and a property of one cannot tell the difference. Where components
do share records they are one module (`SeatInventory`, `BookingSession`,
`ResaleAdmission`). Both leave their constants open, with a named assumption for each
component, and the theorems are about them; where a component is asked two questions
at two sizes it is one instance with a parameter (`Editing(e)`, `Editor(d)`, `Sketch(d)`,
`Scanner(t)`, `Android(a)`), and its constants are functions of that parameter.
`MCServices` and `MCBackOffice` give the constants values and define nothing else.
`MCPersistence` extends `Persistence` in the same way with the two
components whose liveness is checked. Instances under a `component => ...` are the same module
with other constants.

## 4. Runs

| Run | What it asks | Bounds | States |
|---|---|---|---|
| `persistence` | type, acknowledged is durable, the file never regresses, every request answered, implements `DurableStore`; an abandoned hold ends; the queue serves everybody, in order and within its slots | 3 requests; 1 seat, 2 users, 2 holds, 1 draft, clock to 3; 4 users for 2 slots | 288,889 |
| `seat_inventory` | type, claims keep their seats, seats name live claims, claim time bounded, converted claims paid for, implements `SeatBook` | 2 seats, 2 users, 2 holds, 1 draft, times 1/2/1, one extension, clock to 3 | 200,156 |
| `draft_return` | an abandoned draft ends: violated | 1 seat, fairness below | - |
| `toss_purchase` | type, captured money accounted for, refund or seats, whole orders, amounts add up, one buyer per ticket, answers kept | 2 seats in 2 zones, a group order, its duplicate with the same payment, a rival; prices 1 and 4, fee 1 | 1,495,840 |
| `toss_repaid` | a retry is not charged: violated | 1 seat, a request and its retry with a second payment | - |
| `resale_admission` | type, settlements match, credential is the owner's, open offers stand, one entry per code, sold codes are dead | 1 ticket, 3 users of whom 2 are verified, 3 pools, 2 codes, price 30, 2 transfers | 643,030 |
| `one_entry` | a ticket lets one person in: violated | 1 ticket, 2 users, 1 pool, 2 codes | - |
| `services` | booking sessions, attestation, device registration, receipts, keys of card purchases, gate scanner, seat choice, Android booking | in `MCServices`, at each instance | 1,178,657 |
| `back_office` | event edits, sellers, logins, identity, watchlists, chart files, both seat designers | in `MCBackOffice`, at each instance | 468,616 |
| `shared_holds` | an expired hold keeps no seat: violated | 2 users, 1 seat, 2 holds | - |
| `queued_scans` | a queued scan is kept: violated | 1 gate, 1 code, 2 scans, 2 flushes | - |
| `app_retry` | the screen of a held seat is true: violated | 1 booking, 1 seat, 1 call | - |

**Why the bounds are enough.** Three requests let one save run while a second waits
and a third handler runs, so a queued snapshot is older than memory in every way it
can be. Two seats and two users give holds of several seats, a hold taken over by
the other user after its expiry and disjoint claims; two holds and one draft let a
hold wait while the other is converted; the clock reaches the end of hold,
extension and draft in turn, and extension past
expiry, conversion in the last moment and payment in the last moment all happen.
In `toss_purchase` a duplicate can be at every point of the first request's way,
while a third request sells one of the two seats before, between or after them, and
one zone's price can rise or fall while the other's does not; with `Prices` and
fee odd against two seats the share of a seat is rounded both ways. In
`resale_admission` three pools let a ticket be sold, sold on and listed once more, any of
the sales unwound at any time, and two codes are two of one kind or one of each, issued
before or after any of this; the fee of a price of 30 is rounded up. Tickets share no
record, so one is enough. In `services` two requests share a challenge, three a retry key
on either side of its retention; a code is read twice while two flushes overlap, and by
two gates; charts of two objects combine every kind of table with rows, booths and
areas and with labels that collide; two calls of the app overlap after a login. In `back_office`
two edits wait for their posters together; two logins and two callbacks overlap; two
requests meet on two charts and venues with a crash at any file operation; three objects
can be a section with its member and one outside, two floors and three steps let undo
cross the removal of a floor. The theorems below
remove the bounds for the safety properties of the core.
`Horizon` bounds a clock and nothing else: the claims made near it simply do not
lapse within the model. Users, seats and record ids are symmetric in the safety
runs; the runs with fairness use no symmetry.

**Fairness.** `persistence`: weak fairness of each request's next step and of the
running file operation. Node's event loop resumes every handler whose await has
settled, and a file operation ends, with success or an error; nothing is assumed of
`Crash`, `LoadDb`, or of clients. For the abandoned hold, in this run and in `draft_return`: weak fairness of
the clock and of one visitor who keeps asking for seats. The code has no timer, so
this is exactly what it relies on; without the visitor no claim need ever end. For the
queue: weak fairness of the clock and of the requests of who waits; the app asks again by a button, and who
never asks is not owed a place. Nothing is assumed of those already admitted.

**What `draft_return` shows.** `티켓그라운드 페이지 세부작업 내역서.md:143` asks that a
seat claimed before payment be released when its time is up. A draft past its
`expiresAt` is released only by a request of its own user (`booking-holds.js:368-384`)
while an overdue hold is released by anybody's next hold request. A user who
reserves and leaves keeps the seats RESERVED, however many others ask for them.

**What `toss_repaid` shows.** `api-router.js:1055-1057` says that a retry with the same
key must not re-confirm the payment. The check finds finished purchases only and
runs before the await, so a retry sent while the first request waits is confirmed
too. With the same payment the provider declines it, and the customer sees an error
although the purchase goes through. With a second payment under the same key both
are captured, the second request is answered with the first one's tickets, and no
transaction or refund entry names the second payment. The web client derives the
key from the payment (`tosspayments-result-panel.tsx:58-61`), which excludes this; the
Android client keeps its key when the customer pays again (`TossCheckout.kt:121-129`).

**What `one_entry` shows.** `입장qr 문제점.md:60-62` asks that only the first to scan enters
and that the ticket is refused from then on. `verifyGate` uses up the mobile code and
sets the ticket ADMITTED; `verifyQr` looks at the credential and at `currentQr`, which
`verifyGate` leaves alone, and not at the ticket's status. With one live code of each kind
two people get in. What does hold, and is proved, is that each code lets in one
(`OneEntryPerCode`), and that a code of the app lets nobody in any more once its ticket has
changed hands, by a sale or its reversal, not even when whom it was issued to has the ticket
back (`SoldCodesAreDead`). The latter is not claimed of mobile codes: `verifyGate` does not
compare the code's user with the ticket's owner.

**What `shared_holds` shows.** `expire()` of the mobile session (`booking-session.js:11`)
marks the overdue holds of `booking-holds.js` EXPIRED as well and leaves their tickets HELD;
`reconcileHold` then skips them, and the seats stay HELD for good, against the same line
of the document as `draft_return`.

**What `queued_scans` shows.** `flushQueue` takes the queue at its start, awaits one request
per scan, and writes back what failed of that snapshot (`gate-scanner-panel.tsx:94-115`). A
scan queued meanwhile is overwritten, although the terminal has told the operator that it
will be verified when the connection is back.

**What `app_retry` shows.** A booking whose checkout cannot be prepared is undone: draft
cancelled, hold released. The retry button sends the same request with the same keys, the
server repeats its receipts (hold ACTIVE, draft PENDING_PAYMENT), and the app opens the screen of a held seat
(`CustomerScreens.kt:1149`, "confirmed by the server") with a checkout for a cancelled draft. No money is
lost: the purchase looks at the draft again. What does hold is in
`AppBookingsAreSound`.

**What `OffersStand` excepts.** `completeResaleMatch` (`commerce.js:456`) looks at neither the owner nor
the status of the ticket again, so an open offer has to stay true by what all other handlers do. Two
of them do not keep it so. `verifyQr` does not look at the status: a seller who had a code of the app
issued and then listed the ticket can go in with it, the pool stays open, and the used ticket is
sold from it, although `입장qr 문제점.md:447` allows no resale after admission (`InByApp`; the mobile gate never
does this). And when the operator unwinds a sale whose winner has listed the ticket again, that listing
stays open although the ticket is back with the first seller; when the winner has sold it on, the later
sale still stands. The property says so with `Reversed`, and so does `TransfersCounted` (proved
only). Money (`SettlementsMatch`) and credential (`CredentialIsOwners`) stay right without exception.

Deadlock is checked in `persistence`, `seat_inventory`, `toss_purchase` and
`resale_admission`: a down process can always
restart, an idle one can always crash; in `SeatInventory` the operator can
always act, in `TossPurchase` another request can always save, in `ResaleAdmission` an owner can always
ask for the virtual ticket. `services` and `back_office` do not check it: their requests, uploads and retries are
each made once, so that a component stops when they are used up.

**Remarks from the modelling**, seen in the code or with TLC and not made runs:

- `AppBooking`: when a login or a checkout clears the pending flag under a booking, going back
  no longer moves the generation on, and the late answer does reopen the screen
  (`CustomerAppViewModelTest.kt:746` expects that it cannot); `OnlyWantedPublishes`, a part of
  `AppBookingsAreSound`, excepts exactly the calls of `unguarded`. A retry whose queue entry has expired repeats the receipt of the waiting entry; one whose
  draft was never made but whose hold was released is refused for good, with the same keys.
- `CustomerApp.kt:641-645` says that logging out clears everything of the account; loads in flight are not
  cancelled and may put it back. `loadSeatMap` (367) has no generation, so the map of the earlier performance may
  arrive last.
- `SeatDesignerV2`: an undo in the middle of a drag can bring back an object on a floor that is gone, and an image
  that arrives in the middle of a drag is wiped by the next move of the pointer. Locked objects move with a
  drag of another selected object, and a plain click on an object adds an empty step of history, against
  `docs/superpowers/specs/2026-08-21-seat-designer-reference-parity-rebuild-design.md:62-70`. "초안 저장 완료" may be shown over
  edits made during the save.
- `EventEdit`: two drafts under one event id may wait for their posters together; the id is checked before the
  await only (`admin.js:369`, `398`). The second adds an entry of its own, the seller's claim and every review find
  the first, and the second is public, unreviewed, against `seller-events.js:5-6`: the exception of
  `UnreviewedIsHidden`. A seat sold while an update that drops its zone waits (`admin.js:453`, `594`) stays behind in
  a zone that is gone: the exception of `SoldSeatsHaveZones`. `SellerOnboarding`: an application that is REGISTERED never gets its account back
  (`seller-accounts.js:50`). `ChartRevisions`: a lock file survives its process (`revisions.ts:112`), and two publications may
  lose one venue's pointer (65).
- `TossPurchase`: the operator's cancellation (`api-router.js:1130`) awaits the provider and leaves the transaction
  as it was, so it can be repeated. Its comment (`api-router.js:1125-1129`) sends the operator to updateTicketStatus to
  release the seat, which refuses a ticket with an owner (`admin.js:954`): the seat stays sold.

## 5. Proofs

Eight modules, checked by TLAPS for every value of the constants: `PersistenceProofs`,
`SeatInventoryProofs`, `TossPurchaseProofs`, `ResaleAdmissionProofs`; `ServiceProofs`,
about `Services`; `BackOfficeProofs` and `DesignProofs`, about `BackOffice`; and
`DataTheorems`, about sums and sequences, which four of the others cite. The only assumptions are the named ones of the modules that
declare the constants: `BootAssumption` (the boot save has an owner of its own), the
`ConstantsAssumption`s (times, limits and prices are natural numbers, the ones that must
be are positive, NULL is no user or id, there are finitely many pools),
`RecordAssumption` (NULL is no record), `RequestAssumption` and `PurchaseAssumption` (an
order names different tickets, a payment one order), and one for each component of
`Services` and `BackOffice`, which say no more than that bounds and times are natural
numbers, that NULL is none of the values it stands beside, that names of components
differ, that a seat lies in one zone and a zone's seats lie in it, that charts are sequences of objects and a performance has
finitely many tickets, and that the plan a drawing begins with is no upload and there is a place
to draw at.

**Persistence.** `AckedIsDurable` is not inductive: that a request was answered says
nothing of how its effects got to disk. The invariant `IInv` adds `SnapshotChain`
(disk, the queued snapshots in order, and memory form a chain of inclusions, so that
each save adds to the one before it), `OwnersAwait` (a save in the queue has an owner that waits for
it, and an owner has one save), `SeenIsCarried` (what an unanswered request
saw is in memory, in its own snapshot from when it saved, on disk from when its
save settled), `RunningStep` (a whole pending file is the running save's snapshot)
and `Quiet` (a process that is down or booting has no requests in flight). Theorems:
`SpecIInv`, `TypeCorrect`, `AckedAreDurable`, `PromotesWholeSnapshots`,
`DiskMonotone` (the action property) and `StoreImplemented` (the refinement: initial
states map to initial states, each step to a step or a stutter).

**SeatInventory.** `ClaimsKeepTheirSeats` (records to tickets) and
`SeatsNameLiveClaims` (tickets to records) need each other: releasing a hold frees
exactly its seats only because no HELD ticket names a hold that does not list it.
To these `IInv` adds `RecordsHaveOrigins` (a draft comes from a converted hold of the same
user with the same seats, so no hold feeds two drafts) and `HoldTimeBounded` (the
expiry of a hold is within its TTL plus the extensions it has used of its
creation, which bounds the draft made from it). Each action has lemmas for the
conjuncts it can disturb; `NextIInv` combines them. Theorems: `SpecIInv`,
`TypeCorrect`, `ClaimsKept`, `SeatsNotStranded`, `ClaimsBounded`, `PaidForIsGot`, and
`SeatBookImplemented`: `EntriesFit` says that the entry the mapping gives a seat is the one its
ticket's status and its live record determine; each handler is then one step of
`SeatBook` or a stutter. A request that releases overdue claims on its way clears lapsed
entries in the same step (`Write`), and `IInv` gives that they are those of the released
records and of no other.

**TossPurchase.** Two facts carry the proof. `BookOK`: tickets, transactions and refund
entries agree (each transaction is of a requested order, orders are whole, a ticket
is sold once, a key has one order, refunded payments have no transactions); it holds of
memory and, separately, of the disk, so that a restart goes back to consistent books.
`OneCapture`: a request that has a captured payment in hand is the only one that will
decide about that payment, which is why the sale or the refund entry it writes cannot
meet another for the same money. `DiskBehind`, `UnsavedIsAwaited` (what is in memory only
belongs to a request not yet answered, or cut off) and `AnswersHold` add what saves and
restarts need. The sale keeps `BookOK` only because `buyPrimary` looks again after the
await (`SaleIsClear`); `MaySellUnchecked` is the code without that, and TLC finds the
seat sold twice. Theorems: `SpecIInv`, `SpecRefundOrSeats`, `SpecOrdersAreWhole`,
`SpecOneBuyerPerTicket`, `SpecAnswersAreKept`, `SpecOnePurchasePerKey`, and
`SpecCapturedIsAccounted`, by an induction of its own on top of `IInv`. The last one has
the hypothesis `KeyNamesPayment` (no second payment under the key of the same order): it is
exactly what `toss_repaid` lacks.

Amounts have an invariant of their own, `AmountsIInv`, on top of `IInv`. What the provider was
asked for covers the fee of a seat, so what it captures is natural even where it captures
less; the recorded amounts of a payment add up (`AddsUp`) in memory and, separately, on
disk; and the shares of one sale add up to the amount captured for it, whatever the prices
have become during the await (`splitGroupAmount` gives the last ticket what rounding leaves over). A
sale adds its transactions to a payment that had none (`BookOK`), so the sum over the payment's
transactions is the sum over the sale's. Theorems: `SpecTypeOK`, `SpecAmountsAddUp`.

**Sums and sequences.** `Total` (module `Sums`) is the library's sum over a set, a recursion that takes the
elements in an order of CHOOSE's. `DataTheorems` proves what the proofs need of it: it is zero
over nothing, grows by an element's value whichever element is added (`TotalWith`,
`TotalWithout`), depends on the values only (`TotalOfEquals`), is additive, and is the sum by index
of an enumeration. The library's induction theorems take an operator as parameter and cannot be
used; the induction is first-order instead: a set of numbers without the property would have
a least one (`LeastNumber`, from the library's fact that < is well-founded on the
naturals), and `SubsetsBySize` is its form for the subsets of a finite set. In the same way it
proves of the filter `Only` (module `Lists`; the standard SelectSeq is opaque to the prover) that
it keeps the order and the right elements, and of a sequence of sequences what joining
them gives (`JoinedFacts`).

**ResaleAdmission.** No conjunct of the invariant needs the others beyond `TypeOK`, so
each has a lemma of its own over all actions: `CredentialsNext`, `EntriesNext` (what let
somebody in is used, so nothing lets in twice), `PoolsNext`, and one for the codes of the past
(a VALID code of the app that its ticket does not carry is of no use, and no hand-over leaves it carried). For pools the checked
properties are not inductive: `Complete` does not look at the transfer limit again, so
`OfferOK` adds that each open pool's ticket is below it, and a reversal must be recognised
later, so `PoolOK` adds that a matched pool has a winner. `PoolStep` reduces a handler
that writes one pool and its ticket to what it does to that ticket's pools;
`ListStep`, `WithdrawStep`, `CompleteStep` and `UnwindStep` are the four ways, the last two
counting the matches up and down with the library's facts on cardinality. Theorems:
`SpecIInv`, `SpecTypeOK`, `SpecCredentialIsOwners`, `SpecOneEntryPerCode`,
`SpecOffersStand`, `SpecTransfersCounted` and the action property
`SpecSoldCodesAreDead`. For money, `SpecSettlementsMatch`: a match adds one pool to the sales of
its seller and to the buys of its winner (`MatchedOnceMore`), a reversal takes the same pool out of
both (`SettledByReversal`) at the price and fee recorded in it, and every other step leaves the
matched pools as they are (`StaysSettled`).

**Services.** `ServicesTyped` is the types of all components together; the other results are each from an invariant of its component. `RetryIInv`
(`RetriesSafe`): memory, each snapshot still to be written and the file hold receipts
that agree with the effects they answer for; snapshots follow each other in the order
they were taken (`SavesInOrder`), so that a crash goes back to an earlier and equally
sound one; what was answered happened, and with the payload of the request
(`AnswersHappened`, `PayloadsAgree`). `SessionIInv` (`SessionHoldsSound`): a draft is of a
hold that was made, an expired one of a hold that ended (`DraftsFollowHolds`), so that
reconciling a draft revives nothing. `AttestIInv` and `RegistrationIInv`
(`DevicesProven`): two requests have used one challenge only if the later began before
the earlier ended. `KeyBuysOnce`: `TossPurchaseProofs` is used as it is, for the purchases
of `Services` have its initial states and its steps (`CardInit`, `CardNext`).

**Clients.** `GateIInv` (`ScansCountOnce`): queue, snapshots and what remains of them hold
a scan once, and every verdict shown or on its way is about the code as the server knows
it (`VerdictsAreTrue`); for every number of terminals' scans, flushes and codes.
`AppIInv` (`AppBookingsSound`): a live hold or draft has its seat (`ClaimsHaveSeats`) and somebody to
care for it (`ClaimsInCare`): the app has shown it, a call under way will show or undo
it, or an answer or a clean-up was lost. It needs a lemma for each of the server's
requests and each stage of a call, since every one of them may fail.

**Shop.** `ShopSelectsSeatsSound`. That two seats of a chart are never bound to one ticket
does not come from the search for a ticket, which may find the same one twice, but from counting:
the binding is refused unless as many tickets come out as the performance has, and in a finite set
as many places as tickets means that each is in one place (`CoverMeans`). The invariant
(`ShopIInv`) says that a mounted fetch is of the performance shown and its seats are not there
yet, that nothing is selected before seats and chart are, and that the selection is sound: no seat
twice, at most as many as may be bought, and tables whole. A click keeps it in each of its three
forms (`OffIsSound`, `TableIsSound`, `SingleIsSound`); a table is off or on as a whole because its
members are bound together and a chosen table is still available, so that the next
click on it empties it.

**BackOffice.** `DecisionsKept` and `AccountsWhole`. Events: a draft in flight brings its
prices and an update finds its event (`RequestsAreAllowed`), which is what the second half of
an edit relies on after its await; a sold seat's zone is one of the event's (`TicketsHaveZones`), and an
update that waits drops no zone with a sold seat but those sold since its check (`DropsAreChecked`). Sellers: `SellersAreReviewed` is inductive with the
types, and what is decided stays decided at every step (`SellerDecided`). Logins: `LoginsAreWhole` needs that every opened login is of a subject
(`LoginsAreOfSubjects`), that a hand-off code that opened a session is used up
(`CodesAreUsedUp`) and that who was answered has an account (`AnsweredAreKnown`).
Identity: a callback brings its result back to a verification that was begun (`ResultsAreOfRecords`).
Watchlist: `NoticesFollowTheList` is inductive with the types; the work is in sequences,
whose items are filtered, extended and looked up by position.

**Charts.** `ChartFilesSound`: what a save has compared under the lock is still so when it
renames (`CheckedIsCurrent`), because the lock excludes other saves of that chart
(`LocksAreExclusive`), because copies with one revision are one document (`CopiesAgree`,
for which a chart that was never saved must be one request's alone, `NewChartsAreOwn`),
and a venue names a revision only when the request that wrote it has finished
(`RevisionsAreOwn`).

`DesignerKeepsToItsCharts` is about the earlier designer. Its invariant (`EditorIInv`) says
of the canvas that every snapshot of the history has the key and the revision of the chart
shown and shows only images uploaded for it, or for a chart that had no key yet
(`CanvasSound`); of the uploads that the one a slot awaits was begun for the chart shown,
and after every upload that has landed in that slot (`UploadsSound`), so that an answer that
is not stale is the newest; and of the calls, the browser's copy and the store that they
carry charts that show only their own images, and that the store has the chart a waiting
call asked for (`KeptSound`). It is needed because undo can bring a snapshot back while an
upload or a load is under way, and a load can bring a chart that the store got from another
save.

`DrawingsAreWhole` is about the newer designer. An undo shows a whole earlier state, so that the
invariant (`SketchIInv`) is about every state that is shown or can be shown again (`Kept`: the
canvas, where a drag began, the history). Each is whole (`CanvasWhole`): its floors differ, its objects lie
on them and in sections on the same floor, the section that is edited is there, and what is
selected lies on the active floor. The hard step is a deletion, which takes the contents of
sections with them down to the least closed set: it must not take the section being edited, or
the editor would be left in a section that is gone. So a canvas is whole only if there are depths
by which no section lies in itself and everything selected lies below the section edited
(`Layered`); then the section and what lies no deeper than it are outside of what a deletion
takes. Depths are natural numbers that some function gives, never a
recursion over the nesting. A drag is part of the invariant (`DragSound`): until an undo falls
into it, the canvas has the floors and the section of the state it began in and selects
nothing else of it, so that drawing the objects of that state again strands none. A plan
shown anywhere is an upload that has answered (`PlansArrived`), and no upload has a request
newer than the counter (`ImagesSound`), which is what the order of the plans rests on. Like the
run, the theorem follows a drawing to the first undo in the middle of a drag (section 4 has what
happens then).

`BackOfficeTyped` puts the invariants of all components of `BackOffice` together.

**Only model-checked.** Liveness (`EveryRequestAnswered`, `AbandonedHoldEnds`, the queue's
`EveryWaiterIsServed`), which the prover cannot do under fairness. Every other property of
the passing runs is stated by a theorem.

## 6. Not modelled

The hash chain of the ledger and the static file server; texts, prices shown and layout; the
operator's cancellation of a payment and the provider's webhook; the operator's hold on a
credential; trust scores; requests for group bookings and for support, discovery and permission
tables (single records with no order to keep); migrations and seed data; the earlier designer's canvas and
chart operations and the geometry of either designer (pure drawing); the generated
viewers under `좌석 도면/`; the checkout pages of the web, the iOS app and the Android gate
app; `queue-waiting-room.tsx`, `cancel-flow.tsx` and `transfer-flow.tsx`, which show
fixed demonstration data; scripts and documents.
Most of the repository's lines are of these kinds, user interface and drawing above all, and
the models cover about a tenth of all lines; of the backend's
handlers that change shared state they cover most. `PROJECT.json` gives the
reason for each component.
