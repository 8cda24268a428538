---------------------------- MODULE TossPurchase ----------------------------
(***************************************************************************)
(* Buying seats with a card payment: POST                                  *)
(* /api/payments/tosspayments/purchase (backend/api-router.js), which asks *)
(* the payment provider to capture the money (backend/tosspayments.js) and *)
(* then sells the seats (backend/commerce.js).                             *)
(*                                                                         *)
(* The handler awaits the provider between its check of the seats and      *)
(* their sale.  Whatever the other handlers do to the seats in between,    *)
(* the money is captured already: it must end as a sale of exactly these   *)
(* seats or as an entry of the ledger that says it must be refunded.  A    *)
(* retry, or a duplicate of the request, may run at the same time, and the *)
(* process may die at any point, which takes the database back to the last *)
(* save and the provider nowhere.                                          *)
(***************************************************************************)
EXTENDS Integers, Sequences, FiniteSets, Sums

CONSTANTS
  Request,       \* purchase requests, the retries as requests of their own
  UserOf, KeyOf, \* the user and the idempotency key of each request
  PaymentOf,     \* its tossPaymentKey
  TicketIds,     \* its tickets in order; more than one is a group purchase
  User, Ticket, Payment, Nobody,
  Zone, ZoneOf,  \* the price zones, and the one of each ticket
  Verified,      \* the users whose identity is verified
  Prices,        \* bound: the face values a ticket can be given
  SERVICE_FEE_PER_SEAT

TicketSet(r) == {TicketIds[r][i] : i \in 1..Len(TicketIds[r])}

(* A payment is registered with the provider for one order of one user; no *)
(* client sends it with other tickets or under a second key.               *)
ASSUME RequestAssumption ==
  /\ UserOf \in [Request -> User] /\ PaymentOf \in [Request -> Payment]
  /\ \A r \in Request :
       /\ TicketIds[r] \in Seq(Ticket) \ {<<>>}
       /\ \A i, j \in 1..Len(TicketIds[r]) : i # j => TicketIds[r][i] # TicketIds[r][j]
  /\ \A r, q \in Request : PaymentOf[r] = PaymentOf[q] =>
       UserOf[r] = UserOf[q] /\ KeyOf[r] = KeyOf[q] /\ TicketIds[r] = TicketIds[q]

ASSUME ConstantsAssumption ==
  /\ ZoneOf \in [Ticket -> Zone]
  /\ Nobody \notin User /\ Verified \subseteq User
  /\ Prices \subseteq Nat \ {0} /\ SERVICE_FEE_PER_SEAT \in Nat

VARIABLES
  tickets,       \* db.tickets: status, and whose claim or seat it is
  faceValue,     \* their prices
  transactions,  \* db.paymentTransactions
  refunds,       \* payments with a TOSSPAYMENTS_PAYMENT_NEEDS_REFUND entry
  disk,          \* the database file
  phase,         \* how far each request has come
  approvedAmount,\* what each request asked the provider to capture
  captured       \* external: what the provider has captured of each payment

db == <<tickets, faceValue, transactions, refunds>>
vars == <<db, disk, phase, approvedAmount, captured>>

Snapshot ==
  [tickets |-> tickets, faceValue |-> faceValue, transactions |-> transactions,
   refunds |-> refunds]

Phase == {"new", "confirming", "captured", "bought", "owed",
          "paid", "refundDue", "refused", "mismatched", "cutOff"}

(* A claim is a live hold or draft of one ticket, the one that requests of *)
(* its user refer to.  Every other ticket that is not for sale (claimed by *)
(* others, lapsed, blocked, of an event that is closed) is UNAVAILABLE.    *)
OnSale == [status |-> "ON_SALE", by |-> Nobody]
Unavailable == [status |-> "UNAVAILABLE", by |-> Nobody]
Claimed(u) == [status |-> "CLAIMED", by |-> u]
Owned(u) == [status |-> "OWNED", by |-> u]
UnsoldState == {OnSale, Unavailable} \union {Claimed(u) : u \in User}
TicketState == UnsoldState \union {Owned(u) : u \in User}

Init ==
  /\ tickets \in [Ticket -> {OnSale}]
  /\ \E price \in Prices : faceValue = [s \in Ticket |-> price]
  /\ transactions = {}
  /\ refunds = {}
  /\ disk = Snapshot
  /\ phase = [r \in Request |-> "new"]
  /\ approvedAmount = [r \in Request |-> 0]
  /\ captured = [p \in Payment |-> 0]

-----------------------------------------------------------------------------
(* What the handler reads *)

IsGroup(r) == Len(TicketIds[r]) > 1

(* The transactions of T under the key of r.  Single and group purchases   *)
(* make different digests of the same key.                                 *)
UnderKey(T, r) == {t \in T : /\ t.userId = UserOf[r] /\ t.key = KeyOf[r]
                             /\ t.group = IsGroup(r)}

(* findIdempotentPurchase, findIdempotentGroupPurchase: the key was used   *)
(* for this order already, or for another one.                             *)
Replays(T, r) == UnderKey(T, r) # {} /\ \A t \in UnderKey(T, r) : t.order = TicketSet(r)

(* A slip: a key that was used for another order is taken for a new one. *)
ConflictsNever(r) == FALSE
Conflicts(r) == \E t \in UnderKey(transactions, r) : t.order # TicketSet(r)

(* assertTicketPurchasable: a group takes tickets on sale only. *)
Purchasable(r) ==
  \A s \in TicketSet(r) : \/ tickets[s] = OnSale
                          \/ ~IsGroup(r) /\ tickets[s] = Claimed(UserOf[r])

OrderTotal(r) ==
  Total(faceValue, TicketSet(r)) + Len(TicketIds[r]) * SERVICE_FEE_PER_SEAT

(* A slip: the last ticket gets the same share as the others. *)
splitEvenly(total, ids) ==
  LET extra == total - Total(faceValue, {ids[i] : i \in 1..Len(ids)})
  IN [i \in 1..Len(ids) |-> faceValue[ids[i]] + extra \div Len(ids)]

(* What of the total is recorded for each ticket, the prices being those   *)
(* of the moment of the sale; the last one gets what division leaves.      *)
splitGroupAmount(total, ids) ==
  LET n     == Len(ids)
      extra == total - Total(faceValue, {ids[i] : i \in 1..n})
      share == extra \div n
  IN [i \in 1..n |-> faceValue[ids[i]] + IF i = n THEN extra - share * (n - 1) ELSE share]

RecordedAmounts(r) ==
  IF IsGroup(r) THEN splitGroupAmount(approvedAmount[r], TicketIds[r])
                ELSE <<approvedAmount[r]>>

-----------------------------------------------------------------------------
(* The purchase request *)

Refuse(r) ==
  /\ phase' = [phase EXCEPT ![r] = "refused"]
  /\ UNCHANGED <<db, disk, approvedAmount, captured>>

AskProvider(r) ==
  /\ phase' = [phase EXCEPT ![r] = "confirming"]
  /\ approvedAmount' = [approvedAmount EXCEPT ![r] = OrderTotal(r)]
  /\ UNCHANGED <<db, disk, captured>>

(* Up to the await: a replay answers with the earlier purchase, if the     *)
(* user is verified; otherwise the tickets are looked at and the provider  *)
(* is asked for their price.                                               *)
Begin(r) ==
  /\ phase[r] = "new"
  /\ IF Replays(transactions, r)
     THEN IF UserOf[r] \in Verified
          THEN /\ phase' = [phase EXCEPT ![r] = "bought"]
               /\ UNCHANGED <<db, disk, approvedAmount, captured>>
          ELSE Refuse(r)
     ELSE IF ~Conflicts(r) /\ Purchasable(r) THEN AskProvider(r) ELSE Refuse(r)

(* External: the provider captures what it is asked for, or an amount that *)
(* it reports back.  A payment is captured once.                           *)
ProviderCaptures(r) ==
  /\ phase[r] = "confirming"
  /\ captured[PaymentOf[r]] = 0
  /\ \E amount \in {approvedAmount[r], approvedAmount[r] - SERVICE_FEE_PER_SEAT} \ {0} :
       captured' = [captured EXCEPT ![PaymentOf[r]] = amount]
  /\ phase' = [phase EXCEPT ![r] = "captured"]
  /\ UNCHANGED <<db, disk, approvedAmount>>

(* External: the provider declines, has captured the payment already, or   *)
(* cannot be reached.                                                      *)
ProviderDeclines(r) ==
  /\ phase[r] = "confirming"
  /\ Refuse(r)

(* The provider's answer does not arrive: fetch rejects. *)
AnswerLost(r) ==
  /\ phase[r] = "captured"
  /\ phase' = [phase EXCEPT ![r] = "cutOff"]
  /\ UNCHANGED <<db, disk, approvedAmount, captured>>

AmountMatches(r) == captured[PaymentOf[r]] = approvedAmount[r]

(* confirmTosspaymentsPayment throws when the amounts differ. *)
Mismatch(r) ==
  /\ phase[r] = "captured"
  /\ ~AmountMatches(r)
  /\ phase' = [phase EXCEPT ![r] = "mismatched"]
  /\ UNCHANGED <<db, disk, approvedAmount, captured>>

(* A slip: what held before the await is taken to hold after it. *)
MaySellUnchecked(r) == UserOf[r] \in Verified

(* buyPrimary and buyPrimaryGroup check everything again. *)
MaySell(r) == UserOf[r] \in Verified /\ ~Conflicts(r) /\ Purchasable(r)

Sold(r) == 1..Len(TicketIds[r])

Transaction(r, i) ==
  [ticketId |-> TicketIds[r][i], userId |-> UserOf[r], amount |-> RecordedAmounts(r)[i],
   pgTransactionId |-> PaymentOf[r], key |-> KeyOf[r], group |-> IsGroup(r),
   order |-> TicketSet(r)]

Sell(r) ==
  /\ tickets' = [s \in Ticket |-> IF \E i \in Sold(r) : s = TicketIds[r][i]
                                  THEN Owned(UserOf[r]) ELSE tickets[s]]
  /\ transactions' = transactions \union {Transaction(r, i) : i \in Sold(r)}
  /\ UNCHANGED refunds

(* A slip: the failure is answered and nothing is written down. *)
NoteNothing(r) == UNCHANGED <<tickets, transactions, refunds>>

(* A slip: the entry names the key of the request, not the payment. *)
NeedsRefundByKey(r) ==
  /\ refunds' = refunds \union {KeyOf[r]}
  /\ UNCHANGED <<tickets, transactions>>

(* A slip: the order is refunded, but the tickets before the one that was  *)
(* gone stay sold.                                                         *)
NeedsRefundHalfSold(r) ==
  LET left == {i \in Sold(r) : tickets[TicketIds[r][i]] = OnSale}
  IN /\ tickets' = [s \in Ticket |-> IF \E i \in left : s = TicketIds[r][i]
                                     THEN Owned(UserOf[r]) ELSE tickets[s]]
     /\ transactions' = transactions \union {Transaction(r, i) : i \in left}
     /\ refunds' = refunds \union {PaymentOf[r]}

(* The catch block: the ledger entry that asks for a refund. *)
NeedsRefund(r) ==
  /\ refunds' = refunds \union {PaymentOf[r]}
  /\ UNCHANGED <<tickets, transactions>>

(* After the await, in one step: the earlier purchase under this key, the  *)
(* sale, or the entry of a payment that got no seats.                      *)
Allocate(r) ==
  /\ phase[r] = "captured"
  /\ AmountMatches(r)
  /\ \/ /\ Replays(transactions, r) /\ UserOf[r] \in Verified
        /\ UNCHANGED <<tickets, transactions, refunds>>
        /\ phase' = [phase EXCEPT ![r] = "bought"]
     \/ /\ ~Replays(transactions, r) /\ MaySell(r)
        /\ Sell(r)
        /\ phase' = [phase EXCEPT ![r] = "bought"]
     \/ /\ IF Replays(transactions, r) THEN UserOf[r] \notin Verified ELSE ~MaySell(r)
        /\ NeedsRefund(r)
        /\ phase' = [phase EXCEPT ![r] = "owed"]
  /\ UNCHANGED <<faceValue, disk, approvedAmount, captured>>

(* A slip: the answer does not wait for the save. *)
ReplyUnsaved(r) ==
  /\ phase[r] \in {"bought", "owed"}
  /\ phase' = [phase EXCEPT ![r] = IF @ = "bought" THEN "paid" ELSE "refundDue"]
  /\ UNCHANGED <<db, disk, approvedAmount, captured>>

(* The database is saved, then the request is answered. *)
Reply(r) ==
  /\ phase[r] \in {"bought", "owed"}
  /\ phase' = [phase EXCEPT ![r] = IF @ = "bought" THEN "paid" ELSE "refundDue"]
  /\ disk' = Snapshot
  /\ UNCHANGED <<db, approvedAmount, captured>>

(* The save fails: what was done stays in memory, the answer is an error.  *)
SaveFails(r) ==
  /\ phase[r] \in {"bought", "owed"}
  /\ phase' = [phase EXCEPT ![r] = "cutOff"]
  /\ UNCHANGED <<db, disk, approvedAmount, captured>>

-----------------------------------------------------------------------------
(* Everybody else, and the process *)

(* Holds, drafts, other sales and the operator: anything may happen to a   *)
(* ticket that is not sold; a sale to others is a ticket that stays        *)
(* UNAVAILABLE.  Their requests save the database, and with it what the    *)
(* requests of this module have done so far.                               *)
OthersChange(s) ==
  /\ tickets[s].status # "OWNED"
  /\ \E state \in UnsoldState : tickets' = [tickets EXCEPT ![s] = state]
  /\ UNCHANGED <<faceValue, transactions, refunds, phase, approvedAmount, captured>>
  /\ disk' = Snapshot'

(* updateEventSale gives a new price to the tickets of a zone that nobody  *)
(* has claimed; of the UNAVAILABLE ones, some are claimed.                 *)
Reprice(z, price) ==
  /\ \E S \in SUBSET {s \in Ticket : tickets[s] = Unavailable} :
       faceValue' = [s \in Ticket |->
                       IF ZoneOf[s] = z /\ (tickets[s] = OnSale \/ s \in S)
                       THEN price ELSE faceValue[s]]
  /\ UNCHANGED <<tickets, transactions, refunds, phase, approvedAmount, captured>>
  /\ disk' = Snapshot'

(* Any other request: it saves too. *)
OthersSave ==
  /\ disk' = Snapshot
  /\ UNCHANGED <<db, phase, approvedAmount, captured>>

Answered == {"new", "paid", "refundDue", "refused", "mismatched"}

(* The process dies and starts again from the database file. *)
Restart ==
  /\ tickets' = disk.tickets /\ faceValue' = disk.faceValue
  /\ transactions' = disk.transactions /\ refunds' = disk.refunds
  /\ phase' = [r \in Request |-> IF phase[r] \in Answered THEN phase[r] ELSE "cutOff"]
  /\ UNCHANGED <<disk, approvedAmount, captured>>

Next ==
  \/ \E r \in Request :
       \/ Begin(r) \/ ProviderCaptures(r) \/ ProviderDeclines(r) \/ AnswerLost(r)
       \/ Mismatch(r) \/ Allocate(r) \/ Reply(r) \/ SaveFails(r)
  \/ \E s \in Ticket : OthersChange(s)
  \/ \E z \in Zone, price \in Prices : Reprice(z, price)
  \/ OthersSave
  \/ Restart

Spec == Init /\ [][Next]_vars

-----------------------------------------------------------------------------
(* Properties *)

(* Records keep their shape, and the provider captures natural amounts. *)
TypeOK ==
  /\ tickets \in [Ticket -> TicketState]
  /\ faceValue \in [Ticket -> Prices]
  /\ \A t \in transactions : /\ t.ticketId \in Ticket /\ t.userId \in User
                              /\ t.pgTransactionId \in Payment /\ t.amount \in Int
  /\ refunds \subseteq Payment
  /\ phase \in [Request -> Phase]
  /\ approvedAmount \in [Request -> Nat]
  /\ captured \in [Payment -> Nat]

PaidWith(p) == {t \in transactions : t.pgTransactionId = p}

(* No captured payment is forgotten: it bought seats, or the ledger asks   *)
(* for its refund, or its answer is still on the way, or nobody could know *)
(* of it (the answer or the process was lost, or the provider captured     *)
(* another amount than it was asked for).                                  *)
CapturedIsAccounted ==
  \A p \in Payment : captured[p] > 0 =>
    \/ PaidWith(p) # {}
    \/ p \in refunds
    \/ \E r \in Request : PaymentOf[r] = p /\ phase[r] \in {"captured", "cutOff", "mismatched"}

(* Nobody gets both the seats and the money back, whatever retries and     *)
(* duplicates of a request meet.                                           *)
RefundOrSeats == \A p \in refunds : PaidWith(p) = {}

(* An order is sold whole or not at all, to the user who paid. *)
OrdersAreWhole ==
  \A r \in Request : LET paid == PaidWith(PaymentOf[r]) IN paid # {} =>
    /\ {t.ticketId : t \in paid} = TicketSet(r)
    /\ \A t \in paid : t.userId = UserOf[r] /\ tickets[t.ticketId] = Owned(t.userId)

(* What is recorded for the tickets of an order is what was captured, to   *)
(* the last won, also when prices changed while the provider was asked.    *)
AmountsAddUp ==
  \A p \in Payment : PaidWith(p) # {} =>
    Total([t \in PaidWith(p) |-> t.amount], PaidWith(p)) = captured[p]

(* A ticket is sold once: the one that has an owner has one transaction,   *)
(* of that owner, and every transaction's ticket has an owner.             *)
OneBuyerPerTicket ==
  \A s \in Ticket : LET sales == {t \in transactions : t.ticketId = s}
    IN IF tickets[s].status = "OWNED"
       THEN \E t \in sales : sales = {t} /\ tickets[s].by = t.userId
       ELSE sales = {}

(* What a client was told survives a restart: an answered purchase has its *)
(* tickets, an answered failure its refund entry, in memory and on disk.   *)
AnswersAreKept ==
  \A r \in Request :
    /\ phase[r] = "paid" => /\ Replays(transactions, r) /\ Replays(disk.transactions, r)
                            /\ \A s \in TicketSet(r) : disk.tickets[s] = Owned(UserOf[r])
    /\ phase[r] = "refundDue" => PaymentOf[r] \in refunds /\ PaymentOf[r] \in disk.refunds

(* A key buys once: whatever is sold under one key of one user was one     *)
(* order, paid for with one payment.                                       *)
OnePurchasePerKey ==
  \A t, v \in transactions :
    t.userId = v.userId /\ t.key = v.key /\ t.group = v.group =>
      t.pgTransactionId = v.pgTransactionId /\ t.order = v.order

(* backend/api-router.js:1055-1057 says that a retry with the same         *)
(* idempotency key must not re-confirm payment: of the requests of a user  *)
(* with one key, one at most is captured.                                  *)
RetryIsNotCharged ==
  \A r, q \in Request :
    /\ UserOf[r] = UserOf[q] /\ KeyOf[r] = KeyOf[q] /\ TicketIds[r] = TicketIds[q]
    /\ captured[PaymentOf[r]] > 0 /\ captured[PaymentOf[q]] > 0
    => PaymentOf[r] = PaymentOf[q]
=============================================================================
