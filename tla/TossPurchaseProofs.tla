------------------------- MODULE TossPurchaseProofs -------------------------
(***************************************************************************)
(* Safety of card purchases for any number of requests, users, tickets,    *)
(* payments, duplicates and restarts.                                      *)
(*                                                                         *)
(* Everything follows from two facts.  The books are consistent (BookOK),  *)
(* in memory and on disk alike, because the sale after the await repeats   *)
(* every check; and a request whose payment has been captured is the only  *)
(* one that will decide about it (OneCapture).                             *)
(***************************************************************************)
EXTENDS TossPurchase, DataTheorems, TLAPS

(* t is a transaction of the order that q asks for. *)
OfOrder(t, q) ==
  /\ t.userId = UserOf[q] /\ t.key = KeyOf[q] /\ t.group = IsGroup(q)
  /\ t.order = TicketSet(q) /\ t.pgTransactionId = PaymentOf[q]
  /\ t.ticketId \in TicketSet(q)

FromRequests(T) == \A t \in T : \E q \in Request : OfOrder(t, q)

(* A ticket of an order is its buyer's and has a transaction of its own. *)
Whole(K, T) ==
  \A t \in T : \A s \in t.order :
    /\ K[s] = Owned(t.userId)
    /\ \E v \in T : v.ticketId = s /\ v.pgTransactionId = t.pgTransactionId

SoldOnce(K, T) ==
  \A s \in Ticket : LET sales == {t \in T : t.ticketId = s}
    IN IF K[s].status = "OWNED"
       THEN \E t \in sales : sales = {t} /\ K[s].by = t.userId
       ELSE sales = {}

OneOrderPerKey(T) ==
  \A t, v \in T : t.userId = v.userId /\ t.key = v.key /\ t.group = v.group =>
    t.pgTransactionId = v.pgTransactionId /\ t.order = v.order

Apart(T, R) == \A t \in T : t.pgTransactionId \notin R

(* Tickets K, transactions T and refund entries R agree with each other. *)
BookOK(K, T, R) ==
  /\ K \in [Ticket -> TicketState]
  /\ FromRequests(T)
  /\ Whole(K, T)
  /\ SoldOnce(K, T)
  /\ OneOrderPerKey(T)
  /\ R \subseteq Payment
  /\ Apart(T, R)

MemoryOK == BookOK(tickets, transactions, refunds)
DiskOK == BookOK(disk.tickets, disk.transactions, disk.refunds)

DiskBehind == disk.transactions \subseteq transactions /\ disk.refunds \subseteq refunds

(* Money first: nothing is sold or owed for a payment not captured. *)
CapturedFirst ==
  /\ \A t \in transactions : captured[t.pgTransactionId] # 0
  /\ \A p \in refunds : captured[p] # 0
  /\ \A r \in Request : phase[r] = "captured" => captured[PaymentOf[r]] # 0

(* The request that waits with a captured payment is alone with it. *)
OneCapture ==
  \A r \in Request : phase[r] = "captured" =>
    /\ PaymentOf[r] \notin refunds
    /\ \A t \in transactions : t.pgTransactionId # PaymentOf[r]
    /\ \A q \in Request : q # r /\ PaymentOf[q] = PaymentOf[r] => phase[q] # "captured"

(* What a restart would undo belongs to a request that was not answered. *)
UnsavedIsAwaited ==
  /\ \A t \in transactions : t \in disk.transactions \/
       \E r \in Request : PaymentOf[r] = t.pgTransactionId /\ phase[r] \in {"bought", "cutOff"}
  /\ \A p \in refunds : p \in disk.refunds \/
       \E r \in Request : PaymentOf[r] = p /\ phase[r] \in {"owed", "cutOff"}

AnswersHold ==
  \A r \in Request :
    /\ phase[r] = "bought" => Replays(transactions, r)
    /\ phase[r] = "owed" => PaymentOf[r] \in refunds
    /\ phase[r] = "paid" => Replays(disk.transactions, r)
    /\ phase[r] = "refundDue" => PaymentOf[r] \in disk.refunds

IInv ==
  /\ phase \in [Request -> Phase]
  /\ DOMAIN captured = Payment
  /\ MemoryOK
  /\ DiskOK
  /\ DiskBehind
  /\ CapturedFirst
  /\ OneCapture
  /\ UnsavedIsAwaited
  /\ AnswersHold

-----------------------------------------------------------------------------
(* Orders and their transactions *)

LEMMA RequestFacts ==
  ASSUME NEW r \in Request
  PROVE  /\ UserOf[r] \in User /\ PaymentOf[r] \in Payment
         /\ Len(TicketIds[r]) \in Nat \ {0}
         /\ \A i \in 1..Len(TicketIds[r]) : TicketIds[r][i] \in Ticket
         /\ TicketSet(r) \subseteq Ticket /\ TicketSet(r) # {}
  <1>1. TicketIds[r] \in Seq(Ticket) \ {<<>>} /\ UserOf[r] \in User /\ PaymentOf[r] \in Payment
    BY RequestAssumption
  <1>2. Len(TicketIds[r]) \in Nat \ {0}
    BY <1>1
  <1>3. \A i \in 1..Len(TicketIds[r]) : TicketIds[r][i] \in Ticket
    BY <1>1
  <1>4. 1 \in 1..Len(TicketIds[r])
    BY <1>2
  <1>5. QED
    BY <1>1, <1>2, <1>3, <1>4 DEF TicketSet

(* The payment of an order tells the order. *)
LEMMA SamePayment ==
  ASSUME NEW r \in Request, NEW q \in Request, PaymentOf[r] = PaymentOf[q]
  PROVE  /\ UserOf[r] = UserOf[q] /\ KeyOf[r] = KeyOf[q]
         /\ TicketSet(r) = TicketSet(q) /\ IsGroup(r) = IsGroup(q)
  BY RequestAssumption DEF TicketSet, IsGroup

LEMMA TransactionFields ==
  ASSUME NEW r \in Request, NEW i \in 1..Len(TicketIds[r])
  PROVE  /\ OfOrder(Transaction(r, i), r)
         /\ Transaction(r, i).ticketId = TicketIds[r][i]
  <1>1. TicketIds[r][i] \in TicketSet(r)
    BY DEF TicketSet
  <1>2. QED
    BY <1>1 DEF Transaction, OfOrder

LEMMA OwnedIsOwned ==
  ASSUME NEW u
  PROVE  /\ Owned(u).status = "OWNED" /\ Owned(u).by = u
  BY DEF Owned

(* An owned ticket is not for sale. *)
LEMMA PurchasableIsUnsold ==
  ASSUME NEW r \in Request, Purchasable(r), NEW s \in TicketSet(r)
  PROVE  tickets[s].status # "OWNED"
  BY DEF Purchasable, OnSale, Claimed

-----------------------------------------------------------------------------
(* The sale *)

(* What lets a sale through: no purchase under the key, tickets unsold,    *)
(* and a payment that the books do not know yet.                           *)
Clear(r) ==
  /\ UnderKey(transactions, r) = {}
  /\ \A s \in TicketSet(r) : tickets[s].status # "OWNED"
  /\ PaymentOf[r] \notin refunds

LEMMA SellStep ==
  ASSUME NEW r \in Request, MemoryOK, Clear(r), Sell(r)
  PROVE  MemoryOK'
  <1>1. /\ \A s \in Ticket : tickets'[s] = IF s \in TicketSet(r) THEN Owned(UserOf[r])
                                           ELSE tickets[s]
        /\ DOMAIN tickets' = Ticket
    BY DEF Sell, Sold, TicketSet
  <1>2. \A t \in transactions' :
          t \in transactions \/ \E i \in 1..Len(TicketIds[r]) : t = Transaction(r, i)
    BY DEF Sell, Sold
  <1>3. \A t \in transactions' : t \in transactions \/ OfOrder(t, r)
    BY <1>2, TransactionFields
  <1>4. \A i \in 1..Len(TicketIds[r]) : Transaction(r, i) \in transactions'
    BY DEF Sell, Sold
  <1>5. transactions \subseteq transactions' /\ refunds' = refunds
    BY DEF Sell
  <1>6. \A s \in TicketSet(r) : \E i \in 1..Len(TicketIds[r]) : s = TicketIds[r][i]
    BY DEF TicketSet
  <1>7. tickets' \in [Ticket -> TicketState]
    <2>1. tickets \in [Ticket -> TicketState]
      BY DEF MemoryOK, BookOK
    <2>2. Owned(UserOf[r]) \in TicketState
      BY RequestFacts DEF TicketState
    <2>3. tickets' = [s \in Ticket |-> tickets'[s]]
      BY DEF Sell
    <2>4. QED
      BY <1>1, <2>1, <2>2, <2>3
  <1>8. FromRequests(transactions')
    BY <1>3 DEF MemoryOK, BookOK, FromRequests
  <1>9. Whole(tickets', transactions')
    <2> SUFFICES ASSUME NEW t \in transactions', NEW s \in t.order
                 PROVE  /\ tickets'[s] = Owned(t.userId)
                        /\ \E v \in transactions' : /\ v.ticketId = s
                                                   /\ v.pgTransactionId = t.pgTransactionId
      BY DEF Whole
    <2>1. CASE t \in transactions
      <3>1. /\ tickets[s] = Owned(t.userId)
            /\ \E v \in transactions : v.ticketId = s /\ v.pgTransactionId = t.pgTransactionId
        BY <2>1 DEF MemoryOK, BookOK, Whole
      <3>2. s \notin TicketSet(r)
        BY <3>1, OwnedIsOwned DEF Clear
      <3>3. s \in Ticket
        <4>1. PICK q \in Request : OfOrder(t, q)
          BY <2>1 DEF MemoryOK, BookOK, FromRequests
        <4>2. QED
          BY <4>1, RequestFacts DEF OfOrder
      <3>4. QED
        BY <1>1, <1>5, <3>1, <3>2, <3>3
    <2>2. CASE OfOrder(t, r)
      <3>1. s \in TicketSet(r) /\ t.userId = UserOf[r] /\ t.pgTransactionId = PaymentOf[r]
        BY <2>2 DEF OfOrder
      <3>2. tickets'[s] = Owned(t.userId)
        BY <1>1, <3>1, RequestFacts
      <3>3. PICK i \in 1..Len(TicketIds[r]) : s = TicketIds[r][i]
        BY <1>6, <3>1
      <3>4. /\ Transaction(r, i).ticketId = s
            /\ Transaction(r, i).pgTransactionId = t.pgTransactionId
        BY <3>1, <3>3, TransactionFields DEF OfOrder
      <3>5. QED
        BY <1>4, <3>2, <3>4
    <2>3. QED
      BY <1>3, <2>1, <2>2
  <1>10. SoldOnce(tickets', transactions')
    <2> SUFFICES ASSUME NEW s \in Ticket
                 PROVE  LET sales == {t \in transactions' : t.ticketId = s}
                        IN IF tickets'[s].status = "OWNED"
                           THEN \E t \in sales : sales = {t} /\ tickets'[s].by = t.userId
                           ELSE sales = {}
      BY DEF SoldOnce
    <2> DEFINE before == {t \in transactions : t.ticketId = s}
               after == {t \in transactions' : t.ticketId = s}
    <2>1. IF tickets[s].status = "OWNED"
          THEN \E t \in before : before = {t} /\ tickets[s].by = t.userId
          ELSE before = {}
      BY DEF MemoryOK, BookOK, SoldOnce
    <2>2. CASE s \in TicketSet(r)
      <3>1. before = {}
        BY <2>1, <2>2 DEF Clear
      <3>2. PICK i \in 1..Len(TicketIds[r]) : s = TicketIds[r][i]
        BY <1>6, <2>2
      <3>3. \A j \in 1..Len(TicketIds[r]) : Transaction(r, j).ticketId = s => j = i
        BY <3>2, TransactionFields, RequestAssumption
      <3>4. after = {Transaction(r, i)}
        BY <1>2, <1>4, <3>1, <3>2, <3>3, TransactionFields
      <3>5. tickets'[s].status = "OWNED" /\ tickets'[s].by = Transaction(r, i).userId
        BY <1>1, <2>2, OwnedIsOwned, TransactionFields DEF OfOrder
      <3>6. QED
        BY <3>4, <3>5
    <2>3. CASE s \notin TicketSet(r)
      <3>1. after = before
        BY <1>3, <1>5, <2>3 DEF OfOrder
      <3>2. tickets'[s] = tickets[s]
        BY <1>1, <2>3
      <3>3. QED
        BY <2>1, <3>1, <3>2
    <2>4. QED
      BY <2>2, <2>3
  <1>11. OneOrderPerKey(transactions')
    <2>1. \A t \in transactions : ~(t.userId = UserOf[r] /\ t.key = KeyOf[r] /\ t.group = IsGroup(r))
      BY DEF Clear, UnderKey
    <2>2. QED
      BY <1>3, <2>1 DEF MemoryOK, BookOK, OneOrderPerKey, OfOrder
  <1>12. refunds' \subseteq Payment /\ Apart(transactions', refunds')
    BY <1>3, <1>5 DEF MemoryOK, BookOK, Apart, Clear, OfOrder
  <1>13. QED
    BY <1>7, <1>8, <1>9, <1>10, <1>11, <1>12 DEF MemoryOK, BookOK

(* Nothing is sold while the books are untouched but for unsold tickets. *)
LEMMA UnsoldStep ==
  ASSUME NEW s \in Ticket, MemoryOK, OthersChange(s)
  PROVE  MemoryOK'
  <1>1. PICK state \in UnsoldState : tickets' = [tickets EXCEPT ![s] = state]
    BY DEF OthersChange
  <1>2. state \in TicketState /\ state.status # "OWNED"
    BY DEF UnsoldState, TicketState, OnSale, Unavailable, Claimed
  <1>3. tickets \in [Ticket -> TicketState] /\ tickets[s].status # "OWNED"
    BY DEF MemoryOK, BookOK, OthersChange
  <1>4. UNCHANGED <<transactions, refunds>>
    BY DEF OthersChange
  <1>5. \A x \in Ticket : tickets'[x] = IF x = s THEN state ELSE tickets[x]
    BY <1>1, <1>3
  <1>6. tickets' \in [Ticket -> TicketState]
    BY <1>1, <1>2, <1>3
  <1>7. Whole(tickets', transactions')
    <2> SUFFICES ASSUME NEW t \in transactions, NEW x \in t.order
                 PROVE  /\ tickets'[x] = Owned(t.userId)
                        /\ \E v \in transactions : /\ v.ticketId = x
                                                  /\ v.pgTransactionId = t.pgTransactionId
      BY <1>4 DEF Whole
    <2>1. /\ tickets[x] = Owned(t.userId)
          /\ \E v \in transactions : v.ticketId = x /\ v.pgTransactionId = t.pgTransactionId
      BY DEF MemoryOK, BookOK, Whole
    <2>2. x # s
      BY <1>3, <2>1, OwnedIsOwned
    <2>3. PICK q \in Request : OfOrder(t, q)
      BY DEF MemoryOK, BookOK, FromRequests
    <2>4. x \in Ticket
      BY <2>3, RequestFacts DEF OfOrder
    <2>5. QED
      BY <1>5, <2>1, <2>2, <2>4
  <1>8. SoldOnce(tickets', transactions')
    <2> SUFFICES ASSUME NEW x \in Ticket
                 PROVE  LET sales == {t \in transactions : t.ticketId = x}
                        IN IF tickets'[x].status = "OWNED"
                           THEN \E t \in sales : sales = {t} /\ tickets'[x].by = t.userId
                           ELSE sales = {}
      BY <1>4 DEF SoldOnce
    <2>1. LET sales == {t \in transactions : t.ticketId = x}
          IN IF tickets[x].status = "OWNED"
             THEN \E t \in sales : sales = {t} /\ tickets[x].by = t.userId
             ELSE sales = {}
      BY DEF MemoryOK, BookOK, SoldOnce
    <2>2. CASE x = s
      BY <1>2, <1>3, <1>5, <2>1, <2>2
    <2>3. CASE x # s
      BY <1>5, <2>1, <2>3
    <2>4. QED
      BY <2>2, <2>3
  <1>9. /\ FromRequests(transactions') /\ OneOrderPerKey(transactions')
        /\ refunds' \subseteq Payment /\ Apart(transactions', refunds')
    BY <1>4 DEF MemoryOK, BookOK
  <1>10. QED
    BY <1>6, <1>7, <1>8, <1>9 DEF MemoryOK, BookOK

-----------------------------------------------------------------------------
(* Phases and saves *)

(* An earlier answer stays true while the books of a key only grow. *)
LEMMA ReplaysGrow ==
  ASSUME NEW r \in Request, NEW T, NEW U, T \subseteq U, Replays(T, r), OneOrderPerKey(U)
  PROVE  Replays(U, r)
  BY DEF Replays, UnderKey, OneOrderPerKey

(* A step of one request that leaves the books alone. *)
LEMMA PhaseStep ==
  ASSUME IInv, NEW r \in Request, NEW to \in {"confirming", "refused", "mismatched", "cutOff", "bought"},
         phase[r] \in {"new", "confirming", "captured", "bought", "owed"},
         phase[r] \in {"bought", "owed"} => to = "cutOff",
         to = "bought" => Replays(transactions, r),
         phase' = [phase EXCEPT ![r] = to],
         UNCHANGED <<tickets, transactions, refunds, disk, captured>>
  PROVE  IInv'
  <1>1. /\ phase \in [Request -> Phase] /\ phase' \in [Request -> Phase]
        /\ \A q \in Request : phase'[q] = IF q = r THEN to ELSE phase[q]
    BY DEF IInv, Phase
  <1>2. MemoryOK' /\ DiskOK' /\ DiskBehind' /\ DOMAIN captured' = Payment
    BY DEF IInv, MemoryOK, DiskOK, DiskBehind
  <1>3. CapturedFirst'
    BY <1>1 DEF IInv, CapturedFirst
  <1>4. OneCapture'
    BY <1>1 DEF IInv, OneCapture
  <1>5. UnsavedIsAwaited'
    BY <1>1 DEF IInv, UnsavedIsAwaited
  <1>6. AnswersHold'
    BY <1>1 DEF IInv, AnswersHold
  <1>7. QED
    BY <1>1, <1>2, <1>3, <1>4, <1>5, <1>6 DEF IInv

(* Memory, which may have changed on the way, is on disk after the step. *)
LEMMA SaveStep ==
  ASSUME IInv, MemoryOK', phase' \in [Request -> Phase],
         UNCHANGED <<transactions, refunds, captured>>,
         disk'.tickets = tickets', disk'.transactions = transactions, disk'.refunds = refunds,
         \A r \in Request :
           \/ phase'[r] = phase[r]
           \/ phase[r] = "bought" /\ phase'[r] = "paid"
           \/ phase[r] = "owed" /\ phase'[r] = "refundDue"
  PROVE  IInv'
  <1>1. DiskOK' /\ DiskBehind' /\ DOMAIN captured' = Payment
    BY DEF IInv, MemoryOK, DiskOK, DiskBehind
  <1>2. CapturedFirst'
    BY DEF IInv, CapturedFirst
  <1>3. OneCapture'
    BY DEF IInv, OneCapture
  <1>4. UnsavedIsAwaited'
    BY DEF UnsavedIsAwaited
  <1>5. AnswersHold'
    <2> SUFFICES ASSUME NEW r \in Request
                 PROVE  /\ phase'[r] = "bought" => Replays(transactions, r)
                        /\ phase'[r] = "owed" => PaymentOf[r] \in refunds
                        /\ phase'[r] = "paid" => Replays(transactions, r)
                        /\ phase'[r] = "refundDue" => PaymentOf[r] \in refunds
      BY DEF AnswersHold
    <2>1. /\ phase[r] = "bought" => Replays(transactions, r)
          /\ phase[r] = "owed" => PaymentOf[r] \in refunds
          /\ phase[r] = "paid" => Replays(disk.transactions, r)
          /\ phase[r] = "refundDue" => PaymentOf[r] \in disk.refunds
      BY DEF IInv, AnswersHold
    <2>2. Replays(disk.transactions, r) => Replays(transactions, r)
      BY ReplaysGrow DEF IInv, DiskBehind, MemoryOK, BookOK
    <2>3. disk.refunds \subseteq refunds
      BY DEF IInv, DiskBehind
    <2>4. QED
      BY <2>1, <2>2, <2>3
  <1>6. QED
    BY <1>1, <1>2, <1>3, <1>4, <1>5 DEF IInv

(* Capturing: nobody knew this payment. *)
LEMMA CaptureStep ==
  ASSUME IInv, NEW r \in Request, ProviderCaptures(r)
  PROVE  IInv'
  <1> DEFINE p == PaymentOf[r]
  <1>1. /\ phase \in [Request -> Phase] /\ phase' \in [Request -> Phase]
        /\ phase[r] = "confirming" /\ phase'[r] = "captured"
        /\ \A q \in Request : q # r => phase'[q] = phase[q]
    BY DEF IInv, Phase, ProviderCaptures
  <1>2. UNCHANGED <<tickets, transactions, refunds, disk>>
    BY DEF ProviderCaptures, db
  <1>3. p \in Payment /\ captured[p] = 0 /\ DOMAIN captured = Payment
    BY RequestFacts DEF IInv, ProviderCaptures
  <1>4. PICK amount : amount # 0 /\ captured' = [captured EXCEPT ![p] = amount]
    BY DEF ProviderCaptures
  <1>5. /\ DOMAIN captured' = Payment /\ captured'[p] # 0
        /\ \A x \in Payment : captured[x] # 0 => captured'[x] # 0
    BY <1>3, <1>4
  <1>6. \A t \in transactions : t.pgTransactionId \in Payment
    BY RequestFacts DEF IInv, MemoryOK, BookOK, FromRequests, OfOrder
  <1>7. refunds \subseteq Payment /\ \A q \in Request : PaymentOf[q] \in Payment
    BY RequestFacts DEF IInv, MemoryOK, BookOK
  <1>8. MemoryOK' /\ DiskOK' /\ DiskBehind'
    BY <1>2 DEF IInv, MemoryOK, DiskOK, DiskBehind
  <1>9. CapturedFirst'
    BY <1>1, <1>2, <1>5, <1>6, <1>7 DEF IInv, CapturedFirst
  <1>10. OneCapture'
    BY <1>1, <1>2, <1>3 DEF IInv, OneCapture, CapturedFirst
  <1>11. UnsavedIsAwaited'
    <2>1. /\ \A t \in transactions : t \in disk.transactions \/
               \E q \in Request : PaymentOf[q] = t.pgTransactionId /\ phase[q] \in {"bought", "cutOff"}
          /\ \A x \in refunds : x \in disk.refunds \/
               \E q \in Request : PaymentOf[q] = x /\ phase[q] \in {"owed", "cutOff"}
      BY DEF IInv, UnsavedIsAwaited
    <2>2. \A q \in Request : phase[q] \in {"bought", "owed", "cutOff"} => phase'[q] = phase[q]
      BY <1>1
    <2>3. QED
      BY <1>2, <2>1, <2>2 DEF UnsavedIsAwaited
  <1>12. AnswersHold'
    BY <1>1, <1>2 DEF IInv, AnswersHold
  <1>13. QED
    BY <1>1, <1>5, <1>8, <1>9, <1>10, <1>11, <1>12 DEF IInv

(* What holds of a request that may sell: the books are clear of it. *)
LEMMA SaleIsClear ==
  ASSUME IInv, NEW r \in Request, phase[r] = "captured",
         ~Replays(transactions, r), MaySell(r)
  PROVE  Clear(r)
  <1>1. UnderKey(transactions, r) = {}
    BY DEF Replays, MaySell, Conflicts
  <1>2. \A s \in TicketSet(r) : tickets[s].status # "OWNED"
    BY PurchasableIsUnsold DEF MaySell
  <1>3. PaymentOf[r] \notin refunds
    BY DEF IInv, OneCapture
  <1>4. QED
    BY <1>1, <1>2, <1>3 DEF Clear

LEMMA AllocateSale ==
  ASSUME IInv, NEW r \in Request, phase[r] = "captured",
         ~Replays(transactions, r), MaySell(r), Sell(r),
         phase' = [phase EXCEPT ![r] = "bought"], UNCHANGED <<disk, captured>>
  PROVE  IInv'
  <1>1. /\ phase \in [Request -> Phase] /\ phase' \in [Request -> Phase]
        /\ phase'[r] = "bought" /\ \A q \in Request : q # r => phase'[q] = phase[q]
    BY DEF IInv, Phase
  <1>2. MemoryOK'
    BY SaleIsClear, SellStep DEF IInv
  <1>3. \A t \in transactions' : t \in transactions \/ OfOrder(t, r)
    BY TransactionFields DEF Sell, Sold
  <1>4. transactions \subseteq transactions' /\ refunds' = refunds
    BY DEF Sell
  <1>5. DiskOK' /\ DiskBehind' /\ DOMAIN captured' = Payment
    BY <1>4 DEF IInv, DiskOK, DiskBehind
  <1>6. CapturedFirst'
    BY <1>1, <1>3, <1>4 DEF IInv, CapturedFirst, OfOrder
  <1>7. OneCapture'
    <2> SUFFICES ASSUME NEW q \in Request, phase'[q] = "captured"
                 PROVE  /\ PaymentOf[q] \notin refunds'
                        /\ \A t \in transactions' : t.pgTransactionId # PaymentOf[q]
                        /\ \A x \in Request : x # q /\ PaymentOf[x] = PaymentOf[q] =>
                             phase'[x] # "captured"
      BY DEF OneCapture
    <2>1. q # r /\ phase[q] = "captured"
      BY <1>1
    <2>2. PaymentOf[q] # PaymentOf[r]
      BY <2>1 DEF IInv, OneCapture
    <2>3. QED
      BY <1>1, <1>3, <1>4, <2>1, <2>2 DEF IInv, OneCapture, OfOrder
  <1>8. UnsavedIsAwaited'
    BY <1>1, <1>3, <1>4 DEF IInv, UnsavedIsAwaited, OfOrder
  <1>9. AnswersHold'
    <2>1. OneOrderPerKey(transactions')
      BY <1>2 DEF MemoryOK, BookOK
    <2>2. \A q \in Request : Replays(transactions, q) => Replays(transactions', q)
      BY <1>4, <2>1, ReplaysGrow
    <2>3. Replays(transactions', r)
      <3>1. 1 \in 1..Len(TicketIds[r])
        BY RequestFacts
      <3>2. Transaction(r, 1) \in UnderKey(transactions', r)
        BY <3>1, TransactionFields DEF Sell, Sold, UnderKey, OfOrder
      <3>3. \A t \in UnderKey(transactions', r) : t.order = TicketSet(r)
        BY <3>1, <3>2, <2>1, TransactionFields DEF UnderKey, OneOrderPerKey, OfOrder
      <3>4. QED
        BY <3>2, <3>3 DEF Replays
    <2>4. QED
      BY <1>1, <1>4, <2>2, <2>3 DEF IInv, AnswersHold
  <1>10. QED
    BY <1>1, <1>2, <1>5, <1>6, <1>7, <1>8, <1>9 DEF IInv

LEMMA AllocateRefund ==
  ASSUME IInv, NEW r \in Request, phase[r] = "captured", NeedsRefund(r),
         phase' = [phase EXCEPT ![r] = "owed"], UNCHANGED <<disk, captured>>
  PROVE  IInv'
  <1>1. /\ phase \in [Request -> Phase] /\ phase' \in [Request -> Phase]
        /\ phase'[r] = "owed" /\ \A q \in Request : q # r => phase'[q] = phase[q]
    BY DEF IInv, Phase
  <1>2. /\ refunds' = refunds \union {PaymentOf[r]}
        /\ UNCHANGED <<tickets, transactions>>
    BY DEF NeedsRefund
  <1>3. MemoryOK'
    <2>1. refunds' \subseteq Payment
      BY <1>2, RequestFacts DEF IInv, MemoryOK, BookOK
    <2>2. Apart(transactions', refunds')
      BY <1>2 DEF IInv, MemoryOK, BookOK, Apart, OneCapture
    <2>3. QED
      BY <1>2, <2>1, <2>2 DEF IInv, MemoryOK, BookOK
  <1>4. DiskOK' /\ DiskBehind' /\ DOMAIN captured' = Payment
    BY <1>2 DEF IInv, DiskOK, DiskBehind
  <1>5. CapturedFirst'
    BY <1>1, <1>2 DEF IInv, CapturedFirst
  <1>6. OneCapture'
    BY <1>1, <1>2 DEF IInv, OneCapture
  <1>7. UnsavedIsAwaited'
    BY <1>1, <1>2 DEF IInv, UnsavedIsAwaited
  <1>8. AnswersHold'
    BY <1>1, <1>2 DEF IInv, AnswersHold
  <1>9. QED
    BY <1>1, <1>3, <1>4, <1>5, <1>6, <1>7, <1>8 DEF IInv

(* A restart takes memory back to the disk; who waited is cut off. *)
LEMMA RestartStep ==
  ASSUME IInv, Restart
  PROVE  IInv'
  <1>1. /\ tickets' = disk.tickets /\ transactions' = disk.transactions
        /\ refunds' = disk.refunds /\ disk' = disk /\ captured' = captured
    BY DEF Restart
  <1>2. \A r \in Request :
          phase'[r] = IF phase[r] \in Answered THEN phase[r] ELSE "cutOff"
    BY DEF Restart
  <1>3. phase' \in [Request -> Phase]
    BY DEF IInv, Restart, Phase
  <1>4. MemoryOK' /\ DiskOK' /\ DiskBehind' /\ DOMAIN captured' = Payment
    BY <1>1 DEF IInv, MemoryOK, DiskOK, DiskBehind
  <1>5. \A r \in Request : phase'[r] \notin {"captured", "bought", "owed"}
    BY <1>2 DEF Answered
  <1>6. CapturedFirst'
    BY <1>1, <1>5 DEF IInv, CapturedFirst, DiskBehind
  <1>7. OneCapture'
    BY <1>5 DEF OneCapture
  <1>8. UnsavedIsAwaited'
    BY <1>1 DEF UnsavedIsAwaited
  <1>9. AnswersHold'
    BY <1>1, <1>2, <1>5 DEF IInv, AnswersHold
  <1>10. QED
    BY <1>3, <1>4, <1>6, <1>7, <1>8, <1>9 DEF IInv

-----------------------------------------------------------------------------
(* The invariant *)

LEMMA InitIInv == Init => IInv
  <1> SUFFICES ASSUME Init PROVE IInv
    OBVIOUS
  <1>1. /\ tickets = [s \in Ticket |-> OnSale] /\ transactions = {} /\ refunds = {}
        /\ disk = Snapshot
    BY DEF Init
  <1>2. BookOK(tickets, {}, {})
    BY <1>1 DEF BookOK, FromRequests, Whole, SoldOnce, OneOrderPerKey, Apart,
                TicketState, UnsoldState, OnSale
  <1>3. MemoryOK /\ DiskOK /\ DiskBehind
    BY <1>1, <1>2 DEF MemoryOK, DiskOK, DiskBehind, Snapshot
  <1>4. /\ phase \in [Request -> Phase] /\ DOMAIN captured = Payment
        /\ \A r \in Request : phase[r] = "new"
    BY DEF Init, Phase
  <1>5. CapturedFirst /\ OneCapture /\ UnsavedIsAwaited /\ AnswersHold
    BY <1>1, <1>4 DEF CapturedFirst, OneCapture, UnsavedIsAwaited, AnswersHold
  <1>6. QED
    BY <1>3, <1>4, <1>5 DEF IInv

LEMMA NextIInv == IInv /\ [Next]_vars => IInv'
  <1> SUFFICES ASSUME IInv, [Next]_vars PROVE IInv'
    OBVIOUS
  <1>1. ASSUME NEW r \in Request, Begin(r) PROVE IInv'
    <2>1. CASE Replays(transactions, r) /\ UserOf[r] \in Verified
      BY <1>1, <2>1, PhaseStep DEF Begin, db
    <2>2. CASE Refuse(r)
      BY <1>1, <2>2, PhaseStep DEF Begin, Refuse, db
    <2>3. CASE AskProvider(r)
      BY <1>1, <2>3, PhaseStep DEF Begin, AskProvider, db
    <2>4. QED
      BY <1>1, <2>1, <2>2, <2>3 DEF Begin
  <1>2. ASSUME NEW r \in Request, ProviderCaptures(r) PROVE IInv'
    BY <1>2, CaptureStep
  <1>3. ASSUME NEW r \in Request, ProviderDeclines(r) PROVE IInv'
    BY <1>3, PhaseStep DEF ProviderDeclines, Refuse, db
  <1>4. ASSUME NEW r \in Request, AnswerLost(r) PROVE IInv'
    BY <1>4, PhaseStep DEF AnswerLost, db
  <1>5. ASSUME NEW r \in Request, Mismatch(r) PROVE IInv'
    BY <1>5, PhaseStep DEF Mismatch, db
  <1>6. ASSUME NEW r \in Request, Allocate(r) PROVE IInv'
    <2>1. phase[r] = "captured" /\ UNCHANGED <<disk, captured>>
      BY <1>6 DEF Allocate
    <2>2. CASE /\ Replays(transactions, r)
               /\ UNCHANGED <<tickets, transactions, refunds>>
               /\ phase' = [phase EXCEPT ![r] = "bought"]
      BY <2>1, <2>2, PhaseStep
    <2>3. CASE /\ ~Replays(transactions, r) /\ MaySell(r) /\ Sell(r)
               /\ phase' = [phase EXCEPT ![r] = "bought"]
      BY <2>1, <2>3, AllocateSale
    <2>4. CASE NeedsRefund(r) /\ phase' = [phase EXCEPT ![r] = "owed"]
      BY <2>1, <2>4, AllocateRefund
    <2>5. QED
      BY <1>6, <2>2, <2>3, <2>4 DEF Allocate
  <1>7. ASSUME NEW r \in Request, Reply(r) PROVE IInv'
    <2>1. phase' \in [Request -> Phase]
      BY <1>7 DEF IInv, Reply, Phase
    <2>2. \A q \in Request : \/ phase'[q] = phase[q]
                             \/ phase[q] = "bought" /\ phase'[q] = "paid"
                             \/ phase[q] = "owed" /\ phase'[q] = "refundDue"
      BY <1>7 DEF IInv, Reply
    <2>3. MemoryOK' /\ UNCHANGED <<transactions, refunds, captured>>
      BY <1>7 DEF IInv, Reply, MemoryOK, db
    <2>4. /\ disk'.tickets = tickets' /\ disk'.transactions = transactions
          /\ disk'.refunds = refunds
      BY <1>7 DEF Reply, Snapshot, db
    <2>5. QED
      BY <2>1, <2>2, <2>3, <2>4, SaveStep
  <1>8. ASSUME NEW r \in Request, SaveFails(r) PROVE IInv'
    BY <1>8, PhaseStep DEF SaveFails, db
  <1>9. ASSUME NEW s \in Ticket, OthersChange(s) PROVE IInv'
    <2>1. MemoryOK'
      BY <1>9, UnsoldStep DEF IInv
    <2>2. /\ disk'.tickets = tickets' /\ disk'.transactions = transactions
          /\ disk'.refunds = refunds /\ UNCHANGED <<transactions, refunds, phase, captured>>
      BY <1>9 DEF OthersChange, Snapshot
    <2>3. phase' \in [Request -> Phase]
      BY <2>2 DEF IInv
    <2>4. QED
      BY <2>1, <2>2, <2>3, SaveStep
  <1>10. ASSUME NEW z \in Zone, NEW price \in Prices, Reprice(z, price) PROVE IInv'
    <2>1. /\ UNCHANGED <<tickets, transactions, refunds, phase, captured>>
          /\ disk'.tickets = tickets' /\ disk'.transactions = transactions
          /\ disk'.refunds = refunds
      BY <1>10 DEF Reprice, Snapshot
    <2>2. MemoryOK' /\ phase' \in [Request -> Phase]
      BY <2>1 DEF IInv, MemoryOK
    <2>3. QED
      BY <2>1, <2>2, SaveStep
  <1>11. CASE OthersSave
    <2>1. /\ UNCHANGED <<tickets, transactions, refunds, phase, captured>>
          /\ disk'.tickets = tickets' /\ disk'.transactions = transactions
          /\ disk'.refunds = refunds
      BY <1>11 DEF OthersSave, Snapshot, db
    <2>2. MemoryOK' /\ phase' \in [Request -> Phase]
      BY <2>1 DEF IInv, MemoryOK
    <2>3. QED
      BY <2>1, <2>2, SaveStep
  <1>12. CASE Restart
    BY <1>12, RestartStep
  <1>13. CASE UNCHANGED vars
    BY <1>13 DEF vars, db, IInv, MemoryOK, DiskOK, DiskBehind, CapturedFirst,
                 OneCapture, UnsavedIsAwaited, AnswersHold
  <1>14. QED
    BY <1>1, <1>2, <1>3, <1>4, <1>5, <1>6, <1>7, <1>8, <1>9, <1>10, <1>11, <1>12, <1>13
       DEF Next

(* The books are consistent, in memory and on disk, at every moment. *)
THEOREM SpecIInv == Spec => []IInv
  BY InitIInv, NextIInv, PTL DEF Spec

(* Nobody gets the seats and the money back: no payment has both a         *)
(* transaction of buyPrimary and a refund entry of the catch block.        *)
THEOREM SpecRefundOrSeats == Spec => []RefundOrSeats
  <1>1. IInv => RefundOrSeats
    BY DEF IInv, MemoryOK, BookOK, Apart, RefundOrSeats, PaidWith
  <1>2. QED
    BY <1>1, SpecIInv, PTL

(* A payment bought all tickets of its order, for the user who paid, or    *)
(* none: buyPrimaryGroup checks all of them before it sells the first.     *)
THEOREM SpecOrdersAreWhole == Spec => []OrdersAreWhole
  <1>1. ASSUME IInv, NEW r \in Request, PaidWith(PaymentOf[r]) # {}
        PROVE  /\ {t.ticketId : t \in PaidWith(PaymentOf[r])} = TicketSet(r)
               /\ \A t \in PaidWith(PaymentOf[r]) :
                    t.userId = UserOf[r] /\ tickets[t.ticketId] = Owned(t.userId)
    <2>1. /\ FromRequests(transactions) /\ Whole(tickets, transactions)
      BY <1>1 DEF IInv, MemoryOK, BookOK
    <2>2. ASSUME NEW t \in PaidWith(PaymentOf[r])
          PROVE  /\ t \in transactions /\ t.pgTransactionId = PaymentOf[r]
                 /\ t.order = TicketSet(r) /\ t.ticketId \in t.order /\ t.userId = UserOf[r]
      <3>1. t \in transactions /\ t.pgTransactionId = PaymentOf[r]
        BY DEF PaidWith
      <3>2. PICK q \in Request : OfOrder(t, q)
        BY <2>1, <3>1 DEF FromRequests
      <3>3. PaymentOf[q] = PaymentOf[r]
        BY <3>1, <3>2 DEF OfOrder
      <3>4. TicketSet(q) = TicketSet(r) /\ UserOf[q] = UserOf[r]
        BY <3>3, SamePayment
      <3>5. QED
        BY <3>1, <3>2, <3>4 DEF OfOrder
    <2>3. \A t \in PaidWith(PaymentOf[r]) : tickets[t.ticketId] = Owned(t.userId)
      BY <2>1, <2>2 DEF Whole
    <2>4. \A s \in TicketSet(r) : \E v \in PaidWith(PaymentOf[r]) : v.ticketId = s
      BY <1>1, <2>1, <2>2 DEF Whole, PaidWith
    <2>5. QED
      BY <2>2, <2>3, <2>4
  <1>2. IInv => OrdersAreWhole
    BY <1>1 DEF OrdersAreWhole
  <1>3. QED
    BY <1>2, SpecIInv, PTL

(* No ticket is sold twice, however many requests for it wait on the       *)
(* provider at the same time.                                              *)
THEOREM SpecOneBuyerPerTicket == Spec => []OneBuyerPerTicket
  <1>1. IInv => OneBuyerPerTicket
    BY DEF IInv, MemoryOK, BookOK, SoldOnce, OneBuyerPerTicket
  <1>2. QED
    BY <1>1, SpecIInv, PTL

(* An answer that was sent after the save outlives every restart. *)
THEOREM SpecAnswersAreKept == Spec => []AnswersAreKept
  <1>1. ASSUME IInv, NEW r \in Request
        PROVE  /\ phase[r] = "paid" =>
                    /\ Replays(transactions, r) /\ Replays(disk.transactions, r)
                    /\ \A s \in TicketSet(r) : disk.tickets[s] = Owned(UserOf[r])
               /\ phase[r] = "refundDue" =>
                    PaymentOf[r] \in refunds /\ PaymentOf[r] \in disk.refunds
    <2>1. CASE phase[r] = "paid"
      <3>1. Replays(disk.transactions, r)
        BY <1>1, <2>1 DEF IInv, AnswersHold
      <3>2. Replays(transactions, r)
        BY <1>1, <3>1, ReplaysGrow DEF IInv, DiskBehind, MemoryOK, BookOK
      <3>3. PICK t \in disk.transactions : t.userId = UserOf[r] /\ t.order = TicketSet(r)
        BY <3>1 DEF Replays, UnderKey
      <3>4. \A s \in TicketSet(r) : disk.tickets[s] = Owned(UserOf[r])
        BY <1>1, <3>3 DEF IInv, DiskOK, BookOK, Whole
      <3>5. QED
        BY <2>1, <3>1, <3>2, <3>4
    <2>2. CASE phase[r] = "refundDue"
      BY <1>1, <2>2 DEF IInv, AnswersHold, DiskBehind
    <2>3. QED
      BY <2>1, <2>2
  <1>2. IInv => AnswersAreKept
    BY <1>1 DEF AnswersAreKept
  <1>3. QED
    BY <1>2, SpecIInv, PTL

(* A key buys once: findIdempotentPurchase and buyPrimary agree on what a  *)
(* key was used for.                                                       *)
THEOREM SpecOnePurchasePerKey == Spec => []OnePurchasePerKey
  <1>1. IInv => OnePurchasePerKey
    BY DEF IInv, MemoryOK, BookOK, OneOrderPerKey, OnePurchasePerKey
  <1>2. QED
    BY <1>1, SpecIInv, PTL

-----------------------------------------------------------------------------
(* No payment is forgotten, provided that a retry names the same payment.  *)
(* Without that, a retry that paid again is answered with the purchase of  *)
(* the first payment, and the second is recorded nowhere.                  *)

KeyNamesPayment ==
  \A r, q \in Request :
    UserOf[r] = UserOf[q] /\ KeyOf[r] = KeyOf[q] /\ TicketSet(r) = TicketSet(q)
      => PaymentOf[r] = PaymentOf[q]

(* CapturedIsAccounted without the arithmetic. *)
Accounted(p) ==
  \/ \E t \in transactions : t.pgTransactionId = p
  \/ p \in refunds
  \/ \E r \in Request : PaymentOf[r] = p /\ phase[r] \in {"captured", "cutOff", "mismatched"}

AllAccounted == \A p \in Payment : captured[p] # 0 => Accounted(p)

(* The replay of a captured request answers with its own purchase. *)
LEMMA ReplayIsPaid ==
  ASSUME KeyNamesPayment, IInv, NEW r \in Request, Replays(transactions, r)
  PROVE  \E t \in transactions : t.pgTransactionId = PaymentOf[r]
  <1>1. PICK t \in transactions :
          t.userId = UserOf[r] /\ t.key = KeyOf[r] /\ t.order = TicketSet(r)
    BY DEF Replays, UnderKey
  <1>2. PICK q \in Request : OfOrder(t, q)
    BY DEF IInv, MemoryOK, BookOK, FromRequests
  <1>3. PaymentOf[q] = PaymentOf[r]
    BY <1>1, <1>2 DEF KeyNamesPayment, OfOrder
  <1>4. QED
    BY <1>2, <1>3 DEF OfOrder

(* A step that forgets nothing: records stay, and a request that stands    *)
(* for its payment keeps doing so or leaves a record.                      *)
LEMMA AccountedStep ==
  ASSUME AllAccounted, UNCHANGED captured,
         transactions \subseteq transactions', refunds \subseteq refunds',
         \A r \in Request : phase[r] \in {"captured", "cutOff", "mismatched"} =>
           \/ phase'[r] \in {"captured", "cutOff", "mismatched"}
           \/ \E t \in transactions' : t.pgTransactionId = PaymentOf[r]
           \/ PaymentOf[r] \in refunds'
  PROVE  AllAccounted'
  BY DEF AllAccounted, Accounted

LEMMA AccountedNext ==
  ASSUME KeyNamesPayment
  PROVE  IInv /\ AllAccounted /\ [Next]_vars => AllAccounted'
  <1> SUFFICES ASSUME IInv, AllAccounted, [Next]_vars PROVE AllAccounted'
    OBVIOUS
  <1> USE DEF db
  <1>0. phase \in [Request -> Phase] /\ DOMAIN captured = Payment
    BY DEF IInv
  <1>1. ASSUME NEW r \in Request,
               \/ Begin(r) \/ ProviderDeclines(r) \/ AnswerLost(r)
               \/ Mismatch(r) \/ Reply(r) \/ SaveFails(r)
        PROVE  AllAccounted'
    <2>1. UNCHANGED <<transactions, refunds, captured>>
      BY <1>1 DEF Begin, Refuse, AskProvider, ProviderDeclines, AnswerLost, Mismatch,
                  Reply, SaveFails
    <2>2. \A q \in Request : phase[q] \in {"captured", "cutOff", "mismatched"} =>
            phase'[q] \in {"captured", "cutOff", "mismatched"}
      BY <1>0, <1>1 DEF Begin, Refuse, AskProvider, ProviderDeclines, AnswerLost, Mismatch,
                        Reply, SaveFails
    <2>3. QED
      BY <2>1, <2>2, AccountedStep
  <1>2. ASSUME NEW r \in Request, ProviderCaptures(r) PROVE AllAccounted'
    <2>1. /\ UNCHANGED <<transactions, refunds>>
          /\ phase'[r] = "captured" /\ phase[r] = "confirming"
          /\ \A q \in Request : q # r => phase'[q] = phase[q]
      BY <1>0, <1>2 DEF ProviderCaptures
    <2>2. \A p \in Payment : p # PaymentOf[r] => captured'[p] = captured[p]
      BY <1>0, <1>2 DEF ProviderCaptures
    <2>3. QED
      BY <2>1, <2>2 DEF AllAccounted, Accounted
  <1>3. ASSUME NEW r \in Request, Allocate(r) PROVE AllAccounted'
    <2>1. /\ UNCHANGED captured /\ transactions \subseteq transactions' /\ refunds \subseteq refunds'
      BY <1>3 DEF Allocate, Sell, NeedsRefund
    <2>2. \A q \in Request : q # r => phase'[q] = phase[q]
      BY <1>0, <1>3 DEF Allocate
    <2>3. \/ \E t \in transactions' : t.pgTransactionId = PaymentOf[r]
          \/ PaymentOf[r] \in refunds'
      <3>1. CASE Replays(transactions, r) /\ UNCHANGED transactions
        BY <3>1, ReplayIsPaid
      <3>2. CASE Sell(r)
        <4>1. 1 \in 1..Len(TicketIds[r])
          BY RequestFacts
        <4>2. Transaction(r, 1) \in transactions'
          BY <3>2, <4>1 DEF Sell, Sold
        <4>3. QED
          BY <4>1, <4>2, TransactionFields DEF OfOrder
      <3>3. CASE NeedsRefund(r)
        BY <3>3 DEF NeedsRefund
      <3>4. QED
        BY <1>3, <3>1, <3>2, <3>3 DEF Allocate
    <2>4. QED
      BY <2>1, <2>2, <2>3, AccountedStep
  <1>4. ASSUME NEW s \in Ticket, OthersChange(s) PROVE AllAccounted'
    BY <1>4, AccountedStep DEF OthersChange
  <1>5. ASSUME NEW z \in Zone, NEW price \in Prices, Reprice(z, price) PROVE AllAccounted'
    BY <1>5, AccountedStep DEF Reprice
  <1>6. CASE OthersSave
    BY <1>6, AccountedStep DEF OthersSave
  <1>7. CASE Restart
    <2>1. /\ transactions' = disk.transactions /\ refunds' = disk.refunds
          /\ UNCHANGED captured
      BY <1>7 DEF Restart
    <2>2. \A r \in Request : phase[r] \in {"captured", "cutOff", "mismatched", "bought", "owed"} =>
            phase'[r] \in {"captured", "cutOff", "mismatched"}
      BY <1>7 DEF Restart, Answered
    <2>3. ASSUME NEW t \in transactions
          PROVE  \/ t \in disk.transactions
                 \/ \E r \in Request : /\ PaymentOf[r] = t.pgTransactionId
                                       /\ phase'[r] \in {"captured", "cutOff", "mismatched"}
      BY <2>2 DEF IInv, UnsavedIsAwaited
    <2>4. ASSUME NEW p \in refunds
          PROVE  \/ p \in disk.refunds
                 \/ \E r \in Request : /\ PaymentOf[r] = p
                                       /\ phase'[r] \in {"captured", "cutOff", "mismatched"}
      BY <2>2 DEF IInv, UnsavedIsAwaited
    <2>5. QED
      BY <2>1, <2>2, <2>3, <2>4 DEF AllAccounted, Accounted
  <1>8. CASE UNCHANGED vars
    BY <1>8, AccountedStep DEF vars
  <1>9. QED
    BY <1>1, <1>2, <1>3, <1>4, <1>5, <1>6, <1>7, <1>8 DEF Next

(* No captured payment is forgotten, if no second payment is ever made     *)
(* under a key: the catch block and the sale between them cover every way  *)
(* a request with a captured payment can end.                              *)
THEOREM SpecCapturedIsAccounted ==
  ASSUME KeyNamesPayment
  PROVE  Spec => []CapturedIsAccounted
  <1>1. Init => AllAccounted
    BY DEF Init, AllAccounted
  <1>2. IInv /\ AllAccounted /\ [Next]_vars => AllAccounted'
    BY AccountedNext
  <1>3. AllAccounted => CapturedIsAccounted
    BY DEF AllAccounted, Accounted, CapturedIsAccounted, PaidWith
  <1>4. QED
    BY <1>1, <1>2, <1>3, SpecIInv, PTL DEF Spec

-----------------------------------------------------------------------------
(* Amounts.  What buyPrimaryGroup records for the tickets of an order is,  *)
(* all together, what the provider was asked for.                          *)

LEMMA OrderFacts ==
  ASSUME NEW r \in Request
  PROVE  /\ \A i, j \in Sold(r) : TicketIds[r][i] = TicketIds[r][j] => i = j
         /\ IsFiniteSet(Sold(r)) /\ Cardinality(Sold(r)) = Len(TicketIds[r])
         /\ TicketSet(r) = {TicketIds[r][i] : i \in Sold(r)}
  <1>1. Len(TicketIds[r]) \in Nat /\ Len(TicketIds[r]) >= 1
    BY RequestFacts
  <1>2. IsFiniteSet(1..Len(TicketIds[r])) /\ Cardinality(1..Len(TicketIds[r])) = Len(TicketIds[r])
    BY SMTT(60), <1>1, FS_Interval
  <1>3. QED
    BY <1>2, RequestAssumption DEF Sold, TicketSet

LEMMA FaceValues ==
  ASSUME NEW r \in Request, faceValue \in [Ticket -> Prices]
  PROVE  /\ \A s \in TicketSet(r) : faceValue[s] \in Nat
         /\ IsFiniteSet(TicketSet(r))
         /\ Total(faceValue, TicketSet(r)) \in Nat
         /\ Total(faceValue, TicketSet(r)) =
              Total([i \in Sold(r) |-> faceValue[TicketIds[r][i]]], Sold(r))
  <1>1. \A s \in TicketSet(r) : faceValue[s] \in Nat
    BY RequestFacts, ConstantsAssumption
  <1>2. \A i \in Sold(r) : faceValue[TicketIds[r][i]] \in Int
    BY <1>1 DEF TicketSet, Sold
  <1>3. /\ IsFiniteSet({TicketIds[r][i] : i \in Sold(r)})
        /\ Total(faceValue, {TicketIds[r][i] : i \in Sold(r)}) =
             Total([i \in Sold(r) |-> faceValue[TicketIds[r][i]]], Sold(r))
    BY <1>2, OrderFacts, TotalByIndex
  <1>4. QED
    BY <1>1, <1>3, OrderFacts, TotalOfNaturals

(* The parts of the fees that a group's transactions record add up.        *)
LEMMA SharesAddUp ==
  ASSUME NEW n \in Nat \ {0}, NEW extra \in Int, NEW share \in Int, NEW h,
         \A i \in 1..n : h[i] = IF i = n THEN extra - share * (n - 1) ELSE share
  PROVE  Total(h, 1..n) = extra /\ \A i \in 1..n : h[i] \in Int
  <1>1. \A i \in 1..n : h[i] \in Int
    OBVIOUS
  <1> DEFINE others == 1..(n - 1)
  <1>2. IsFiniteSet(others) /\ Cardinality(others) = n - 1
    BY FS_Interval
  <1>3. n \notin others /\ 1..n = others \union {n}
    OBVIOUS
  <1>4. \A i \in others : h[i] = share
    OBVIOUS
  <1>5. h[n] = extra - share * (n - 1)
    OBVIOUS
  <1> HIDE DEF others
  <1>6. Total(h, others) = share * (n - 1)
    BY <1>2, <1>4, TotalOfConstant
  <1>7. Total(h, others \union {n}) = Total(h, others) + h[n]
    BY <1>1, <1>2, <1>3, TotalWith
  <1>8. share * (n - 1) \in Int
    OBVIOUS
  <1>9. Total(h, 1..n) = extra
    <2>1. PICK rest \in Int : rest = share * (n - 1)
      BY <1>8
    <2>2. Total(h, 1..n) = rest + (extra - rest)
      BY <1>3, <1>5, <1>6, <1>7, <2>1
    <2>3. QED
      BY <2>1, <2>2
  <1>10. QED
    BY <1>1, <1>9

LEMMA RecordedAddUp ==
  ASSUME NEW r \in Request, faceValue \in [Ticket -> Prices], approvedAmount[r] \in Nat
  PROVE  /\ \A i \in Sold(r) : RecordedAmounts(r)[i] \in Int
         /\ Total(RecordedAmounts(r), Sold(r)) = approvedAmount[r]
  <1> DEFINE n == Len(TicketIds[r])
             amounts == RecordedAmounts(r)
             values == [i \in Sold(r) |-> faceValue[TicketIds[r][i]]]
             extra == approvedAmount[r] - Total(faceValue, TicketSet(r))
             share == extra \div n
             h == [i \in Sold(r) |-> IF i = n THEN extra - share * (n - 1) ELSE share]
  <1>1. n \in Nat \ {0} /\ Sold(r) = 1..n
    BY RequestFacts DEF Sold
  <1>2. CASE ~IsGroup(r)
    <2>1. n = 1 /\ Sold(r) = {1}
      <3>1. ~(n > 1)
        BY <1>2 DEF IsGroup
      <3> HIDE DEF n
      <3>2. n = 1
        BY <1>1, <3>1
      <3>3. QED
        BY <1>1, <3>2
    <2>2. amounts = <<approvedAmount[r]>> /\ amounts[1] = approvedAmount[r]
      BY <1>2 DEF RecordedAmounts
    <2> HIDE DEF amounts
    <2>3. IsFiniteSet({1}) /\ Cardinality({1}) = 1
      BY FS_Singleton
    <2>4. Total(amounts, {1}) = approvedAmount[r] * 1
      BY <2>2, <2>3, TotalOfConstant
    <2>5. QED
      BY <2>1, <2>2, <2>4 DEF amounts
  <1>3. CASE IsGroup(r)
    <2>1. amounts = splitGroupAmount(approvedAmount[r], TicketIds[r])
      BY <1>3 DEF RecordedAmounts
    <2>2. TicketSet(r) = {TicketIds[r][i] : i \in 1..n}
      BY DEF TicketSet
    <2>3. amounts = [i \in 1..n |-> faceValue[TicketIds[r][i]] +
                       IF i = n THEN extra - share * (n - 1) ELSE share]
      BY <2>1, <2>2 DEF splitGroupAmount
    <2>4. extra \in Int
      <3>1. PICK sum \in Nat : sum = Total(faceValue, TicketSet(r))
        BY FaceValues
      <3>2. QED
        BY <3>1
    <2>5. share \in Int
      BY <1>1, <2>4
    <2>6. \A i \in Sold(r) : values[i] \in Int
      <3>1. \A i \in Sold(r) : TicketIds[r][i] \in TicketSet(r)
        BY DEF TicketSet, Sold
      <3>2. QED
        <4>1. ASSUME NEW s \in TicketSet(r) PROVE faceValue[s] \in Int
          <5>1. faceValue[s] \in Prices /\ Prices \subseteq Nat
            BY RequestFacts, ConstantsAssumption
          <5>2. faceValue[s] \in Nat
            BY <5>1
          <5>3. QED
            BY <5>2
        <4>2. QED
          BY <3>1, <4>1
    <2>7. Total(values, Sold(r)) = Total(faceValue, TicketSet(r))
      BY FaceValues
    <2> HIDE DEF extra, share, n, amounts
    <2>8. Total(h, Sold(r)) = extra /\ \A i \in Sold(r) : h[i] \in Int
      <3>1. \A i \in 1..n : h[i] = IF i = n THEN extra - share * (n - 1) ELSE share
        BY <1>1
      <3> HIDE DEF h
      <3>2. QED
        <4>1. Total(h, 1..n) = extra /\ \A i \in 1..n : h[i] \in Int
          BY <1>1, <2>4, <2>5, <3>1, SharesAddUp
        <4>2. QED
          BY <1>1, <4>1
    <2>9. \A i \in Sold(r) : amounts[i] = values[i] + h[i]
      BY <1>1, <2>3
    <2> HIDE DEF h, values
    <2>10. Total(amounts, Sold(r)) = Total(values, Sold(r)) + Total(h, Sold(r))
      BY <2>6, <2>8, <2>9, OrderFacts, TotalOfSums
    <2>11. Total(amounts, Sold(r)) = approvedAmount[r]
      <3>1. Total(faceValue, TicketSet(r)) \in Nat
        BY FaceValues
      <3>2. QED
        BY <2>7, <2>8, <2>10, <3>1 DEF extra
    <2>12. \A i \in Sold(r) : amounts[i] \in Int
      BY <2>6, <2>8, <2>9
    <2>13. QED
      BY <2>11, <2>12 DEF amounts
  <1>4. QED
    BY <1>2, <1>3

PaidIn(T, p) == {t \in T : t.pgTransactionId = p}

SumPaid(T, p) == Total([t \in PaidIn(T, p) |-> t.amount], PaidIn(T, p))

AddsUp(T) == \A p \in Payment : PaidIn(T, p) # {} => SumPaid(T, p) = captured[p]

(* The transactions of a sale add up to what was approved. *)
LEMMA SaleAddsUp ==
  ASSUME NEW r \in Request, faceValue \in [Ticket -> Prices], approvedAmount[r] \in Nat
  PROVE  LET sale == {Transaction(r, i) : i \in Sold(r)}
         IN  /\ \A t \in sale : t.amount \in Int
             /\ Total([t \in sale |-> t.amount], sale) = approvedAmount[r]
  <1> DEFINE e == [i \in Sold(r) |-> Transaction(r, i)]
             sale == {Transaction(r, i) : i \in Sold(r)}
             f == [t \in sale |-> t.amount]
             amounts == RecordedAmounts(r)
  <1>1. /\ \A i \in Sold(r) : amounts[i] \in Int
        /\ Total(amounts, Sold(r)) = approvedAmount[r]
    BY RecordedAddUp
  <1>2. ASSUME NEW i \in Sold(r)
        PROVE  Transaction(r, i).ticketId = TicketIds[r][i] /\ Transaction(r, i).amount = amounts[i]
    BY DEF Transaction
  <1>3. \A i, j \in Sold(r) : e[i] = e[j] => i = j
    BY <1>2, OrderFacts
  <1>4. sale = {e[i] : i \in Sold(r)}
    OBVIOUS
  <1>5. \A i \in Sold(r) : f[e[i]] = amounts[i]
    BY <1>2
  <1>6. \A t \in sale : t.amount \in Int
    BY <1>1, <1>2
  <1> HIDE DEF e, f, amounts, sale
  <1>7. Total(f, {e[i] : i \in Sold(r)}) = Total([i \in Sold(r) |-> f[e[i]]], Sold(r))
    <2>1. PICK I : I = Sold(r)
      OBVIOUS
    <2>2. /\ IsFiniteSet(I) /\ \A i, j \in I : e[i] = e[j] => i = j
          /\ \A i \in I : f[e[i]] \in Int
      BY <1>1, <1>3, <1>5, <2>1, OrderFacts
    <2>3. Total(f, {e[i] : i \in I}) = Total([i \in I |-> f[e[i]]], I)
      BY <2>2, TotalByIndex
    <2>4. QED
      BY <2>1, <2>3
  <1>8. Total([i \in Sold(r) |-> f[e[i]]], Sold(r)) = Total(amounts, Sold(r))
    <2> DEFINE g == [i \in Sold(r) |-> f[e[i]]]
    <2>1. \A i \in Sold(r) : g[i] = amounts[i]
      BY <1>5
    <2> HIDE DEF g
    <2>2. Total(g, Sold(r)) = Total(amounts, Sold(r))
      BY <2>1, OrderFacts, TotalOfEquals
    <2>3. QED
      BY <2>2 DEF g
  <1>9. QED
    BY <1>1, <1>4, <1>6, <1>7, <1>8 DEF f, sale

(* Amounts, in memory and on disk.  What is asked for covers the fee, so   *)
(* that the provider's lesser amount is natural too.                       *)
AmountsIInv ==
  /\ faceValue \in [Ticket -> Prices] /\ disk.faceValue \in [Ticket -> Prices]
  /\ approvedAmount \in [Request -> Nat]
  /\ captured \in [Payment -> Nat]
  /\ \A r \in Request : phase[r] = "confirming" => approvedAmount[r] >= SERVICE_FEE_PER_SEAT
  /\ \A t \in transactions : t.amount \in Int
  /\ AddsUp(transactions) /\ AddsUp(disk.transactions)

(* A step that sells nothing and captures nothing. *)
LEMMA AmountsKept ==
  ASSUME IInv, AmountsIInv, UNCHANGED captured,
         faceValue' \in [Ticket -> Prices],
         transactions' = transactions \/ transactions' = disk.transactions,
         disk'.faceValue \in [Ticket -> Prices],
         disk'.transactions \in {disk.transactions, transactions},
         approvedAmount' \in [Request -> Nat],
         \A r \in Request : phase'[r] = "confirming" => approvedAmount'[r] >= SERVICE_FEE_PER_SEAT
  PROVE  AmountsIInv'
  <1>1. AddsUp(transactions)' /\ AddsUp(disk.transactions)'
    BY DEF AmountsIInv, AddsUp, SumPaid, PaidIn
  <1>2. \A t \in transactions' : t.amount \in Int
    BY DEF AmountsIInv, IInv, DiskBehind
  <1>3. QED
    BY <1>1, <1>2 DEF AmountsIInv

LEMMA AmountsNext == IInv /\ AmountsIInv /\ [Next]_vars => AmountsIInv'
  <1> SUFFICES ASSUME IInv, AmountsIInv, [Next]_vars PROVE AmountsIInv'
    OBVIOUS
  <1>0. /\ phase \in [Request -> Phase] /\ approvedAmount \in [Request -> Nat]
        /\ faceValue \in [Ticket -> Prices] /\ disk.faceValue \in [Ticket -> Prices]
        /\ captured \in [Payment -> Nat] /\ SERVICE_FEE_PER_SEAT \in Nat
        /\ \A r \in Request : phase[r] = "confirming" => approvedAmount[r] >= SERVICE_FEE_PER_SEAT
    BY ConstantsAssumption DEF IInv, AmountsIInv
  <1>1. ASSUME NEW r \in Request, AskProvider(r) PROVE AmountsIInv'
    <2>1. OrderTotal(r) \in Nat /\ OrderTotal(r) >= SERVICE_FEE_PER_SEAT
      <3> DEFINE n == Len(TicketIds[r])  values == Total(faceValue, TicketSet(r))
      <3>1. n \in Nat \ {0} /\ values \in Nat
        BY <1>0, RequestFacts, FaceValues
      <3>2. OrderTotal(r) = values + n * SERVICE_FEE_PER_SEAT
        BY DEF OrderTotal
      <3> HIDE DEF n, values
      <3>3. n * SERVICE_FEE_PER_SEAT = SERVICE_FEE_PER_SEAT + (n - 1) * SERVICE_FEE_PER_SEAT
        BY <1>0, <3>1
      <3>4. (n - 1) * SERVICE_FEE_PER_SEAT \in Nat
        <4>1. n - 1 \in Nat
          BY <3>1
        <4>2. QED
          BY <1>0, <4>1
      <3>5. QED
        BY <1>0, <3>1, <3>2, <3>3, <3>4
    <2>2. UNCHANGED <<db, disk, captured>>
      BY <1>1 DEF AskProvider
    <2>3. /\ approvedAmount' \in [Request -> Nat]
          /\ \A q \in Request : phase'[q] = "confirming" => approvedAmount'[q] >= SERVICE_FEE_PER_SEAT
      BY <1>0, <1>1, <2>1 DEF AskProvider
    <2>4. QED
      BY <1>0, <2>2, <2>3, AmountsKept DEF db
  <1>2. ASSUME NEW r \in Request,
               \/ Begin(r) \/ ProviderDeclines(r) \/ AnswerLost(r)
               \/ Mismatch(r) \/ Reply(r) \/ SaveFails(r)
        PROVE  AmountsIInv'
    <2>1. CASE AskProvider(r)
      BY <1>1, <2>1
    <2>2. CASE ~AskProvider(r)
      <3>1. /\ UNCHANGED <<db, approvedAmount, captured>> /\ (disk' = disk \/ disk' = Snapshot)
            /\ \A q \in Request : phase'[q] = "confirming" => phase[q] = "confirming"
        BY <1>0, <1>2, <2>2 DEF Begin, Refuse, ProviderDeclines, AnswerLost, Mismatch, Reply,
                                SaveFails
      <3>2. /\ disk'.faceValue \in [Ticket -> Prices]
            /\ disk'.transactions \in {disk.transactions, transactions}
        BY <1>0, <3>1 DEF Snapshot
      <3>3. QED
        BY <1>0, <3>1, <3>2, AmountsKept DEF db
    <2>3. QED
      BY <2>1, <2>2
  <1>3. ASSUME NEW r \in Request, ProviderCaptures(r) PROVE AmountsIInv'
    <2> DEFINE p == PaymentOf[r]
    <2>1. PICK amount \in {approvedAmount[r], approvedAmount[r] - SERVICE_FEE_PER_SEAT} \ {0} :
            captured' = [captured EXCEPT ![p] = amount]
      BY <1>3 DEF ProviderCaptures
    <2>2. amount \in Nat
      <3>1. phase[r] = "confirming" /\ approvedAmount[r] \in Nat
        BY <1>0, <1>3 DEF ProviderCaptures
      <3>2. approvedAmount[r] >= SERVICE_FEE_PER_SEAT
        BY <1>0, <3>1
      <3>3. QED
        BY <1>0, <2>1, <3>1, <3>2
    <2>3. /\ UNCHANGED <<db, disk, approvedAmount>> /\ captured[p] = 0
          /\ \A q \in Request : phase'[q] = "confirming" => phase[q] = "confirming"
      BY <1>0, <1>3 DEF ProviderCaptures
    <2>4. captured' \in [Payment -> Nat] /\ \A q \in Payment \ {p} : captured'[q] = captured[q]
      BY <1>0, <2>1, <2>2
    <2>5. PaidIn(transactions, p) = {} /\ PaidIn(disk.transactions, p) = {}
      BY <2>3 DEF PaidIn, IInv, CapturedFirst, DiskBehind
    <2>6. AddsUp(transactions)' /\ AddsUp(disk.transactions)'
      <3>1. transactions' = transactions /\ disk' = disk
        BY <2>3 DEF db
      <3>2. QED
        BY <2>4, <2>5, <3>1 DEF AmountsIInv, AddsUp, SumPaid, PaidIn
    <2>7. QED
      BY <1>0, <2>3, <2>4, <2>6 DEF AmountsIInv, db
  <1>4. ASSUME NEW r \in Request, Allocate(r) PROVE AmountsIInv'
    <2>1. /\ UNCHANGED <<faceValue, disk, approvedAmount, captured>>
          /\ phase[r] = "captured" /\ captured[PaymentOf[r]] = approvedAmount[r]
          /\ \A q \in Request : phase'[q] = "confirming" => phase[q] = "confirming"
      BY <1>0, <1>4 DEF Allocate, AmountMatches
    <2>2. CASE transactions' = transactions
      BY <1>0, <2>1, <2>2, AmountsKept
    <2>3. CASE Sell(r)
      <3> DEFINE sale == {Transaction(r, i) : i \in Sold(r)}
      <3>1. transactions' = transactions \union sale
        BY <2>3 DEF Sell
      <3>2. \A t \in sale : t.pgTransactionId = PaymentOf[r]
        BY DEF Transaction
      <3>3. PaidIn(transactions, PaymentOf[r]) = {}
        BY <2>1 DEF IInv, OneCapture, PaidIn
      <3>4. /\ \A t \in sale : t.amount \in Int
            /\ Total([t \in sale |-> t.amount], sale) = approvedAmount[r]
        BY <1>0, SaleAddsUp
      <3> HIDE DEF sale
      <3>5. /\ PaidIn(transactions', PaymentOf[r]) = sale
            /\ \A p \in Payment : p # PaymentOf[r] =>
                 PaidIn(transactions', p) = PaidIn(transactions, p)
        BY <3>1, <3>2, <3>3 DEF PaidIn
      <3>6. AddsUp(transactions)'
        <4>1. SumPaid(transactions', PaymentOf[r]) = captured'[PaymentOf[r]]
          BY <2>1, <3>4, <3>5 DEF SumPaid
        <4>2. ASSUME NEW p \in Payment, p # PaymentOf[r], PaidIn(transactions', p) # {}
              PROVE  SumPaid(transactions', p) = captured'[p]
          BY <2>1, <3>5, <4>2 DEF SumPaid, AmountsIInv, AddsUp
        <4>3. QED
          BY <4>1, <4>2 DEF AddsUp
      <3>7. AddsUp(disk.transactions)'
        BY <2>1 DEF AmountsIInv, AddsUp, SumPaid, PaidIn
      <3>8. QED
        BY <1>0, <2>1, <3>1, <3>4, <3>6, <3>7 DEF AmountsIInv
    <2>4. QED
      BY <1>4, <2>2, <2>3 DEF Allocate, NeedsRefund
  <1>5. ASSUME NEW s \in Ticket, OthersChange(s) PROVE AmountsIInv'
    BY <1>0, <1>5, AmountsKept DEF OthersChange, Snapshot
  <1>6. ASSUME NEW z \in Zone, NEW price \in Prices, Reprice(z, price) PROVE AmountsIInv'
    <2>1. faceValue' \in [Ticket -> Prices]
      BY <1>0, <1>6 DEF Reprice
    <2>2. QED
      BY <1>0, <1>6, <2>1, AmountsKept DEF Reprice, Snapshot
  <1>7. CASE OthersSave
    BY <1>0, <1>7, AmountsKept DEF OthersSave, Snapshot, db
  <1>8. CASE Restart
    <2>1. \A q \in Request : phase'[q] = "confirming" => phase[q] = "confirming"
      BY <1>8 DEF Restart, Answered
    <2>2. QED
      BY <1>0, <1>8, <2>1, AmountsKept DEF Restart
  <1>9. CASE UNCHANGED vars
    BY <1>0, <1>9, AmountsKept DEF vars, db
  <1>10. QED
    BY <1>2, <1>3, <1>4, <1>5, <1>6, <1>7, <1>8, <1>9 DEF Next

LEMMA AmountsAlways == Spec => [](IInv /\ AmountsIInv)
  <1>1. Init => AmountsIInv
    <2> SUFFICES ASSUME Init PROVE AmountsIInv
      OBVIOUS
    <2>1. /\ faceValue \in [Ticket -> Prices] /\ transactions = {}
          /\ disk.faceValue = faceValue /\ disk.transactions = {}
          /\ phase = [r \in Request |-> "new"]
          /\ approvedAmount = [r \in Request |-> 0] /\ captured = [p \in Payment |-> 0]
      BY DEF Init, Snapshot
    <2>2. AddsUp(transactions) /\ AddsUp(disk.transactions)
      BY <2>1 DEF AddsUp, PaidIn
    <2>3. QED
      BY <2>1, <2>2 DEF AmountsIInv
  <1>2. QED
    BY <1>1, InitIInv, NextIInv, AmountsNext, PTL DEF Spec

(* backend/commerce.js: the records of purchases keep their shape, and     *)
(* amounts are numbers, also after discounts of the provider and restarts. *)
THEOREM SpecTypeOK == Spec => []TypeOK
  <1>1. IInv /\ AmountsIInv => TypeOK
    <2> SUFFICES ASSUME IInv, AmountsIInv PROVE TypeOK
      OBVIOUS
    <2>1. tickets \in [Ticket -> TicketState] /\ refunds \subseteq Payment
      BY DEF IInv, MemoryOK, BookOK
    <2>2. ASSUME NEW t \in transactions
          PROVE  t.ticketId \in Ticket /\ t.userId \in User /\ t.pgTransactionId \in Payment
      <3>1. PICK q \in Request : OfOrder(t, q)
        BY DEF IInv, MemoryOK, BookOK, FromRequests
      <3>2. QED
        BY <3>1, RequestFacts DEF OfOrder
    <2>3. QED
      BY <2>1, <2>2 DEF IInv, AmountsIInv, TypeOK
  <1>2. QED
    BY <1>1, AmountsAlways, PTL

(* backend/commerce.js (splitGroupAmount): what is recorded for the        *)
(* tickets of an order is what the provider has captured, to the last won, *)
(* also when prices changed while the provider was asked.                  *)
THEOREM SpecAmountsAddUp == Spec => []AmountsAddUp
  <1>1. AmountsIInv => AmountsAddUp
    BY DEF AmountsIInv, AddsUp, SumPaid, PaidIn, AmountsAddUp, PaidWith
  <1>2. QED
    BY <1>1, AmountsAlways, PTL
=============================================================================
