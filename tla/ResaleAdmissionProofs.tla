----------------------- MODULE ResaleAdmissionProofs -----------------------
(***************************************************************************)
(* Resale and admission for any number of users, tickets, pools and codes. *)
(*                                                                         *)
(* Each handler looks at part of the records only; that nothing goes wrong *)
(* rests on relations between them that all handlers together keep: a      *)
(* credential is its ticket owner's, an open pool is alone with a ticket   *)
(* its seller owns, a code that let somebody in is used, and a code whose  *)
(* ticket has changed hands is not the ticket's current one.               *)
(***************************************************************************)
EXTENDS ResaleAdmission, DataTheorems, TLAPS

(* What let somebody in is used up, and let in one. *)
EntriesConsume ==
  \A c \in Code : /\ admitted[c] <= 1
                  /\ admitted[c] # 0 => codes[c] \in CodeRecord /\ codes[c].status = "USED"

(* The current code is of its ticket; a code of the past never is current. *)
CodesOK ==
  /\ \A t \in Ticket, c \in Code : currentQr[t] = c =>
       codes[c] \in CodeRecord /\ codes[c].kind = "DYNAMIC" /\ codes[c].ticketId = t
  /\ \A c \in bygone :
       /\ codes[c] \in CodeRecord /\ codes[c].kind = "DYNAMIC"
       /\ currentQr[codes[c].ticketId] # c

OnOffer(t) == tickets[t].status = "IN_RESALE_POOL" \/ InByApp(t)

MatchedOf(t) == {p \in PoolsOf(t) : Matched(p)}

(* An offer can be delivered, and within the limit. *)
OfferOK(p, t) ==
  \/ Reversed(t)
  \/ /\ tickets[t].owner = resalePools[p].sellerId
     /\ OnOffer(t)
     /\ tickets[t].transferCount < MaxTransfers
     /\ \A q \in PoolsOf(t) : Open(q) => q = p

CountOK(t) ==
  /\ tickets[t].transferCount = Cardinality(MatchedOf(t))
  /\ tickets[t].transferCount <= MaxTransfers \/ Reversed(t)

PoolOK(p) ==
  /\ Open(p) => OfferOK(p, resalePools[p].ticketId)
  /\ Matched(p) => resalePools[p].winnerId # NULL

PoolsOK == (\A p \in Pool : PoolOK(p)) /\ (\A t \in Ticket : CountOK(t))

IInv ==
  /\ TypeOK
  /\ CredentialIsOwners
  /\ EntriesConsume
  /\ CodesOK
  /\ PoolsOK

-----------------------------------------------------------------------------
(* Types *)

LEMMA FeeType == \A price \in Prices : Fee(price) \in Int /\ price \in Int
  BY ConstantsAssumption DEF Fee

LEMMA TakenFromType ==
  ASSUME NEW f \in [User -> Int], NEW a, NEW n \in Int
  PROVE  [f EXCEPT ![a] = @ - n] \in [User -> Int]
  <1>1. ASSUME NEW u \in User PROVE [f EXCEPT ![a] = @ - n][u] \in Int
    <2>1. CASE u = a
      BY <2>1
    <2>2. CASE u # a
      BY <2>2
    <2>3. QED
      BY <2>1, <2>2
  <1>2. QED
    BY <1>1

LEMMA EnsuredType ==
  ASSUME NEW cred \in Credential, NEW u \in User
  PROVE  Ensured(cred, u) \in Credential
  BY DEF Ensured, Credential

LEMMA HandOverType ==
  ASSUME TypeOK, NEW t \in Ticket, NEW u \in User, NEW n \in Nat, HandOver(t, u, n)
  PROVE  /\ tickets' \in [Ticket -> TicketRecord]
         /\ currentQr' \in [Ticket -> Code \union {NULL}]
         /\ credentials' \in [Ticket -> Credential]
         /\ bygone' \subseteq Code
  <1>1. [owner |-> u, status |-> "OWNED", transferCount |-> n] \in TicketRecord
    BY DEF TicketRecord
  <1>2. Ensured(credentials[t], u) \in Credential
    BY EnsuredType DEF TypeOK
  <1>3. QED
    BY <1>1, <1>2 DEF HandOver, Outdate, TypeOK

LEMMA CompleteType ==
  ASSUME TypeOK, NEW p \in Pool, NEW u \in User, resalePools[p] \in PoolRecord, Complete(p, u)
  PROVE  TypeOK'
  <1> DEFINE pool == resalePools[p]
             t == pool.ticketId
  <1>1. t \in Ticket /\ pool.sellerId \in User /\ pool.price \in Prices
    BY DEF PoolRecord
  <1>2. tickets[t].transferCount + 1 \in Nat
    BY <1>1 DEF TypeOK, TicketRecord
  <1>3. HandOver(t, u, tickets[t].transferCount + 1)
    BY DEF Complete
  <1>4. /\ tickets' \in [Ticket -> TicketRecord]
        /\ currentQr' \in [Ticket -> Code \union {NULL}]
        /\ credentials' \in [Ticket -> Credential]
        /\ bygone' \subseteq Code
    BY <1>1, <1>2, <1>3, HandOverType
  <1>5. [pool EXCEPT !.buyers = @ \union {u}, !.status = "MATCHED", !.winnerId = u] \in PoolRecord
    BY DEF PoolRecord
  <1>6. resalePools' \in [Pool -> PoolRecord \union {NULL}]
    <2>1. resalePools' = [resalePools EXCEPT ![p] =
            [pool EXCEPT !.buyers = @ \union {u}, !.status = "MATCHED", !.winnerId = u]]
      BY DEF Complete
    <2>2. resalePools \in [Pool -> PoolRecord \union {NULL}]
      BY DEF TypeOK
    <2>3. QED
      BY <1>5, <2>1, <2>2
  <1>7. balance' \in [User -> Int] /\ paid' \in [User -> Int]
    BY <1>1, FeeType DEF Complete, TypeOK
  <1>8. QED
    BY <1>4, <1>6, <1>7 DEF Complete, TypeOK

LEMMA CancelType ==
  ASSUME TypeOK, NEW p \in Pool, resalePools[p] \in PoolRecord, adminCancelResalePool(p)
  PROVE  TypeOK'
  <1> DEFINE pool == resalePools[p]
             t == pool.ticketId
  <1>1. /\ t \in Ticket /\ pool.sellerId \in User /\ pool.price \in Prices
        /\ pool.winnerId \in User \union {NULL}
    BY DEF PoolRecord
  <1>2. [pool EXCEPT !.status = "CANCELED"] \in PoolRecord
    BY DEF PoolRecord
  <1>3. resalePools' \in [Pool -> PoolRecord \union {NULL}]
    BY <1>2 DEF adminCancelResalePool, TypeOK
  <1>4. CASE Reverse(p)
    <2>1. tickets[t] \in TicketRecord
      BY <1>1 DEF TypeOK
    <2>2. [owner |-> pool.sellerId, status |-> "OWNED",
           transferCount |-> IF tickets[t].transferCount > 0
                             THEN tickets[t].transferCount - 1 ELSE 0] \in TicketRecord
      BY <1>1, <2>1 DEF TicketRecord
    <2>3. tickets' \in [Ticket -> TicketRecord]
      BY <1>4, <2>2 DEF Reverse, TypeOK
    <2>4. credentials' \in [Ticket -> Credential]
      BY <1>1, <1>4 DEF Reverse, TypeOK, Credential
    <2>5. balance' \in [User -> Int] /\ paid' \in [User -> Int]
      <3>1. balance' = [balance EXCEPT ![pool.sellerId] = @ - pool.price]
        BY <1>4 DEF Reverse
      <3>2. paid' = [paid EXCEPT ![pool.winnerId] = @ - (pool.price + Fee(pool.price))]
        BY <1>4 DEF Reverse
      <3>3. pool.price \in Int /\ pool.price + Fee(pool.price) \in Int
        BY <1>1, FeeType
      <3>4. balance \in [User -> Int] /\ paid \in [User -> Int]
        BY DEF TypeOK
      <3>5. balance' \in [User -> Int]
        BY <3>1, <3>3, <3>4, TakenFromType
      <3>6. paid' \in [User -> Int]
        BY <3>2, <3>3, <3>4, TakenFromType
      <3>7. QED
        BY <3>5, <3>6
    <2>6. currentQr' \in [Ticket -> Code \union {NULL}] /\ bygone' \subseteq Code
      BY <1>4 DEF Reverse, Outdate, TypeOK
    <2>7. QED
      BY <1>3, <2>3, <2>4, <2>5, <2>6 DEF adminCancelResalePool, TypeOK
  <1>5. CASE /\ tickets' = [tickets EXCEPT ![t].status = "OWNED"]
             /\ UNCHANGED <<balance, paid, credentials, currentQr, bygone>>
    <2>1. tickets' \in [Ticket -> TicketRecord]
      BY <1>1, <1>5 DEF TypeOK, TicketRecord
    <2>2. QED
      BY <1>3, <1>5, <2>1 DEF adminCancelResalePool, TypeOK
  <1>6. QED
    BY <1>4, <1>5 DEF adminCancelResalePool

LEMMA JoinType ==
  ASSUME TypeOK, NEW u \in User, NEW p \in Pool, resalePools[p] \in PoolRecord, joinPool(u, p)
  PROVE  TypeOK'
  <1>1. [resalePools[p] EXCEPT !.buyers = @ \union {u}] \in PoolRecord
    BY DEF PoolRecord
  <1>2. QED
    BY <1>1 DEF joinPool, TypeOK, entries

(* A pool that is open or matched is a record. *)
LEMMA PoolIsRecord ==
  ASSUME TypeOK, NEW p \in Pool, resalePools[p] # NULL
  PROVE  resalePools[p] \in PoolRecord
  BY DEF TypeOK

LEMMA CodeIsRecord ==
  ASSUME TypeOK, NEW c \in Code, codes[c] # NULL
  PROVE  codes[c] \in CodeRecord
  BY DEF TypeOK

LEMMA TypeInit == Init => TypeOK
  BY ConstantsAssumption
     DEF Init, TypeOK, TicketRecord, Credential

LEMMA TypeNext == TypeOK /\ [Next]_vars => TypeOK'
  <1> SUFFICES ASSUME TypeOK, [Next]_vars PROVE TypeOK'
    OBVIOUS
  <1> USE DEF resale, entries
  <1>1. ASSUME NEW u \in User, NEW t \in Ticket, NEW p \in Pool, NEW price \in Prices,
               listForResale(u, t, p, price)
        PROVE  TypeOK'
    <2>1. [ticketId |-> t, sellerId |-> u, price |-> price, buyers |-> {},
           status |-> "OPEN", winnerId |-> NULL] \in PoolRecord
      BY DEF PoolRecord
    <2>2. tickets' \in [Ticket -> TicketRecord]
      BY <1>1 DEF listForResale, TypeOK, TicketRecord
    <2>3. QED
      BY <1>1, <2>1, <2>2 DEF listForResale, TypeOK
  <1>2. ASSUME NEW u \in User, NEW t \in Ticket, PrepareCredential(u, t) PROVE TypeOK'
    <2>1. Ensured(credentials[t], u) \in Credential
      BY EnsuredType DEF TypeOK
    <2>2. QED
      BY <1>2, <2>1 DEF PrepareCredential, TypeOK
  <1>3. ASSUME NEW u \in User, NEW t \in Ticket, revokeMobileQr(u, t) PROVE TypeOK'
    <2>1. ASSUME NEW d \in Code, ValidMobile(d, t)
          PROVE  [codes[d] EXCEPT !.status = "REVOKED"] \in CodeRecord
      BY <2>1, CodeIsRecord DEF ValidMobile, CodeRecord
    <2>2. QED
      BY <1>3, <2>1 DEF revokeMobileQr, TypeOK
  <1>4. ASSUME NEW u \in User, NEW t \in Ticket, NEW c \in Code, issueQr(u, t, c) PROVE TypeOK'
    <2>1. NewCode("DYNAMIC", u, t) \in CodeRecord
      BY DEF NewCode, CodeRecord
    <2>2. [userId |-> u, status |-> "QR_ACTIVE"] \in Credential
      BY DEF Credential
    <2>3. QED
      BY <1>4, <2>1, <2>2 DEF issueQr, TypeOK
  <1>5. ASSUME NEW u \in User, NEW t \in Ticket, NEW c \in Code, issueMobileQr(u, t, c)
        PROVE  TypeOK'
    <2>1. NewCode("MOBILE", u, t) \in CodeRecord
      BY DEF NewCode, CodeRecord
    <2>2. ASSUME NEW d \in Code, ValidMobile(d, t)
          PROVE  [codes[d] EXCEPT !.status = "REVOKED"] \in CodeRecord
      BY <2>2, CodeIsRecord DEF ValidMobile, CodeRecord
    <2>3. QED
      BY <1>5, <2>1, <2>2 DEF issueMobileQr, TypeOK
  <1>6. ASSUME NEW u \in User, NEW p \in Pool, joinPool(u, p) PROVE TypeOK'
    BY <1>6, JoinType, PoolIsRecord DEF joinPool, Open
  <1>7. ASSUME NEW u \in User, NEW p \in Pool, cancelResaleListing(u, p) PROVE TypeOK'
    <2>1. resalePools[p] \in PoolRecord
      BY <1>7, PoolIsRecord DEF cancelResaleListing, Open
    <2>2. [resalePools[p] EXCEPT !.status = "CANCELED"] \in PoolRecord
      BY <2>1 DEF PoolRecord
    <2>3. resalePools[p].ticketId \in Ticket
      BY <2>1 DEF PoolRecord
    <2>4. tickets' \in [Ticket -> TicketRecord]
      BY <1>7, <2>3 DEF cancelResaleListing, TypeOK, TicketRecord
    <2>5. QED
      BY <1>7, <2>2, <2>4 DEF cancelResaleListing, TypeOK
  <1>8. ASSUME NEW u \in User, NEW p \in Pool, purchaseResale(u, p) PROVE TypeOK'
    BY <1>8, JoinType, CompleteType, PoolIsRecord DEF purchaseResale, Open
  <1>9. ASSUME NEW p \in Pool, drawPool(p) PROVE TypeOK'
    BY <1>9, CompleteType, PoolIsRecord, ConstantsAssumption DEF drawPool, Open, Complete
  <1>10. ASSUME NEW p \in Pool, adminCancelResalePool(p) PROVE TypeOK'
    BY <1>10, CancelType, PoolIsRecord DEF adminCancelResalePool, Open, Matched
  <1>11. ASSUME NEW c \in Code, verifyQr(c) PROVE TypeOK'
    <2>1. codes[c] \in CodeRecord
      BY <1>11, CodeIsRecord DEF verifyQr, Genuine
    <2>2. codes' \in [Code -> CodeRecord \union {NULL}]
      BY <1>11, <2>1 DEF verifyQr, Consume, TypeOK, CodeRecord
    <2>3. codes[c].ticketId \in Ticket
      BY <2>1 DEF CodeRecord
    <2>4. tickets' \in [Ticket -> TicketRecord]
      BY <1>11, <2>3 DEF verifyQr, TypeOK, TicketRecord
    <2>5. credentials' \in [Ticket -> Credential]
      BY <1>11, <2>3 DEF verifyQr, Consume, TypeOK, Credential
    <2>6. admitted' \in [Code -> Nat] /\ UNCHANGED <<resale, currentQr, bygone>>
      BY <1>11 DEF verifyQr, TypeOK
    <2>7. QED
      BY <2>2, <2>4, <2>5, <2>6 DEF TypeOK
  <1>12. ASSUME NEW c \in Code, verifyGate(c) PROVE TypeOK'
    <2>1. codes[c] \in CodeRecord
      BY <1>12, CodeIsRecord DEF verifyGate
    <2>2. codes' \in [Code -> CodeRecord \union {NULL}]
      BY <1>12, <2>1 DEF verifyGate, TypeOK, CodeRecord
    <2>3. codes[c].ticketId \in Ticket
      BY <2>1 DEF CodeRecord
    <2>4. tickets' \in [Ticket -> TicketRecord]
      BY <1>12, <2>3 DEF verifyGate, TypeOK, TicketRecord
    <2>5. QED
      BY <1>12, <2>2, <2>4 DEF verifyGate, TypeOK
  <1>13. ASSUME NEW c \in Code, Lapse(c) PROVE TypeOK'
    <2>1. codes[c] \in CodeRecord
      BY <1>13, CodeIsRecord DEF Lapse
    <2>2. codes' \in [Code -> CodeRecord \union {NULL}]
      BY <1>13, <2>1 DEF Lapse, TypeOK, CodeRecord
    <2>3. QED
      BY <1>13, <2>2 DEF Lapse, TypeOK
  <1>14. CASE UNCHANGED vars
    BY <1>14 DEF vars, TypeOK
  <1>15. QED
    BY <1>1, <1>2, <1>3, <1>4, <1>5, <1>6, <1>7, <1>8, <1>9, <1>10, <1>11, <1>12, <1>13, <1>14
       DEF Next

-----------------------------------------------------------------------------
(* Codes *)

LEMMA EntriesNext == TypeOK /\ EntriesConsume /\ [Next]_vars => EntriesConsume'
  <1> SUFFICES ASSUME TypeOK, EntriesConsume, [Next]_vars PROVE EntriesConsume'
    OBVIOUS
  <1>0. TypeOK'
    BY TypeNext
  <1> USE DEF resale, entries
  <1>1. ASSUME UNCHANGED <<codes, admitted>> PROVE EntriesConsume'
    BY <1>1 DEF EntriesConsume
  <1>2. ASSUME NEW c \in Code, codes[c] # NULL, codes[c].status # "USED",
               codes' = [codes EXCEPT ![c].status = "USED"],
               admitted' = [admitted EXCEPT ![c] = @ + 1]
        PROVE  EntriesConsume'
    <2>1. admitted[c] = 0 /\ admitted'[c] = 1
      BY <1>2 DEF EntriesConsume, TypeOK
    <2>2. codes'[c] \in CodeRecord /\ codes'[c].status = "USED"
      BY <1>2, CodeIsRecord DEF TypeOK, CodeRecord
    <2>3. \A d \in Code : d # c => codes'[d] = codes[d] /\ admitted'[d] = admitted[d]
      BY <1>2 DEF TypeOK
    <2>4. QED
      BY <2>1, <2>2, <2>3 DEF EntriesConsume
  <1>3. ASSUME UNCHANGED admitted,
               \A d \in Code : codes'[d] # codes[d] => codes[d] = NULL \/ codes[d].status # "USED"
        PROVE  EntriesConsume'
    <2> SUFFICES ASSUME NEW d \in Code
                 PROVE  /\ admitted'[d] <= 1
                        /\ admitted'[d] # 0 => codes'[d] \in CodeRecord /\ codes'[d].status = "USED"
      BY DEF EntriesConsume
    <2>1. admitted[d] # 0 => codes'[d] = codes[d]
      BY <1>3, RecordAssumption DEF EntriesConsume
    <2>2. QED
      BY <1>3, <2>1 DEF EntriesConsume
  <1>4. ASSUME NEW u \in User, NEW t \in Ticket, revokeMobileQr(u, t) PROVE EntriesConsume'
    <2>1. \A d \in Code : codes'[d] # codes[d] => codes[d].status # "USED"
      BY <1>4 DEF revokeMobileQr, ValidMobile
    <2>2. QED
      BY <1>3, <1>4, <2>1 DEF revokeMobileQr
  <1>5. ASSUME NEW u \in User, NEW t \in Ticket, NEW c \in Code, issueQr(u, t, c)
        PROVE  EntriesConsume'
    <2>1. \A d \in Code : codes'[d] # codes[d] => codes[d] = NULL
      BY <1>5 DEF issueQr, TypeOK
    <2>2. QED
      BY <1>3, <1>5, <2>1 DEF issueQr
  <1>6. ASSUME NEW u \in User, NEW t \in Ticket, NEW c \in Code, issueMobileQr(u, t, c)
        PROVE  EntriesConsume'
    <2>1. \A d \in Code : codes'[d] # codes[d] => codes[d] = NULL \/ codes[d].status # "USED"
      BY <1>6 DEF issueMobileQr, ValidMobile
    <2>2. QED
      BY <1>3, <1>6, <2>1 DEF issueMobileQr
  <1>7. ASSUME NEW c \in Code, Lapse(c) PROVE EntriesConsume'
    <2>1. \A d \in Code : codes'[d] # codes[d] => codes[d].status # "USED"
      BY <1>7 DEF Lapse, TypeOK
    <2>2. QED
      BY <1>3, <1>7, <2>1 DEF Lapse
  <1>8. ASSUME NEW c \in Code, verifyQr(c) PROVE EntriesConsume'
    BY <1>2, <1>8 DEF verifyQr, Genuine, Consume
  <1>9. ASSUME NEW c \in Code, verifyGate(c) PROVE EntriesConsume'
    BY <1>2, <1>9 DEF verifyGate, ValidMobile
  <1>10. ASSUME NEW p \in Pool, drawPool(p) PROVE EntriesConsume'
    BY <1>1, <1>10 DEF drawPool, Complete
  <1>11. ASSUME NEW u \in User, NEW p \in Pool, purchaseResale(u, p) PROVE EntriesConsume'
    BY <1>1, <1>11 DEF purchaseResale, Complete, joinPool
  <1>12. QED
    BY <1>1, <1>4, <1>5, <1>6, <1>7, <1>8, <1>9, <1>10, <1>11
       DEF Next, vars, listForResale, PrepareCredential, joinPool, cancelResaleListing,
           adminCancelResalePool

(* No code changes its kind or its ticket. *)
LEMMA CodesKept ==
  ASSUME TypeOK, TypeOK', CodesOK, UNCHANGED <<currentQr, bygone>>,
         \A c \in Code : codes[c] # NULL =>
           codes'[c] # NULL /\ codes'[c].kind = codes[c].kind /\ codes'[c].ticketId = codes[c].ticketId
  PROVE  CodesOK'
  <1>1. \A c \in Code : codes[c] \in CodeRecord => codes[c] # NULL /\ codes'[c] \in CodeRecord
    BY RecordAssumption DEF TypeOK
  <1>2. bygone \subseteq Code
    BY DEF TypeOK
  <1>3. QED
    BY <1>1, <1>2 DEF CodesOK

(* The ticket changes hands: its current code goes. *)
LEMMA CodesOutdated ==
  ASSUME TypeOK, CodesOK, NEW t \in Ticket, UNCHANGED codes,
         currentQr' = [currentQr EXCEPT ![t] = NULL], Outdate(t)
  PROVE  CodesOK'
  <1>1. currentQr'[t] = NULL /\ \A s \in Ticket : s # t => currentQr'[s] = currentQr[s]
    BY DEF TypeOK
  <1>2. ASSUME NEW s \in Ticket, NEW c \in Code, currentQr'[s] = c
        PROVE  codes'[c] \in CodeRecord /\ codes'[c].kind = "DYNAMIC" /\ codes'[c].ticketId = s
    BY <1>1, <1>2, ConstantsAssumption DEF CodesOK
  <1>3. ASSUME NEW c \in bygone'
        PROVE  /\ codes'[c] \in CodeRecord /\ codes'[c].kind = "DYNAMIC"
               /\ currentQr'[codes'[c].ticketId] # c
    <2>1. c \in Code
      BY <1>3 DEF Outdate, TypeOK
    <2>2. codes[c] \in CodeRecord /\ codes[c].kind = "DYNAMIC"
      BY <1>3, <2>1, CodeIsRecord DEF Outdate, CodesOK
    <2>3. c \in bygone \/ codes[c].ticketId = t
      BY <1>3 DEF Outdate
    <2>4. codes[c].ticketId \in Ticket /\ c # NULL
      BY <2>1, <2>2, ConstantsAssumption DEF CodeRecord
    <2>5. QED
      BY <1>1, <2>2, <2>3, <2>4 DEF CodesOK
  <1>4. QED
    BY <1>2, <1>3 DEF CodesOK

(* A new code replaces the current one. *)
LEMMA CodeIssued ==
  ASSUME TypeOK, CodesOK, NEW u \in User, NEW t \in Ticket, NEW c \in Code, issueQr(u, t, c)
  PROVE  CodesOK'
  <1>1. /\ codes[c] = NULL /\ codes'[c] = NewCode("DYNAMIC", u, t)
        /\ \A d \in Code : d # c => codes'[d] = codes[d]
        /\ currentQr'[t] = c /\ \A s \in Ticket : s # t => currentQr'[s] = currentQr[s]
        /\ bygone' = bygone /\ bygone \subseteq Code
    BY DEF issueQr, TypeOK, entries
  <1>2. codes'[c] \in CodeRecord /\ codes'[c].kind = "DYNAMIC" /\ codes'[c].ticketId = t
    BY <1>1 DEF NewCode, CodeRecord
  <1>3. \A d \in Code : codes[d] \in CodeRecord => d # c /\ codes'[d] = codes[d]
    BY <1>1, RecordAssumption
  <1>4. ASSUME NEW s \in Ticket, NEW d \in Code, currentQr'[s] = d
        PROVE  codes'[d] \in CodeRecord /\ codes'[d].kind = "DYNAMIC" /\ codes'[d].ticketId = s
    <2>1. CASE s = t
      BY <1>1, <1>2, <1>4, <2>1
    <2>2. CASE s # t
      BY <1>1, <1>3, <1>4, <2>2 DEF CodesOK
    <2>3. QED
      BY <2>1, <2>2
  <1>5. ASSUME NEW d \in bygone'
        PROVE  /\ codes'[d] \in CodeRecord /\ codes'[d].kind = "DYNAMIC"
               /\ currentQr'[codes'[d].ticketId] # d
    <2>1. d \in Code /\ codes[d] \in CodeRecord /\ codes[d].kind = "DYNAMIC"
          /\ currentQr[codes[d].ticketId] # d
      BY <1>1, <1>5 DEF CodesOK
    <2>2. d # c /\ codes'[d] = codes[d] /\ codes[d].ticketId \in Ticket
      BY <1>3, <2>1 DEF CodeRecord
    <2>3. QED
      BY <1>1, <2>1, <2>2
  <1>6. QED
    BY <1>4, <1>5 DEF CodesOK

LEMMA CodesNext == TypeOK /\ CodesOK /\ [Next]_vars => CodesOK'
  <1> SUFFICES ASSUME TypeOK, CodesOK, [Next]_vars PROVE CodesOK'
    OBVIOUS
  <1>0. TypeOK'
    BY TypeNext
  <1> USE DEF resale, entries
  <1>1. ASSUME UNCHANGED <<codes, currentQr, bygone>> PROVE CodesOK'
    BY <1>1 DEF CodesOK
  <1>2. ASSUME NEW c \in Code, codes[c] # NULL, NEW st \in {"USED", "EXPIRED"},
               codes' = [codes EXCEPT ![c].status = st], UNCHANGED <<currentQr, bygone>>
        PROVE  CodesOK'
    <2>1. codes[c] \in CodeRecord
      BY <1>2, CodeIsRecord
    <2>2. codes'[c] = [codes[c] EXCEPT !.status = st] /\ codes'[c] \in CodeRecord
      BY <1>2, <2>1 DEF TypeOK, CodeRecord
    <2>3. /\ codes'[c] # NULL /\ codes'[c].kind = codes[c].kind
          /\ codes'[c].ticketId = codes[c].ticketId
      BY <2>1, <2>2, RecordAssumption DEF CodeRecord
    <2>4. \A d \in Code : d # c => codes'[d] = codes[d]
      BY <1>2 DEF TypeOK
    <2>5. QED
      BY <1>0, <1>2, <2>3, <2>4, CodesKept
  <1>3. ASSUME NEW t \in Ticket, NEW d \in Code, ValidMobile(d, t),
               codes'[d] = [codes[d] EXCEPT !.status = "REVOKED"]
        PROVE  /\ codes'[d] # NULL /\ codes'[d].kind = codes[d].kind
               /\ codes'[d].ticketId = codes[d].ticketId
    <2>1. codes[d] \in CodeRecord
      BY <1>3, CodeIsRecord DEF ValidMobile
    <2>2. QED
      BY <1>3, <2>1, RecordAssumption DEF CodeRecord
  <1>4. ASSUME NEW u \in User, NEW t \in Ticket, revokeMobileQr(u, t) PROVE CodesOK'
    <2>1. ASSUME NEW d \in Code, codes[d] # NULL
          PROVE  /\ codes'[d] # NULL /\ codes'[d].kind = codes[d].kind
                 /\ codes'[d].ticketId = codes[d].ticketId
      <3>1. CASE codes'[d] = codes[d]
        BY <2>1, <3>1
      <3>2. CASE codes'[d] # codes[d]
        <4>1. ValidMobile(d, t) /\ codes'[d] = [codes[d] EXCEPT !.status = "REVOKED"]
          BY <1>4, <3>2 DEF revokeMobileQr
        <4>2. QED
          BY <1>3, <4>1
      <3>3. QED
        BY <3>1, <3>2
    <2>2. QED
      BY <1>0, <1>4, <2>1, CodesKept DEF revokeMobileQr
  <1>5. ASSUME NEW u \in User, NEW t \in Ticket, NEW c \in Code, issueMobileQr(u, t, c)
        PROVE  CodesOK'
    <2>1. ASSUME NEW d \in Code, codes[d] # NULL
          PROVE  /\ codes'[d] # NULL /\ codes'[d].kind = codes[d].kind
                 /\ codes'[d].ticketId = codes[d].ticketId
      <3>1. CASE codes'[d] = codes[d]
        BY <2>1, <3>1
      <3>2. CASE codes'[d] # codes[d]
        <4>1. d # c
          BY <1>5, <2>1 DEF issueMobileQr
        <4>2. ValidMobile(d, t) /\ codes'[d] = [codes[d] EXCEPT !.status = "REVOKED"]
          BY <1>5, <3>2, <4>1 DEF issueMobileQr
        <4>3. QED
          BY <1>3, <4>2
      <3>3. QED
        BY <3>1, <3>2
    <2>2. QED
      BY <1>0, <1>5, <2>1, CodesKept DEF issueMobileQr
  <1>6. ASSUME NEW u \in User, NEW p \in Pool, resalePools[p] # NULL, Complete(p, u)
        PROVE  CodesOK'
    <2>1. resalePools[p].ticketId \in Ticket
      BY <1>6, PoolIsRecord DEF PoolRecord
    <2>2. QED
      BY <1>6, <2>1, CodesOutdated DEF Complete, HandOver
  <1>7. ASSUME NEW p \in Pool, adminCancelResalePool(p) PROVE CodesOK'
    <2>1. resalePools[p].ticketId \in Ticket
      BY <1>7, PoolIsRecord DEF PoolRecord, adminCancelResalePool, Matched, Open
    <2>2. QED
      BY <1>1, <1>7, <2>1, CodesOutdated DEF adminCancelResalePool, Reverse
  <1>8. ASSUME NEW p \in Pool, drawPool(p) PROVE CodesOK'
    BY <1>6, <1>8, ConstantsAssumption DEF drawPool, Open, Complete
  <1>9. ASSUME NEW u \in User, NEW p \in Pool, purchaseResale(u, p) PROVE CodesOK'
    BY <1>1, <1>6, <1>9 DEF purchaseResale, Open, joinPool
  <1>10. ASSUME NEW c \in Code, verifyQr(c) PROVE CodesOK'
    BY <1>2, <1>10 DEF verifyQr, Genuine, Consume
  <1>11. ASSUME NEW c \in Code, verifyGate(c) PROVE CodesOK'
    BY <1>2, <1>11 DEF verifyGate
  <1>12. ASSUME NEW c \in Code, Lapse(c) PROVE CodesOK'
    BY <1>2, <1>12 DEF Lapse
  <1>13. ASSUME NEW u \in User, NEW t \in Ticket, NEW c \in Code, issueQr(u, t, c) PROVE CodesOK'
    BY <1>13, CodeIssued
  <1>14. QED
    BY <1>1, <1>4, <1>5, <1>7, <1>8, <1>9, <1>10, <1>11, <1>12, <1>13
       DEF Next, vars, listForResale, PrepareCredential, joinPool, cancelResaleListing

-----------------------------------------------------------------------------
(* Credentials *)

LEMMA CredentialsNext == TypeOK /\ CredentialIsOwners /\ [Next]_vars => CredentialIsOwners'
  <1> SUFFICES ASSUME TypeOK, CredentialIsOwners, [Next]_vars PROVE CredentialIsOwners'
    OBVIOUS
  <1> USE DEF resale, entries
  <1>1. ASSUME \A t \in Ticket : /\ tickets'[t].owner = tickets[t].owner
                                 /\ credentials'[t].userId = credentials[t].userId
        PROVE  CredentialIsOwners'
    BY <1>1 DEF CredentialIsOwners
  <1>2. ASSUME NEW t \in Ticket, NEW u \in User,
               tickets'[t].owner = u, credentials'[t].userId = u,
               \A s \in Ticket : s # t => /\ tickets'[s] = tickets[s]
                                          /\ credentials'[s] = credentials[s]
        PROVE  CredentialIsOwners'
    BY <1>2 DEF CredentialIsOwners
  <1>3. ASSUME NEW u \in User, NEW p \in Pool, resalePools[p] # NULL, Complete(p, u)
        PROVE  CredentialIsOwners'
    <2> DEFINE t == resalePools[p].ticketId
    <2>1. t \in Ticket
      BY <1>3, PoolIsRecord DEF PoolRecord
    <2>2. HandOver(t, u, tickets[t].transferCount + 1)
      BY <1>3 DEF Complete
    <2>3. tickets'[t].owner = u /\ credentials'[t].userId = u
      BY <2>1, <2>2 DEF HandOver, Ensured, TypeOK
    <2>4. \A s \in Ticket : s # t => tickets'[s] = tickets[s] /\ credentials'[s] = credentials[s]
      BY <2>1, <2>2 DEF HandOver, TypeOK
    <2>5. QED
      BY <1>2, <2>1, <2>3, <2>4
  <1>4. ASSUME NEW p \in Pool, adminCancelResalePool(p) PROVE CredentialIsOwners'
    <2> DEFINE t == resalePools[p].ticketId
    <2>1. t \in Ticket /\ resalePools[p].sellerId \in User
      BY <1>4, PoolIsRecord DEF PoolRecord, adminCancelResalePool, Matched, Open
    <2>2. CASE Reverse(p)
      <3>1. /\ tickets'[t].owner = resalePools[p].sellerId
            /\ credentials'[t].userId = resalePools[p].sellerId
        BY <2>1, <2>2 DEF Reverse, TypeOK, Credential
      <3>2. \A s \in Ticket : s # t => tickets'[s] = tickets[s] /\ credentials'[s] = credentials[s]
        BY <2>1, <2>2 DEF Reverse, TypeOK
      <3>3. QED
        BY <1>2, <2>1, <3>1, <3>2
    <2>3. CASE tickets' = [tickets EXCEPT ![t].status = "OWNED"] /\ UNCHANGED credentials
      BY <1>1, <2>3 DEF TypeOK, TicketRecord
    <2>4. QED
      BY <1>4, <2>2, <2>3 DEF adminCancelResalePool
  <1>5. ASSUME NEW u \in User, NEW t \in Ticket, NEW p \in Pool, NEW price \in Prices,
               listForResale(u, t, p, price)
        PROVE  CredentialIsOwners'
    BY <1>1, <1>5 DEF listForResale, TypeOK, TicketRecord
  <1>6. ASSUME NEW u \in User, NEW t \in Ticket, PrepareCredential(u, t) PROVE CredentialIsOwners'
    BY <1>2, <1>6 DEF PrepareCredential, Ensured, TypeOK
  <1>7. ASSUME NEW u \in User, NEW t \in Ticket, NEW c \in Code, issueQr(u, t, c)
        PROVE  CredentialIsOwners'
    BY <1>2, <1>7 DEF issueQr, TypeOK
  <1>8. ASSUME NEW u \in User, NEW p \in Pool, cancelResaleListing(u, p) PROVE CredentialIsOwners'
    BY <1>1, <1>8 DEF cancelResaleListing, TypeOK, TicketRecord
  <1>9. ASSUME NEW c \in Code, verifyQr(c) PROVE CredentialIsOwners'
    <2>1. codes[c].ticketId \in Ticket
      BY <1>9, CodeIsRecord DEF verifyQr, Genuine, CodeRecord
    <2>2. QED
      BY <1>1, <1>9, <2>1 DEF verifyQr, Consume, TypeOK, TicketRecord, Credential
  <1>10. ASSUME NEW c \in Code, verifyGate(c) PROVE CredentialIsOwners'
    BY <1>1, <1>10 DEF verifyGate, TypeOK, TicketRecord
  <1>11. ASSUME NEW p \in Pool, drawPool(p) PROVE CredentialIsOwners'
    BY <1>3, <1>11, ConstantsAssumption DEF drawPool, Open, Complete
  <1>12. ASSUME UNCHANGED <<tickets, credentials>> PROVE CredentialIsOwners'
    BY <1>1, <1>12
  <1>13. ASSUME NEW u \in User, NEW p \in Pool, purchaseResale(u, p) PROVE CredentialIsOwners'
    BY <1>3, <1>12, <1>13 DEF purchaseResale, Open, joinPool
  <1>14. QED
    BY <1>4, <1>5, <1>6, <1>7, <1>8, <1>9, <1>10, <1>11, <1>12, <1>13
       DEF Next, vars, revokeMobileQr, issueMobileQr, joinPool, Lapse

-----------------------------------------------------------------------------
(* Pools *)

(* What is on offer stays so with its record while it is not written, the  *)
(* code on the ticket does not change, and a used code is left alone.      *)
LEMMA OnOfferStays ==
  ASSUME NEW t \in Ticket, tickets'[t] = tickets[t],
         tickets[t].status # "OWNED" => currentQr'[t] = currentQr[t],
         \A c \in Code : codes[c] # NULL /\ codes[c].status = "USED" => codes'[c] = codes[c],
         OnOffer(t)
  PROVE  OnOffer(t)'
  <1>1. CASE tickets[t].status = "IN_RESALE_POOL"
    BY <1>1 DEF OnOffer
  <1>2. CASE InByApp(t)
    <2>1. PICK c \in Code : /\ currentQr[t] = c /\ codes[c] # NULL
                           /\ codes[c].status = "USED" /\ codes[c].userId = tickets[t].owner
      BY <1>2 DEF InByApp
    <2>2. tickets[t].status = "ADMITTED"
      BY <1>2 DEF InByApp
    <2>3. codes'[c] = codes[c] /\ currentQr'[t] = c
      BY <2>1, <2>2
    <2>4. QED
      BY <2>1, <2>2, <2>3 DEF InByApp, OnOffer
  <1>3. QED
    BY <1>1, <1>2 DEF OnOffer

(* Steps that leave the pools as far as they matter here, owners, counts   *)
(* and what is on offer alone.                                             *)
LEMMA PoolsUntouched ==
  ASSUME TypeOK, PoolsOK,
         \A p \in Pool :
           /\ resalePools'[p] = NULL <=> resalePools[p] = NULL
           /\ resalePools'[p].ticketId = resalePools[p].ticketId
           /\ resalePools'[p].sellerId = resalePools[p].sellerId
           /\ resalePools'[p].status = resalePools[p].status
           /\ resalePools'[p].winnerId = resalePools[p].winnerId,
         \A t \in Ticket :
           /\ tickets'[t].owner = tickets[t].owner
           /\ tickets'[t].transferCount = tickets[t].transferCount
           /\ OnOffer(t) => OnOffer(t)'
  PROVE  PoolsOK'
  <1>1. \A t \in Ticket : PoolsOf(t)' = PoolsOf(t)
    BY DEF PoolsOf
  <1>2. \A p \in Pool : (Open(p)' <=> Open(p)) /\ (Matched(p)' <=> Matched(p))
    BY DEF Open, Matched
  <1>3. \A t \in Ticket : Reversed(t)' <=> Reversed(t)
    BY <1>1 DEF Reversed, PoolsOf
  <1>4. \A t \in Ticket : MatchedOf(t)' = MatchedOf(t)
    BY <1>1, <1>2 DEF MatchedOf, PoolsOf
  <1>5. ASSUME NEW t \in Ticket PROVE CountOK(t)'
    BY <1>3, <1>4 DEF CountOK, PoolsOK
  <1>6. ASSUME NEW p \in Pool PROVE PoolOK(p)'
    <2>1. PoolOK(p)
      BY DEF PoolsOK
    <2>2. ASSUME Open(p)' PROVE OfferOK(p, resalePools[p].ticketId)'
      <3> DEFINE t == resalePools[p].ticketId
      <3>1. Open(p) /\ t \in Ticket /\ resalePools'[p].ticketId = t
        BY <1>2, <2>2, PoolIsRecord DEF Open, PoolRecord
      <3>2. OfferOK(p, t)
        BY <2>1, <3>1 DEF PoolOK
      <3>3. \A q \in PoolsOf(t)' : Open(q)' => q \in PoolsOf(t) /\ Open(q)
        BY <1>1, <1>2, <3>1 DEF PoolsOf
      <3>4. QED
        BY <1>3, <3>1, <3>2, <3>3 DEF OfferOK
    <2>3. QED
      BY <1>2, <2>1, <2>2 DEF PoolOK
  <1>7. QED
    BY <1>5, <1>6 DEF PoolsOK

(* Steps that write one pool and its ticket leave the other tickets and    *)
(* their pools in order.                                                   *)
LEMMA PoolStep ==
  ASSUME TypeOK, TypeOK', PoolsOK,
         NEW t \in Ticket, NEW p \in Pool, NEW r \in PoolRecord,
         r.ticketId = t, resalePools[p] = NULL \/ resalePools[p].ticketId = t,
         resalePools' = [resalePools EXCEPT ![p] = r],
         \A s \in Ticket : s # t => tickets'[s] = tickets[s] /\ currentQr'[s] = currentQr[s],
         UNCHANGED codes,
         r.status = "MATCHED" => r.winnerId # NULL,
         CountOK(t)',
         \A q \in Pool : Open(q)' /\ resalePools'[q].ticketId = t => OfferOK(q, t)'
  PROVE  PoolsOK'
  <1>1. resalePools'[p] = r /\ \A q \in Pool : q # p => resalePools'[q] = resalePools[q]
    BY DEF TypeOK
  <1>2. r # NULL
    BY RecordAssumption
  <1>3. ASSUME NEW s \in Ticket, s # t PROVE PoolsOf(s)' = PoolsOf(s) /\ p \notin PoolsOf(s)
    BY <1>1, <1>2, <1>3 DEF PoolsOf
  <1>4. ASSUME NEW s \in Ticket, s # t PROVE Reversed(s)' <=> Reversed(s)
    BY <1>1, <1>3, <1>4 DEF Reversed, PoolsOf
  <1>5. ASSUME NEW s \in Ticket, s # t PROVE MatchedOf(s)' = MatchedOf(s)
    BY <1>1, <1>3, <1>5 DEF MatchedOf, PoolsOf, Matched
  <1>6. ASSUME NEW s \in Ticket PROVE CountOK(s)'
    <2>1. CASE s = t
      BY <2>1
    <2>2. CASE s # t
      BY <1>4, <1>5, <2>2 DEF CountOK, PoolsOK
    <2>3. QED
      BY <2>1, <2>2
  <1>7. ASSUME NEW q \in Pool, Open(q)' PROVE OfferOK(q, resalePools[q].ticketId)'
    <2>1. CASE resalePools'[q].ticketId = t
      BY <1>7, <2>1
    <2>2. CASE resalePools'[q].ticketId # t
      <3> DEFINE s == resalePools[q].ticketId
      <3>1. q # p /\ resalePools'[q] = resalePools[q]
        BY <1>1, <2>2
      <3>2. Open(q) /\ s \in Ticket /\ s # t /\ resalePools'[q].ticketId = s
        BY <1>7, <2>2, <3>1, PoolIsRecord DEF Open, PoolRecord
      <3>3. OfferOK(q, s)
        BY <3>2 DEF PoolsOK, PoolOK
      <3>4. \A o \in PoolsOf(s)' : Open(o)' => o \in PoolsOf(s) /\ Open(o)
        BY <1>1, <1>3, <3>2 DEF Open, PoolsOf
      <3>5. tickets'[s] = tickets[s] /\ (Reversed(s)' <=> Reversed(s))
        BY <1>4, <3>2
      <3>a. OnOffer(s) => OnOffer(s)'
        BY <3>2, <3>5, OnOfferStays
      <3>6. OfferOK(q, s)'
        BY <3>1, <3>3, <3>4, <3>5, <3>a DEF OfferOK
      <3>7. QED
        BY <3>2, <3>6
    <2>3. QED
      BY <2>1, <2>2
  <1>8. ASSUME NEW q \in Pool, Matched(q)' PROVE resalePools'[q].winnerId # NULL
    BY <1>1, <1>8 DEF Matched, PoolsOK, PoolOK
  <1>9. QED
    BY <1>6, <1>7, <1>8 DEF PoolsOK, PoolOK

(* A pool of t that nothing unwound yet stays so if p is open or new.      *)
LEMMA ReversedStays ==
  ASSUME TypeOK, NEW t \in Ticket, NEW p \in Pool, NEW r \in PoolRecord,
         resalePools[p] = NULL \/ resalePools[p].status # "CANCELED",
         resalePools' = [resalePools EXCEPT ![p] = r], Reversed(t)
  PROVE  Reversed(t)'
  <1>1. PICK q \in PoolsOf(t) : resalePools[q].status = "CANCELED" /\ resalePools[q].winnerId # NULL
    BY DEF Reversed
  <1>2. q \in Pool /\ q # p /\ resalePools[q] # NULL /\ resalePools[q].ticketId = t
    BY <1>1 DEF PoolsOf
  <1>3. resalePools'[q] = resalePools[q]
    BY <1>2 DEF TypeOK
  <1>4. QED
    BY <1>1, <1>2, <1>3 DEF Reversed, PoolsOf

LEMMA MatchedFinite == \A t \in Ticket : IsFiniteSet(MatchedOf(t))
  BY ConstantsAssumption, FS_Subset DEF MatchedOf, PoolsOf

LEMMA PoolsInit == Init => PoolsOK
  <1> SUFFICES ASSUME Init PROVE PoolsOK
    OBVIOUS
  <1>1. \A p \in Pool : ~ Open(p) /\ ~ Matched(p)
    BY DEF Init, Open, Matched
  <1>2. \A t \in Ticket : MatchedOf(t) = {} /\ tickets[t].transferCount = 0
    BY <1>1 DEF MatchedOf, PoolsOf, Init
  <1>3. Cardinality({}) = 0 /\ 0 <= MaxTransfers
    BY FS_EmptySet, ConstantsAssumption
  <1>4. \A t \in Ticket : CountOK(t)
    BY <1>2, <1>3 DEF CountOK
  <1>5. QED
    BY <1>1, <1>4 DEF PoolsOK, PoolOK

LEMMA ListStep ==
  ASSUME TypeOK, TypeOK', PoolsOK, NEW u \in User, NEW t \in Ticket, NEW p \in Pool,
         NEW price \in Prices, listForResale(u, t, p, price)
  PROVE  PoolsOK'
  <1> DEFINE r == [ticketId |-> t, sellerId |-> u, price |-> price, buyers |-> {},
                   status |-> "OPEN", winnerId |-> NULL]
  <1>1. r \in PoolRecord /\ r # NULL
    BY RecordAssumption DEF PoolRecord
  <1>2. resalePools' = [resalePools EXCEPT ![p] = r] /\ resalePools[p] = NULL
    BY DEF listForResale
  <1>3. resalePools'[p] = r /\ \A q \in Pool : q # p => resalePools'[q] = resalePools[q]
    BY <1>2 DEF TypeOK
  <1>4. \A s \in Ticket : s # t => tickets'[s] = tickets[s] /\ currentQr'[s] = currentQr[s]
    BY DEF listForResale, TypeOK
  <1>a. UNCHANGED codes
    BY DEF listForResale
  <1>5. /\ tickets[t].status = "OWNED" /\ tickets[t].transferCount < MaxTransfers
        /\ tickets'[t].owner = u /\ tickets'[t].status = "IN_RESALE_POOL"
        /\ tickets'[t].transferCount = tickets[t].transferCount
    BY DEF listForResale, Listable, TypeOK, TicketRecord
  <1>6. Reversed(t) => Reversed(t)'
    BY <1>1, <1>2, ReversedStays
  <1>7. MatchedOf(t)' = MatchedOf(t)
    BY <1>2, <1>3 DEF MatchedOf, PoolsOf, Matched
  <1>8. CountOK(t)'
    BY <1>5, <1>6, <1>7 DEF CountOK, PoolsOK
  <1>9. ASSUME NEW q \in Pool, Open(q)', resalePools'[q].ticketId = t PROVE OfferOK(q, t)'
    <2>1. ASSUME ~ Reversed(t), NEW o \in Pool, o # p PROVE ~ (Open(o)' /\ o \in PoolsOf(t)')
      <3>1. Open(o)' /\ o \in PoolsOf(t)' => Open(o) /\ resalePools[o].ticketId = t
        BY <1>3, <2>1 DEF Open, PoolsOf
      <3>2. QED
        BY <1>5, <2>1, <3>1 DEF PoolsOK, PoolOK, OfferOK, OnOffer, InByApp
    <2>2. q \in PoolsOf(t)'
      BY <1>9 DEF PoolsOf, Open
    <2>3. CASE ~ Reversed(t)
      <3>1. q = p /\ \A o \in PoolsOf(t)' : Open(o)' => o = p
        BY <1>9, <2>1, <2>2, <2>3 DEF PoolsOf
      <3>2. resalePools'[q].sellerId = u
        BY <1>3, <3>1
      <3>3. QED
        BY <1>5, <3>1, <3>2 DEF OfferOK, OnOffer
    <2>4. QED
      BY <1>6, <2>3 DEF OfferOK
  <1>10. r.ticketId = t /\ r.status = "OPEN"
    OBVIOUS
  <1>11. QED
    BY <1>1, <1>2, <1>4, <1>a, <1>8, <1>9, <1>10, PoolStep

(* Withdrawn by its seller or by the operator. *)
LEMMA WithdrawStep ==
  ASSUME TypeOK, TypeOK', PoolsOK, NEW p \in Pool, Open(p),
         tickets' = [tickets EXCEPT ![resalePools[p].ticketId].status = "OWNED"],
         resalePools' = [resalePools EXCEPT ![p].status = "CANCELED"],
         UNCHANGED <<codes, currentQr>>
  PROVE  PoolsOK'
  <1>1. resalePools[p] \in PoolRecord
    BY PoolIsRecord DEF Open
  <1>a. PICK t \in Ticket : t = resalePools[p].ticketId
    BY <1>1 DEF PoolRecord
  <1>b. PICK r \in PoolRecord : r = [resalePools[p] EXCEPT !.status = "CANCELED"]
    BY <1>1 DEF PoolRecord
  <1>2. r.ticketId = t /\ r.status = "CANCELED"
    BY <1>1, <1>a, <1>b DEF PoolRecord
  <1>3. resalePools' = [resalePools EXCEPT ![p] = r] /\ resalePools[p].status # "CANCELED"
    BY <1>b DEF Open
  <1>4. resalePools'[p] = r /\ \A q \in Pool : q # p => resalePools'[q] = resalePools[q]
    BY <1>3 DEF TypeOK
  <1>5. \A s \in Ticket : s # t => tickets'[s] = tickets[s] /\ currentQr'[s] = currentQr[s]
    BY <1>a DEF TypeOK
  <1>6. tickets'[t].transferCount = tickets[t].transferCount
    BY <1>a DEF TypeOK, TicketRecord
  <1>7. Reversed(t) => Reversed(t)'
    BY <1>2, <1>3, ReversedStays
  <1>8. MatchedOf(t)' = MatchedOf(t)
    BY <1>a, <1>2, <1>4 DEF MatchedOf, PoolsOf, Matched, Open
  <1>9. CountOK(t)'
    BY <1>2, <1>6, <1>7, <1>8 DEF CountOK, PoolsOK
  <1>10. ASSUME NEW q \in Pool, Open(q)', resalePools'[q].ticketId = t PROVE OfferOK(q, t)'
    <2>1. q # p
      BY <1>2, <1>4, <1>10 DEF Open
    <2>2. Open(q) /\ q \in PoolsOf(t)
      BY <1>4, <1>10, <2>1 DEF Open, PoolsOf
    <2>3. Reversed(t)
      BY <1>a, <2>1, <2>2 DEF PoolsOK, PoolOK, OfferOK
    <2>4. QED
      BY <1>7, <2>3 DEF OfferOK
  <1>11. QED
    BY <1>a, <1>2, <1>3, <1>5, <1>9, <1>10, PoolStep

LEMMA CompleteStep ==
  ASSUME TypeOK, TypeOK', PoolsOK, NEW p \in Pool, NEW u \in User, Open(p), Complete(p, u)
  PROVE  PoolsOK'
  <1>1. resalePools[p] \in PoolRecord
    BY PoolIsRecord DEF Open
  <1>a. PICK t \in Ticket : t = resalePools[p].ticketId
    BY <1>1 DEF PoolRecord
  <1>b. PICK r \in PoolRecord :
          r = [resalePools[p] EXCEPT !.buyers = @ \union {u}, !.status = "MATCHED", !.winnerId = u]
    BY <1>1 DEF PoolRecord
  <1>2. r.ticketId = t /\ r.status = "MATCHED" /\ r.winnerId = u
    BY <1>1, <1>a, <1>b DEF PoolRecord
  <1>3. resalePools' = [resalePools EXCEPT ![p] = r] /\ resalePools[p].status # "CANCELED"
    BY <1>b DEF Open, Complete
  <1>4. resalePools'[p] = r /\ \A q \in Pool : q # p => resalePools'[q] = resalePools[q]
    BY <1>3 DEF TypeOK
  <1>5. HandOver(t, u, tickets[t].transferCount + 1)
    BY <1>a DEF Complete
  <1>6. /\ \A s \in Ticket : s # t => tickets'[s] = tickets[s] /\ currentQr'[s] = currentQr[s]
        /\ tickets'[t].transferCount = tickets[t].transferCount + 1
        /\ UNCHANGED codes
    BY <1>2, <1>5 DEF HandOver, TypeOK, Complete
  <1>7. Reversed(t) => Reversed(t)'
    BY <1>2, <1>3, ReversedStays
  <1>8. p \notin MatchedOf(t) /\ MatchedOf(t)' = MatchedOf(t) \union {p}
    <2>1. p \notin MatchedOf(t)
      BY DEF MatchedOf, Matched, Open
    <2>2. p \in MatchedOf(t)'
      BY <1>2, <1>4, RecordAssumption DEF MatchedOf, PoolsOf, Matched
    <2>3. \A q \in Pool : q # p => (q \in MatchedOf(t)' <=> q \in MatchedOf(t))
      BY <1>4 DEF MatchedOf, PoolsOf, Matched
    <2>4. QED
      BY <2>1, <2>2, <2>3 DEF MatchedOf, PoolsOf
  <1>9. Cardinality(MatchedOf(t)') = Cardinality(MatchedOf(t)) + 1
    BY <1>2, <1>8, MatchedFinite, FS_AddElement
  <1>10. CountOK(t)'
    <2>1. OfferOK(p, t) /\ CountOK(t)
      BY <1>a DEF PoolsOK, PoolOK
    <2>2. tickets'[t].transferCount = Cardinality(MatchedOf(t)')
      BY <1>6, <1>9, <2>1 DEF CountOK
    <2>3. tickets'[t].transferCount <= MaxTransfers \/ Reversed(t)'
      <3>1. tickets[t].transferCount \in Nat /\ MaxTransfers \in Nat
        BY <1>2, ConstantsAssumption DEF TypeOK, TicketRecord
      <3>2. QED
        BY <1>6, <1>7, <2>1, <3>1 DEF OfferOK
    <2>4. QED
      BY <2>2, <2>3 DEF CountOK
  <1>11. ASSUME NEW q \in Pool, Open(q)', resalePools'[q].ticketId = t PROVE OfferOK(q, t)'
    <2>1. q # p
      BY <1>2, <1>4, <1>11 DEF Open
    <2>2. Open(q) /\ q \in PoolsOf(t)
      BY <1>4, <1>11, <2>1 DEF Open, PoolsOf
    <2>3. Reversed(t)
      BY <1>a, <2>1, <2>2 DEF PoolsOK, PoolOK, OfferOK
    <2>4. QED
      BY <1>7, <2>3 DEF OfferOK
  <1>12. r.winnerId # NULL
    BY <1>2, ConstantsAssumption
  <1>13. QED
    BY <1>a, <1>2, <1>3, <1>6, <1>10, <1>11, <1>12, PoolStep

LEMMA UnwindStep ==
  ASSUME TypeOK, TypeOK', PoolsOK, NEW p \in Pool, Matched(p), Reverse(p),
         resalePools' = [resalePools EXCEPT ![p].status = "CANCELED"], UNCHANGED codes
  PROVE  PoolsOK'
  <1>1. resalePools[p] \in PoolRecord /\ resalePools[p].winnerId # NULL
    BY PoolIsRecord DEF Matched, PoolsOK, PoolOK
  <1>a. PICK t \in Ticket : t = resalePools[p].ticketId
    BY <1>1 DEF PoolRecord
  <1>b. PICK r \in PoolRecord : r = [resalePools[p] EXCEPT !.status = "CANCELED"]
    BY <1>1 DEF PoolRecord
  <1>2. r.ticketId = t /\ r.status = "CANCELED" /\ r.winnerId # NULL
    BY <1>1, <1>a, <1>b DEF PoolRecord
  <1>3. resalePools' = [resalePools EXCEPT ![p] = r]
    BY <1>b
  <1>4. resalePools'[p] = r /\ \A q \in Pool : q # p => resalePools'[q] = resalePools[q]
    BY <1>3 DEF TypeOK
  <1>5. Reversed(t)'
    <2>1. p \in PoolsOf(t)'
      BY <1>2, <1>4, RecordAssumption DEF PoolsOf
    <2>2. QED
      BY <1>2, <1>4, <2>1 DEF Reversed
  <1>6. p \in MatchedOf(t) /\ MatchedOf(t)' = MatchedOf(t) \ {p}
    <2>1. p \in MatchedOf(t)
      BY <1>a DEF MatchedOf, PoolsOf, Matched
    <2>2. p \notin MatchedOf(t)'
      BY <1>2, <1>4 DEF MatchedOf, Matched
    <2>3. \A q \in Pool : q # p => (q \in MatchedOf(t)' <=> q \in MatchedOf(t))
      BY <1>4 DEF MatchedOf, PoolsOf, Matched
    <2>4. QED
      BY <2>1, <2>2, <2>3 DEF MatchedOf, PoolsOf
  <1>7. Cardinality(MatchedOf(t)') = Cardinality(MatchedOf(t)) - 1
    BY <1>2, <1>6, MatchedFinite, FS_RemoveElement
  <1>8. tickets[t].transferCount = Cardinality(MatchedOf(t))
    BY <1>2 DEF PoolsOK, CountOK
  <1>9. tickets[t].transferCount # 0 /\ tickets[t].transferCount \in Nat
    BY <1>2, <1>6, <1>8, MatchedFinite, FS_EmptySet DEF TypeOK, TicketRecord
  <1>10. /\ \A s \in Ticket : s # t => tickets'[s] = tickets[s] /\ currentQr'[s] = currentQr[s]
         /\ tickets'[t].transferCount = tickets[t].transferCount - 1
    BY <1>a, <1>9 DEF Reverse, TypeOK
  <1>11. CountOK(t)'
    BY <1>5, <1>7, <1>8, <1>10 DEF CountOK
  <1>12. \A q \in Pool : OfferOK(q, t)'
    BY <1>5 DEF OfferOK
  <1>13. QED
    BY <1>a, <1>2, <1>3, <1>10, <1>11, <1>12, PoolStep

LEMMA PoolsNext == TypeOK /\ PoolsOK /\ [Next]_vars => PoolsOK'
  <1> SUFFICES ASSUME TypeOK, PoolsOK, [Next]_vars PROVE PoolsOK'
    OBVIOUS
  <1>0. TypeOK'
    BY TypeNext
  <1> USE DEF resale, entries
  <1>1. ASSUME UNCHANGED <<tickets, resalePools>>,
               \A t \in Ticket : tickets[t].status # "OWNED" => currentQr'[t] = currentQr[t],
               \A c \in Code : codes[c] # NULL /\ codes[c].status = "USED" => codes'[c] = codes[c]
        PROVE  PoolsOK'
    <2>1. \A t \in Ticket : OnOffer(t) => OnOffer(t)'
      BY <1>1, OnOfferStays
    <2>2. QED
      BY <1>1, <2>1, PoolsUntouched
  <1>2. ASSUME NEW t \in Ticket, tickets' = [tickets EXCEPT ![t].status = "ADMITTED"],
               UNCHANGED <<resalePools, currentQr>>, OnOffer(t) => OnOffer(t)',
               \A c \in Code : codes[c] # NULL /\ codes[c].status = "USED" => codes'[c] = codes[c]
        PROVE  PoolsOK'
    <2>1. \A s \in Ticket : /\ tickets'[s].owner = tickets[s].owner
                            /\ tickets'[s].transferCount = tickets[s].transferCount
      BY <1>2 DEF TypeOK, TicketRecord
    <2>2. \A s \in Ticket : s # t => tickets'[s] = tickets[s]
      BY <1>2 DEF TypeOK
    <2>3. \A s \in Ticket : OnOffer(s) => OnOffer(s)'
      BY <1>2, <2>2, OnOfferStays
    <2>4. QED
      BY <1>2, <2>1, <2>3, PoolsUntouched
  <1>3. ASSUME NEW u \in User, NEW p \in Pool, joinPool(u, p) PROVE PoolsOK'
    <2>1. resalePools[p] \in PoolRecord /\ resalePools'[p] \in PoolRecord
      BY <1>3, PoolIsRecord DEF joinPool, Open, TypeOK, PoolRecord
    <2>2. /\ resalePools'[p].ticketId = resalePools[p].ticketId
          /\ resalePools'[p].sellerId = resalePools[p].sellerId
          /\ resalePools'[p].status = resalePools[p].status
          /\ resalePools'[p].winnerId = resalePools[p].winnerId
      BY <1>3, <2>1 DEF joinPool, TypeOK, PoolRecord
    <2>3. \A q \in Pool : q # p => resalePools'[q] = resalePools[q]
      BY <1>3 DEF joinPool, TypeOK
    <2>4. /\ resalePools[p] # NULL /\ resalePools'[p] # NULL
          /\ UNCHANGED <<tickets, codes, currentQr>>
      BY <1>3, <2>1, RecordAssumption DEF joinPool
    <2>5. \A t \in Ticket : OnOffer(t) => OnOffer(t)'
      BY <2>4, OnOfferStays
    <2>6. QED
      BY <2>2, <2>3, <2>4, <2>5, PoolsUntouched
  <1>4. ASSUME NEW p \in Pool, drawPool(p) PROVE PoolsOK'
    BY <1>0, <1>4, CompleteStep, ConstantsAssumption DEF drawPool, Complete
  <1>5. ASSUME NEW u \in User, NEW p \in Pool, purchaseResale(u, p) PROVE PoolsOK'
    BY <1>0, <1>3, <1>5, CompleteStep DEF purchaseResale
  <1>6. ASSUME NEW u \in User, NEW p \in Pool, cancelResaleListing(u, p) PROVE PoolsOK'
    BY <1>0, <1>6, WithdrawStep DEF cancelResaleListing
  <1>7. ASSUME NEW p \in Pool, adminCancelResalePool(p) PROVE PoolsOK'
    BY <1>0, <1>7, WithdrawStep, UnwindStep DEF adminCancelResalePool
  <1>8. ASSUME NEW u \in User, NEW t \in Ticket, NEW p \in Pool, NEW price \in Prices,
               listForResale(u, t, p, price)
        PROVE  PoolsOK'
    BY <1>0, <1>8, ListStep
  <1>9. ASSUME NEW c \in Code, verifyQr(c) PROVE PoolsOK'
    <2>1. PICK t \in Ticket : t = codes[c].ticketId
      BY <1>9, CodeIsRecord DEF verifyQr, Genuine, CodeRecord
    <2>2. codes[c] \in CodeRecord /\ codes[c].status # "USED"
      BY <1>9, CodeIsRecord DEF verifyQr, Genuine
    <2>3. \A d \in Code : d # c => codes'[d] = codes[d]
      BY <1>9 DEF verifyQr, Consume, TypeOK
    <2>4. OnOffer(t)'
      <3>1. codes'[c] = [codes[c] EXCEPT !.status = "USED"] /\ currentQr'[t] = c
        BY <1>9, <2>1 DEF verifyQr, Consume, Genuine, TypeOK
      <3>2. codes'[c] \in CodeRecord /\ codes'[c].status = "USED"
            /\ codes'[c].userId = codes[c].userId
        BY <2>2, <3>1 DEF CodeRecord
      <3>3. tickets'[t].status = "ADMITTED" /\ tickets'[t].owner = tickets[t].owner
        BY <1>9, <2>1 DEF verifyQr, TypeOK, TicketRecord
      <3>4. tickets[t].owner = codes[c].userId
        BY <1>9, <2>1 DEF verifyQr, Genuine
      <3>5. QED
        BY <3>1, <3>2, <3>3, <3>4, RecordAssumption DEF OnOffer, InByApp
    <2>5. QED
      BY <1>2, <1>9, <2>1, <2>2, <2>3, <2>4 DEF verifyQr
  <1>10. ASSUME NEW c \in Code, verifyGate(c) PROVE PoolsOK'
    <2>1. PICK t \in Ticket : t = codes[c].ticketId
      BY <1>10, CodeIsRecord DEF verifyGate, CodeRecord
    <2>2. codes[c].status # "USED" /\ \A d \in Code : d # c => codes'[d] = codes[d]
      BY <1>10 DEF verifyGate, ValidMobile, TypeOK
    <2>3. ~ OnOffer(t)
      BY <1>10, <2>1 DEF verifyGate, Admissible, OnOffer, InByApp
    <2>4. QED
      BY <1>2, <1>10, <2>1, <2>2, <2>3 DEF verifyGate
  <1>11. ASSUME NEW u \in User, NEW t \in Ticket, revokeMobileQr(u, t) PROVE PoolsOK'
    BY <1>1, <1>11 DEF revokeMobileQr, ValidMobile, TypeOK
  <1>12. ASSUME NEW u \in User, NEW t \in Ticket, NEW c \in Code,
                issueQr(u, t, c) \/ issueMobileQr(u, t, c)
         PROVE  PoolsOK'
    <2>1. /\ UNCHANGED <<tickets, resalePools>>
          /\ \A s \in Ticket : tickets[s].status # "OWNED" => currentQr'[s] = currentQr[s]
      BY <1>12 DEF issueQr, issueMobileQr, TypeOK
    <2>2. \A d \in Code : codes[d] # NULL /\ codes[d].status = "USED" => codes'[d] = codes[d]
      BY <1>12 DEF issueQr, issueMobileQr, ValidMobile, TypeOK
    <2>3. QED
      BY <1>1, <2>1, <2>2
  <1>13. ASSUME NEW c \in Code, Lapse(c) PROVE PoolsOK'
    BY <1>1, <1>13 DEF Lapse, TypeOK
  <1>14. ASSUME UNCHANGED <<tickets, resalePools, currentQr, codes>> PROVE PoolsOK'
    BY <1>1, <1>14
  <1>15. QED
    BY <1>3, <1>4, <1>5, <1>6, <1>7, <1>8, <1>9, <1>10, <1>11, <1>12, <1>13, <1>14
       DEF Next, vars, PrepareCredential

-----------------------------------------------------------------------------
(* Theorems *)

LEMMA IInvInit == Init => IInv
  <1>1. Init => CredentialIsOwners
    BY DEF Init, CredentialIsOwners
  <1>2. Init => EntriesConsume
    BY DEF Init, EntriesConsume
  <1>3. Init => CodesOK
    <2>1. Init => bygone = {} /\ \A t \in Ticket : currentQr[t] = NULL
      BY DEF Init
    <2>2. QED
      BY <2>1, ConstantsAssumption DEF CodesOK
  <1>4. QED
    BY <1>1, <1>2, <1>3, TypeInit, PoolsInit DEF IInv

LEMMA IInvNext == IInv /\ [Next]_vars => IInv'
  BY TypeNext, CredentialsNext, EntriesNext, CodesNext, PoolsNext DEF IInv

(* The inductive invariant: types, credentials in their owners' names,     *)
(* used codes, dead codes, and pools in order, through every handler of resale         *)
(* (commerce.js, admin.js) and admission (admission-qr.js,                 *)
(* mobile-ticket-qr.js).                                                   *)
THEOREM SpecIInv == Spec => []IInv
  BY IInvInit, IInvNext, PTL DEF Spec

(* What the records hold stays what it is declared to be, also while a     *)
(* listing, a sale, its reversal and a scan follow each other.             *)
THEOREM SpecTypeOK == Spec => []TypeOK
  BY SpecIInv, PTL DEF IInv

(* The right of admission is the owner's: ensureAdmissionCredential and    *)
(* the sale and its reversal keep it with the ticket.                      *)
THEOREM SpecCredentialIsOwners == Spec => []CredentialIsOwners
  BY SpecIInv, PTL DEF IInv

(* No code is admitted twice, by verifyQr or by verifyGate.                *)
THEOREM SpecOneEntryPerCode == Spec => []OneEntryPerCode
  <1>1. IInv => OneEntryPerCode
    BY DEF IInv, EntriesConsume, OneEntryPerCode
  <1>2. QED
    BY <1>1, SpecIInv, PTL

(* What openResalePool finds is still there for completeResaleMatch, which *)
(* checks neither the owner nor the status of the ticket again: listed as  *)
(* before, its seller's and alone, or else a ticket its seller went in     *)
(* with by a code of the app (verifyQr looks at no status, and the sale    *)
(* then is of a used ticket), or one of which the operator unwound a sale. *)
THEOREM SpecOffersStand == Spec => []OffersStand
  <1>1. IInv => OffersStand
    BY DEF IInv, PoolsOK, PoolOK, OfferOK, OnOffer, OffersStand
  <1>2. QED
    BY <1>1, SpecIInv, PTL

(* The limit of transfers, checked when a ticket is listed, holds of the   *)
(* sales that follow.                                                      *)
THEOREM SpecTransfersCounted == Spec => []TransfersCounted
  <1>1. IInv => TransfersCounted
    BY DEF IInv, PoolsOK, CountOK, MatchedOf, TransfersCounted
  <1>2. QED
    BY <1>1, SpecIInv, PTL

(* verifyQr never lets anybody in with a code that was issued before the   *)
(* ticket changed hands, also after it has come back to its former owner:  *)
(* every sale and reversal clears the ticket's current code, and no code   *)
(* becomes current a second time.                                          *)
THEOREM SpecSoldCodesAreDead == Spec => SoldCodesAreDead
  <1> DEFINE Dead == \A c \in bygone : admitted'[c] = admitted[c]
  <1>1. ASSUME IInv, [Next]_vars PROVE [Dead]_vars
    <2> USE DEF entries
    <2>1. ASSUME UNCHANGED admitted PROVE Dead
      BY <2>1
    <2>2. ASSUME NEW c \in Code, c \notin bygone, admitted' = [admitted EXCEPT ![c] = @ + 1]
          PROVE  Dead
      BY <1>1, <2>2 DEF IInv, TypeOK
    <2>3. ASSUME NEW c \in Code, verifyQr(c) PROVE Dead
      <3>1. c \notin bygone
        BY <1>1, <2>3 DEF verifyQr, Genuine, IInv, CodesOK
      <3>2. QED
        BY <2>2, <2>3, <3>1 DEF verifyQr
    <2>4. ASSUME NEW c \in Code, verifyGate(c) PROVE Dead
      <3>1. c \notin bygone
        BY <1>1, <2>4 DEF verifyGate, ValidMobile, IInv, CodesOK
      <3>2. QED
        BY <2>2, <2>4, <3>1 DEF verifyGate
    <2>5. ASSUME NEW p \in Pool, drawPool(p) \/ \E u \in User : purchaseResale(u, p) PROVE Dead
      BY <2>1, <2>5 DEF drawPool, purchaseResale, Complete, joinPool
    <2>6. QED
      BY <1>1, <2>1, <2>3, <2>4, <2>5, ZenonT(60)
         DEF Next, vars, listForResale, PrepareCredential, revokeMobileQr, issueQr,
             issueMobileQr, joinPool, cancelResaleListing, adminCancelResalePool, Lapse
  <1>2. QED
    BY <1>1, SpecIInv, PTL DEF Spec, SoldCodesAreDead

-----------------------------------------------------------------------------
(* Money.  P is resalePools, or what it is after a step.                   *)

IsMatched(P, p) == P[p] # NULL /\ P[p].status = "MATCHED"

Sales(P, u) == {p \in Pool : IsMatched(P, p) /\ P[p].sellerId = u}
Buys(P, u) == {p \in Pool : IsMatched(P, p) /\ P[p].winnerId = u}

PriceOf(P, S) == [p \in S |-> P[p].price]
CostOf(P, S) == [p \in S |-> P[p].price + Fee(P[p].price)]

Settled(P, earned, spent) ==
  \A u \in User : /\ earned[u] = Total(PriceOf(P, Sales(P, u)), Sales(P, u))
                  /\ spent[u] = Total(CostOf(P, Buys(P, u)), Buys(P, u))

PoolFunction == [Pool -> PoolRecord \union {NULL}]

LEMMA SumOneMore ==
  ASSUME NEW S, IsFiniteSet(S), NEW x, x \notin S, NEW f, NEW g,
         \A s \in S : f[s] = g[s] /\ f[s] \in Int, g[x] \in Int
  PROVE  Total(g, S \union {x}) = Total(f, S) + g[x]
  <1>1. Total(f, S) = Total(g, S)
    BY TotalOfEquals
  <1>2. \A s \in S \union {x} : g[s] \in Int
    OBVIOUS
  <1>3. Total(g, S \union {x}) = Total(g, S) + g[x]
    BY <1>2, TotalWith
  <1>4. QED
    BY <1>1, <1>3

LEMMA SumOneLess ==
  ASSUME NEW S, IsFiniteSet(S), NEW x \in S, NEW f, NEW g,
         \A s \in S : f[s] \in Int, \A s \in S \ {x} : f[s] = g[s]
  PROVE  Total(g, S \ {x}) = Total(f, S) - f[x]
  <1>1. IsFiniteSet(S \ {x})
    BY FS_Subset
  <1>2. Total(f, S) = f[x] + Total(f, S \ {x})
    BY TotalWithout
  <1>3. Total(f, S \ {x}) = Total(g, S \ {x})
    BY <1>1, TotalOfEquals
  <1>4. Total(f, S \ {x}) \in Int /\ f[x] \in Int
    BY <1>1, TotalType
  <1>5. QED
    BY <1>2, <1>3, <1>4

LEMMA MatchedFields ==
  ASSUME NEW P \in PoolFunction, NEW p \in Pool, IsMatched(P, p)
  PROVE  /\ P[p] \in PoolRecord /\ P[p].price \in Int
         /\ P[p].price + Fee(P[p].price) \in Int
  <1>1. P[p] \in PoolRecord
    BY DEF PoolFunction, IsMatched
  <1>2. P[p].price \in Prices
    BY <1>1 DEF PoolRecord
  <1>3. P[p].price \in Int /\ Fee(P[p].price) \in Int
    BY <1>2, FeeType
  <1>4. QED
    BY <1>1, <1>3

LEMMA SalesFinite ==
  ASSUME NEW P, NEW u PROVE IsFiniteSet(Sales(P, u)) /\ IsFiniteSet(Buys(P, u))
  BY ConstantsAssumption, FS_Subset DEF Sales, Buys

(* No pool is matched or unwound. *)
LEMMA StaysSettled ==
  ASSUME NEW P, NEW Q, NEW earned, NEW spent, Settled(P, earned, spent),
         \A p \in Pool : IsMatched(P, p) \/ IsMatched(Q, p) => P[p] = Q[p]
  PROVE  Settled(Q, earned, spent)
  <1>1. \A p \in Pool : IsMatched(P, p) <=> IsMatched(Q, p)
    BY DEF IsMatched
  <1> SUFFICES ASSUME NEW u \in User
               PROVE  /\ earned[u] = Total(PriceOf(Q, Sales(Q, u)), Sales(Q, u))
                      /\ spent[u] = Total(CostOf(Q, Buys(Q, u)), Buys(Q, u))
    BY DEF Settled
  <1>2. Sales(Q, u) = Sales(P, u) /\ Buys(Q, u) = Buys(P, u)
    BY <1>1 DEF Sales, Buys
  <1>3. PriceOf(Q, Sales(P, u)) = PriceOf(P, Sales(P, u))
    BY DEF PriceOf, Sales
  <1>4. CostOf(Q, Buys(P, u)) = CostOf(P, Buys(P, u))
    BY DEF CostOf, Buys
  <1>5. QED
    BY <1>2, <1>3, <1>4 DEF Settled

(* P and Q differ in the pool p, which is matched in Q only. *)
MatchedSince(P, Q, p) ==
  /\ ~IsMatched(P, p) /\ IsMatched(Q, p)
  /\ \A q \in Pool : q # p => Q[q] = P[q]

(* One more pool among the sales of its seller and the buys of its winner. *)
LEMMA MatchedOnceMore ==
  ASSUME NEW P \in PoolFunction, NEW Q \in PoolFunction, NEW p \in Pool, MatchedSince(P, Q, p),
         NEW u \in User
  PROVE  /\ Total(PriceOf(Q, Sales(Q, u)), Sales(Q, u)) =
              Total(PriceOf(P, Sales(P, u)), Sales(P, u))
                + (IF u = Q[p].sellerId THEN Q[p].price ELSE 0)
         /\ Total(CostOf(Q, Buys(Q, u)), Buys(Q, u)) =
              Total(CostOf(P, Buys(P, u)), Buys(P, u))
                + (IF u = Q[p].winnerId THEN Q[p].price + Fee(Q[p].price) ELSE 0)
         /\ Total(PriceOf(P, Sales(P, u)), Sales(P, u)) \in Int
         /\ Total(CostOf(P, Buys(P, u)), Buys(P, u)) \in Int
  <1> DEFINE S == Sales(P, u)  B == Buys(P, u)
  <1>1. \A q \in Pool : IsMatched(Q, q) <=> q = p \/ IsMatched(P, q)
    BY DEF MatchedSince, IsMatched
  <1>2. p \notin S /\ p \notin B /\ S \subseteq Pool /\ B \subseteq Pool
    BY DEF MatchedSince, Sales, Buys
  <1>3. /\ Sales(Q, u) = IF u = Q[p].sellerId THEN S \union {p} ELSE S
        /\ Buys(Q, u) = IF u = Q[p].winnerId THEN B \union {p} ELSE B
    BY <1>1 DEF MatchedSince, Sales, Buys
  <1>4. \A q \in S \union B : Q[q] = P[q]
    BY <1>2 DEF MatchedSince
  <1>5. /\ \A q \in S : PriceOf(P, S)[q] = P[q].price /\ P[q].price \in Int
        /\ \A q \in B : /\ CostOf(P, B)[q] = P[q].price + Fee(P[q].price)
                       /\ P[q].price + Fee(P[q].price) \in Int
    BY MatchedFields DEF PriceOf, CostOf, Sales, Buys
  <1>6. Q[p].price \in Int /\ Q[p].price + Fee(Q[p].price) \in Int
    BY MatchedFields DEF MatchedSince
  <1>7. IsFiniteSet(S) /\ IsFiniteSet(B)
    BY SalesFinite
  <1>8. Total(PriceOf(P, S), S) \in Int /\ Total(CostOf(P, B), B) \in Int
    <2>1. \A q \in S : PriceOf(P, S)[q] \in Int
      BY <1>5
    <2>2. \A q \in B : CostOf(P, B)[q] \in Int
      BY <1>5
    <2>3. QED
      BY <1>7, <2>1, <2>2, TotalType
  <1> HIDE DEF S, B
  <1>9. Total(PriceOf(Q, Sales(Q, u)), Sales(Q, u)) =
          Total(PriceOf(P, S), S) + (IF u = Q[p].sellerId THEN Q[p].price ELSE 0)
    <2>1. CASE u = Q[p].sellerId
      <3> DEFINE g == PriceOf(Q, S \union {p})
      <3>1. /\ g[p] = Q[p].price
            /\ \A q \in S : PriceOf(P, S)[q] = g[q] /\ PriceOf(P, S)[q] \in Int
        BY <1>4, <1>5 DEF PriceOf
      <3> HIDE DEF g
      <3>2. PICK f : f = PriceOf(P, S)
        OBVIOUS
      <3>3. /\ IsFiniteSet(S) /\ p \notin S /\ g[p] \in Int
            /\ \A q \in S : f[q] = g[q] /\ f[q] \in Int
        BY <1>2, <1>6, <1>7, <3>1, <3>2
      <3>4. Total(g, S \union {p}) = Total(f, S) + g[p]
        BY <3>3, SumOneMore
      <3>5. QED
        BY <1>3, <2>1, <3>1, <3>2, <3>4 DEF g
    <2>2. CASE u # Q[p].sellerId
      <3>1. PriceOf(Q, S) = PriceOf(P, S)
        BY <1>4 DEF PriceOf
      <3>2. QED
        BY <1>3, <1>8, <2>2, <3>1
    <2>3. QED
      BY <2>1, <2>2
  <1>10. Total(CostOf(Q, Buys(Q, u)), Buys(Q, u)) =
           Total(CostOf(P, B), B) + (IF u = Q[p].winnerId THEN Q[p].price + Fee(Q[p].price) ELSE 0)
    <2>1. CASE u = Q[p].winnerId
      <3> DEFINE g == CostOf(Q, B \union {p})
      <3>1. /\ g[p] = Q[p].price + Fee(Q[p].price)
            /\ \A q \in B : CostOf(P, B)[q] = g[q] /\ CostOf(P, B)[q] \in Int
        BY <1>4, <1>5 DEF CostOf
      <3> HIDE DEF g
      <3>2. PICK f : f = CostOf(P, B)
        OBVIOUS
      <3>3. /\ IsFiniteSet(B) /\ p \notin B /\ g[p] \in Int
            /\ \A q \in B : f[q] = g[q] /\ f[q] \in Int
        BY <1>2, <1>6, <1>7, <3>1, <3>2
      <3>4. Total(g, B \union {p}) = Total(f, B) + g[p]
        BY <3>3, SumOneMore
      <3>5. QED
        BY <1>3, <2>1, <3>1, <3>2, <3>4 DEF g
    <2>2. CASE u # Q[p].winnerId
      <3>1. CostOf(Q, B) = CostOf(P, B)
        BY <1>4 DEF CostOf
      <3>2. QED
        BY <1>3, <1>8, <2>2, <3>1
    <2>3. QED
      BY <2>1, <2>2
  <1>11. QED
    BY <1>8, <1>9, <1>10 DEF S, B

LEMMA SettledByMatch ==
  ASSUME NEW P \in PoolFunction, NEW Q \in PoolFunction, NEW p \in Pool, MatchedSince(P, Q, p),
         NEW earned \in [User -> Int], NEW spent \in [User -> Int], Settled(P, earned, spent)
  PROVE  Settled(Q, [earned EXCEPT ![Q[p].sellerId] = @ + Q[p].price],
                    [spent EXCEPT ![Q[p].winnerId] = @ + (Q[p].price + Fee(Q[p].price))])
  <1> DEFINE now == [earned EXCEPT ![Q[p].sellerId] = @ + Q[p].price]
             out == [spent EXCEPT ![Q[p].winnerId] = @ + (Q[p].price + Fee(Q[p].price))]
  <1> SUFFICES ASSUME NEW u \in User
               PROVE  /\ now[u] = Total(PriceOf(Q, Sales(Q, u)), Sales(Q, u))
                      /\ out[u] = Total(CostOf(Q, Buys(Q, u)), Buys(Q, u))
    BY DEF Settled
  <1>1. /\ earned[u] = Total(PriceOf(P, Sales(P, u)), Sales(P, u)) /\ earned[u] \in Int
        /\ spent[u] = Total(CostOf(P, Buys(P, u)), Buys(P, u)) /\ spent[u] \in Int
    BY DEF Settled
  <1>2. /\ now[u] = earned[u] + (IF u = Q[p].sellerId THEN Q[p].price ELSE 0)
        /\ out[u] = spent[u] + (IF u = Q[p].winnerId THEN Q[p].price + Fee(Q[p].price) ELSE 0)
    BY <1>1
  <1> HIDE DEF now, out
  <1>3. QED
    BY <1>1, <1>2, MatchedOnceMore

LEMMA SettledByReversal ==
  ASSUME NEW P \in PoolFunction, NEW Q \in PoolFunction, NEW p \in Pool, MatchedSince(Q, P, p),
         NEW earned \in [User -> Int], NEW spent \in [User -> Int], Settled(P, earned, spent)
  PROVE  Settled(Q, [earned EXCEPT ![P[p].sellerId] = @ - P[p].price],
                    [spent EXCEPT ![P[p].winnerId] = @ - (P[p].price + Fee(P[p].price))])
  <1> DEFINE now == [earned EXCEPT ![P[p].sellerId] = @ - P[p].price]
             out == [spent EXCEPT ![P[p].winnerId] = @ - (P[p].price + Fee(P[p].price))]
  <1> SUFFICES ASSUME NEW u \in User
               PROVE  /\ now[u] = Total(PriceOf(Q, Sales(Q, u)), Sales(Q, u))
                      /\ out[u] = Total(CostOf(Q, Buys(Q, u)), Buys(Q, u))
    BY DEF Settled
  <1>1. /\ earned[u] = Total(PriceOf(P, Sales(P, u)), Sales(P, u)) /\ earned[u] \in Int
        /\ spent[u] = Total(CostOf(P, Buys(P, u)), Buys(P, u)) /\ spent[u] \in Int
    BY DEF Settled
  <1>2. /\ now[u] = earned[u] - (IF u = P[p].sellerId THEN P[p].price ELSE 0)
        /\ out[u] = spent[u] - (IF u = P[p].winnerId THEN P[p].price + Fee(P[p].price) ELSE 0)
    BY <1>1
  <1>3. P[p].price \in Int /\ P[p].price + Fee(P[p].price) \in Int
    BY MatchedFields DEF MatchedSince
  <1> HIDE DEF now, out
  <1>4. QED
    BY <1>1, <1>2, <1>3, MatchedOnceMore

SettledNow == Settled(resalePools, balance, paid)

LEMMA SettledNext == IInv /\ SettledNow /\ [Next]_vars => SettledNow'
  <1> SUFFICES ASSUME IInv, SettledNow, [Next]_vars PROVE SettledNow'
    OBVIOUS
  <1> USE DEF resale, entries
  <1>1. /\ resalePools \in PoolFunction /\ resalePools' \in PoolFunction
        /\ balance \in [User -> Int] /\ paid \in [User -> Int]
    BY TypeNext DEF IInv, TypeOK, PoolFunction
  <1>2. ASSUME UNCHANGED <<balance, paid>>,
               \A p \in Pool : IsMatched(resalePools, p) \/ IsMatched(resalePools', p) =>
                 resalePools[p] = resalePools'[p]
        PROVE  SettledNow'
    BY <1>2, StaysSettled DEF SettledNow
  <1>3. ASSUME NEW p \in Pool, NEW r, resalePools' = [resalePools EXCEPT ![p] = r],
               ~IsMatched(resalePools, p), r = NULL \/ r.status # "MATCHED",
               UNCHANGED <<balance, paid>>
        PROVE  SettledNow'
    <2>1. \A q \in Pool : resalePools'[q] = IF q = p THEN r ELSE resalePools[q]
      BY <1>1, <1>3 DEF PoolFunction
    <2>2. QED
      BY <1>2, <1>3, <2>1 DEF IsMatched
  <1>4. ASSUME NEW u \in User, NEW t \in Ticket, NEW p \in Pool, NEW price \in Prices,
               listForResale(u, t, p, price)
        PROVE  SettledNow'
    <2> DEFINE r == [ticketId |-> t, sellerId |-> u, price |-> price, buyers |-> {},
                     status |-> "OPEN", winnerId |-> NULL]
    <2>1. /\ resalePools' = [resalePools EXCEPT ![p] = r] /\ r.status # "MATCHED"
          /\ resalePools[p] = NULL /\ UNCHANGED <<balance, paid>>
      BY <1>4 DEF listForResale
    <2> HIDE DEF r
    <2>2. QED
      BY <1>3, <2>1 DEF IsMatched
  <1>5. ASSUME NEW u \in User, NEW p \in Pool, joinPool(u, p) PROVE SettledNow'
    <2>1. /\ resalePools' = [resalePools EXCEPT ![p].buyers = @ \union {u}]
          /\ resalePools[p] \in PoolRecord /\ resalePools[p].status = "OPEN"
          /\ UNCHANGED <<balance, paid>>
      BY <1>5, PoolIsRecord DEF joinPool, Open, IInv
    <2>2. PICK r : r = [resalePools[p] EXCEPT !.buyers = @ \union {u}]
      OBVIOUS
    <2>3. r.status = "OPEN" /\ resalePools' = [resalePools EXCEPT ![p] = r]
      BY <2>1, <2>2 DEF PoolRecord
    <2>4. QED
      BY <1>3, <2>1, <2>3 DEF IsMatched
  <1>6. ASSUME NEW p \in Pool, Open(p), UNCHANGED <<balance, paid>>,
               resalePools' = [resalePools EXCEPT ![p].status = "CANCELED"]
        PROVE  SettledNow'
    <2>1. resalePools[p] \in PoolRecord /\ resalePools[p].status = "OPEN"
      BY <1>6, PoolIsRecord DEF Open, IInv
    <2>2. PICK r : r = [resalePools[p] EXCEPT !.status = "CANCELED"]
      OBVIOUS
    <2>3. r.status = "CANCELED" /\ resalePools' = [resalePools EXCEPT ![p] = r]
      BY <1>6, <2>1, <2>2 DEF PoolRecord
    <2>4. QED
      BY <1>3, <1>6, <2>1, <2>3 DEF IsMatched
  <1>7. ASSUME NEW u \in User, NEW p \in Pool, Open(p), Complete(p, u) PROVE SettledNow'
    <2>1. resalePools[p] \in PoolRecord /\ resalePools[p].status = "OPEN"
      BY <1>7, PoolIsRecord DEF Open, IInv
    <2>2. PICK r : r = [resalePools[p] EXCEPT !.buyers = @ \union {u}, !.status = "MATCHED",
                                             !.winnerId = u]
      OBVIOUS
    <2>3. /\ resalePools' = [resalePools EXCEPT ![p] = r]
          /\ balance' = [balance EXCEPT ![resalePools[p].sellerId] = @ + resalePools[p].price]
          /\ paid' = [paid EXCEPT ![u] = @ + resalePools[p].price + Fee(resalePools[p].price)]
      BY <1>7, <2>2 DEF Complete
    <2>4. /\ r.status = "MATCHED" /\ r.winnerId = u /\ r # NULL
          /\ r.sellerId = resalePools[p].sellerId /\ r.price = resalePools[p].price
      <3>1. r \in PoolRecord
        BY <2>1, <2>2 DEF PoolRecord
      <3>2. QED
        BY <2>1, <2>2, <3>1, RecordAssumption DEF PoolRecord
    <2>5. \A q \in Pool : resalePools'[q] = IF q = p THEN r ELSE resalePools[q]
      BY <1>1, <2>3 DEF PoolFunction
    <2>6. MatchedSince(resalePools, resalePools', p)
      BY <2>1, <2>4, <2>5 DEF MatchedSince, IsMatched
    <2>7. paid' = [paid EXCEPT ![u] = @ + (r.price + Fee(r.price))]
      <3>1. \A a \in Int : a + r.price + Fee(r.price) = a + (r.price + Fee(r.price))
        <4>1. r.price \in Int /\ Fee(r.price) \in Int
          BY <2>1, <2>4, FeeType DEF PoolRecord
        <4>2. QED
          BY <4>1
      <3>2. paid[u] + r.price + Fee(r.price) = paid[u] + (r.price + Fee(r.price))
        BY <1>1, <3>1
      <3>3. QED
        BY <2>3, <2>4, <3>2
    <2>8. balance' = [balance EXCEPT ![r.sellerId] = @ + r.price]
      BY <2>3, <2>4
    <2>9. PICK P, Q, b, d : P = resalePools /\ Q = resalePools' /\ b = balance /\ d = paid
      OBVIOUS
    <2>10. Q[p] = r
      BY <2>5, <2>9
    <2>11. Settled(Q, [b EXCEPT ![Q[p].sellerId] = @ + Q[p].price],
                      [d EXCEPT ![Q[p].winnerId] = @ + (Q[p].price + Fee(Q[p].price))])
      BY <1>1, <2>6, <2>9, SettledByMatch DEF SettledNow
    <2>12. QED
      BY <2>4, <2>7, <2>8, <2>9, <2>10, <2>11 DEF SettledNow
  <1>8. ASSUME NEW p \in Pool, Matched(p), Reverse(p),
               resalePools' = [resalePools EXCEPT ![p].status = "CANCELED"]
        PROVE  SettledNow'
    <2>1. resalePools[p] \in PoolRecord /\ resalePools[p].status = "MATCHED"
          /\ resalePools[p] # NULL
      BY <1>8, PoolIsRecord DEF Matched, IInv
    <2>2. PICK r : r = [resalePools[p] EXCEPT !.status = "CANCELED"]
      OBVIOUS
    <2>3. r.status = "CANCELED" /\ resalePools' = [resalePools EXCEPT ![p] = r]
      BY <1>8, <2>1, <2>2 DEF PoolRecord
    <2>4. \A q \in Pool : resalePools'[q] = IF q = p THEN r ELSE resalePools[q]
      BY <1>1, <2>3 DEF PoolFunction
    <2>5. MatchedSince(resalePools', resalePools, p)
      BY <2>1, <2>3, <2>4 DEF MatchedSince, IsMatched
    <2>6. PICK P, Q, b, d : P = resalePools /\ Q = resalePools' /\ b = balance /\ d = paid
      OBVIOUS
    <2>7. /\ balance' = [b EXCEPT ![P[p].sellerId] = @ - P[p].price]
          /\ paid' = [d EXCEPT ![P[p].winnerId] = @ - (P[p].price + Fee(P[p].price))]
      BY <1>8, <2>6 DEF Reverse
    <2>8. Settled(Q, [b EXCEPT ![P[p].sellerId] = @ - P[p].price],
                     [d EXCEPT ![P[p].winnerId] = @ - (P[p].price + Fee(P[p].price))])
      BY <1>1, <2>5, <2>6, SettledByReversal DEF SettledNow
    <2>9. QED
      BY <2>6, <2>7, <2>8 DEF SettledNow
  <1>9. ASSUME NEW u \in User, NEW p \in Pool, purchaseResale(u, p) PROVE SettledNow'
    BY <1>5, <1>7, <1>9 DEF purchaseResale
  <1>10. ASSUME NEW p \in Pool, drawPool(p) PROVE SettledNow'
    BY <1>7, <1>10, ConstantsAssumption DEF drawPool, Complete
  <1>11. ASSUME NEW u \in User, NEW p \in Pool, cancelResaleListing(u, p) PROVE SettledNow'
    BY <1>6, <1>11 DEF cancelResaleListing
  <1>12. ASSUME NEW p \in Pool, adminCancelResalePool(p) PROVE SettledNow'
    BY <1>6, <1>8, <1>12 DEF adminCancelResalePool
  <1>13. ASSUME UNCHANGED <<resalePools, balance, paid>> PROVE SettledNow'
    BY <1>2, <1>13
  <1>14. QED
    BY <1>4, <1>5, <1>9, <1>10, <1>11, <1>12, <1>13
       DEF Next, vars, PrepareCredential, revokeMobileQr, issueQr, issueMobileQr, Lapse,
           verifyQr, verifyGate

(* backend/commerce.js and admin.js: balances and payments are those of    *)
(* the matches that stand, after any sequence of listings, sales and       *)
(* reversals.                                                              *)
THEOREM SpecSettlementsMatch == Spec => []SettlementsMatch
  <1>1. Init => SettledNow
    <2> SUFFICES ASSUME Init, NEW u \in User
                 PROVE  /\ balance[u] = Total(PriceOf(resalePools, Sales(resalePools, u)),
                                              Sales(resalePools, u))
                        /\ paid[u] = Total(CostOf(resalePools, Buys(resalePools, u)),
                                           Buys(resalePools, u))
      BY DEF SettledNow, Settled
    <2>1. balance[u] = 0 /\ paid[u] = 0 /\ \A p \in Pool : resalePools[p] = NULL
      BY DEF Init
    <2>2. Sales(resalePools, u) = {} /\ Buys(resalePools, u) = {}
      BY <2>1 DEF Sales, Buys, IsMatched
    <2>3. QED
      BY <2>1, <2>2, TotalOfNone
  <1>2. SettledNow => SettlementsMatch
    BY DEF SettledNow, Settled, Sales, Buys, PriceOf, CostOf, IsMatched, Matched, SettlementsMatch
  <1>3. QED
    BY <1>1, <1>2, SettledNext, SpecIInv, PTL DEF Spec
=============================================================================
