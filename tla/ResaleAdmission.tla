--------------------------- MODULE ResaleAdmission ---------------------------
(***************************************************************************)
(* What happens to a ticket after it is sold: official resale through      *)
(* pools (backend/commerce.js), the operator's forced cancellation         *)
(* (backend/admin.js), and entry at the venue, with the code of the app    *)
(* that goes with the ticket (backend/admission-qr.js) or with a mobile    *)
(* code (backend/mobile-ticket-qr.js).                                     *)
(*                                                                         *)
(* Every handler is synchronous.  What interleaves are owners, buyers, the *)
(* operator and two kinds of gate, all of which write the status and the   *)
(* owner of the ticket: each has its own idea of what the others can have  *)
(* done in the meantime.                                                   *)
(***************************************************************************)
EXTENDS Integers, FiniteSets, Sums

CONSTANTS
  User, Ticket,
  Pool,          \* bound: the resale pools there can be
  Code,          \* bound: the admission codes there can be, of both kinds
  NULL,
  Verified,      \* the users whose identity is verified
  Institutional, \* the tickets that must not be resold
  Prices,        \* bound: the resale prices the policy allows
  MaxTransfers   \* maxTransferCount

ASSUME ConstantsAssumption ==
  /\ NULL \notin User \union Pool \union Code
  /\ Verified \subseteq User /\ Institutional \subseteq Ticket
  /\ IsFiniteSet(Pool) /\ Prices \subseteq Nat /\ MaxTransfers \in Nat

VARIABLES
  tickets,       \* db.tickets: owner, status, transferCount
  resalePools,   \* db.resalePools by id
  balance,       \* what resale has added to each seller's balance
  paid,          \* RESALE less REFUND entries of db.paymentTransactions, by user
  credentials,   \* db.admissionCredentials by ticket
  codes,         \* all codes issued, by id
  currentQr,     \* ticket.currentQr: the code of the app that counts
  admitted,      \* how often a gate let somebody in with each code
  bygone         \* history: the codes of the app whose ticket has changed hands since

resale == <<resalePools, balance, paid>>
entries == <<admitted, bygone>>
vars == <<tickets, resale, credentials, codes, currentQr, entries>>

TicketRecord == [owner : User, status : {"OWNED", "IN_RESALE_POOL", "ADMITTED"},
                 transferCount : Nat]
PoolRecord == [ticketId : Ticket, sellerId : User, price : Prices, buyers : SUBSET User,
               status : {"OPEN", "MATCHED", "CANCELED"}, winnerId : User \union {NULL}]
Credential == [userId : User, status : {"VIRTUAL_READY", "QR_ACTIVE", "USED"}]
CodeRecord == [kind : {"DYNAMIC", "MOBILE"}, ticketId : Ticket, userId : User,
               status : {"VALID", "USED", "REVOKED", "EXPIRED"}]

ASSUME RecordAssumption == NULL \notin PoolRecord \union CodeRecord

(* Tickets as their purchase left them. *)
Init ==
  \E owner \in [Ticket -> User] :
    /\ tickets = [t \in Ticket |-> [owner |-> owner[t], status |-> "OWNED", transferCount |-> 0]]
    /\ credentials = [t \in Ticket |-> [userId |-> owner[t], status |-> "VIRTUAL_READY"]]
    /\ resalePools = [p \in Pool |-> NULL]
    /\ balance = [u \in User |-> 0]
    /\ paid = [u \in User |-> 0]
    /\ codes = [c \in Code |-> NULL]
    /\ currentQr = [t \in Ticket |-> NULL]
    /\ admitted = [c \in Code |-> 0]
    /\ bygone = {}

PoolsOf(t) == {p \in Pool : resalePools[p] # NULL /\ resalePools[p].ticketId = t}
Open(p) == resalePools[p] # NULL /\ resalePools[p].status = "OPEN"
Matched(p) == resalePools[p] # NULL /\ resalePools[p].status = "MATCHED"

(* OFFICIAL_RESALE_FEE_RATE: five percent, rounded up. *)
Fee(price) == (price * 5 + 99) \div 100

(* ensureAdmissionCredential of a ticket that has one. *)
Ensured(cred, u) ==
  [userId |-> u, status |-> IF cred.status = "USED" THEN "USED" ELSE "VIRTUAL_READY"]

-----------------------------------------------------------------------------
(* Resale *)

(* A slip: a ticket that is listed already can be listed again. *)
ListableEvenListed(t) ==
  /\ tickets[t].status \in {"OWNED", "IN_RESALE_POOL"}
  /\ t \notin Institutional
  /\ tickets[t].transferCount < MaxTransfers

Listable(t) ==
  /\ tickets[t].status = "OWNED"
  /\ t \notin Institutional
  /\ tickets[t].transferCount < MaxTransfers

listForResale(u, t, p, price) ==
  /\ tickets[t].owner = u
  /\ Listable(t)
  /\ resalePools[p] = NULL
  /\ resalePools' = [resalePools EXCEPT ![p] =
       [ticketId |-> t, sellerId |-> u, price |-> price, buyers |-> {},
        status |-> "OPEN", winnerId |-> NULL]]
  /\ tickets' = [tickets EXCEPT ![t].status = "IN_RESALE_POOL"]
  /\ UNCHANGED <<balance, paid, credentials, codes, currentQr, entries>>

joinPool(u, p) ==
  /\ Open(p)
  /\ resalePools[p].sellerId # u
  /\ resalePools' = [resalePools EXCEPT ![p].buyers = @ \union {u}]
  /\ UNCHANGED <<tickets, balance, paid, credentials, codes, currentQr, entries>>

cancelResaleListing(u, p) ==
  /\ Open(p)
  /\ resalePools[p].sellerId = u
  /\ tickets[resalePools[p].ticketId].owner = u
  /\ tickets' = [tickets EXCEPT ![resalePools[p].ticketId].status = "OWNED"]
  /\ resalePools' = [resalePools EXCEPT ![p].status = "CANCELED"]
  /\ UNCHANGED <<balance, paid, credentials, codes, currentQr, entries>>

(* The codes of the app that go with t are of its past from now on. *)
Outdate(t) ==
  bygone' = bygone \union
    {c \in Code : codes[c] # NULL /\ codes[c].kind = "DYNAMIC" /\ codes[c].ticketId = t}

(* A slip: the credential stays the seller's. *)
HandOverTicketOnly(t, u, count) ==
  /\ tickets' = [tickets EXCEPT ![t] = [owner |-> u, status |-> "OWNED", transferCount |-> count]]
  /\ currentQr' = [currentQr EXCEPT ![t] = NULL]
  /\ Outdate(t)
  /\ UNCHANGED credentials

(* A slip: the code that was issued last goes with the ticket. *)
HandOverWithCode(t, u, count) ==
  /\ tickets' = [tickets EXCEPT ![t] = [owner |-> u, status |-> "OWNED", transferCount |-> count]]
  /\ credentials' = [credentials EXCEPT ![t] = Ensured(@, u)]
  /\ Outdate(t)
  /\ UNCHANGED currentQr

(* The ticket, its code of the app and its credential go to u. *)
HandOver(t, u, count) ==
  /\ tickets' = [tickets EXCEPT ![t] = [owner |-> u, status |-> "OWNED", transferCount |-> count]]
  /\ currentQr' = [currentQr EXCEPT ![t] = NULL]
  /\ credentials' = [credentials EXCEPT ![t] = Ensured(@, u)]
  /\ Outdate(t)

(* completeResaleMatch, for u who is among the buyers now.  Neither the     *)
(* status nor the owner of the ticket is looked at again.                  *)
Complete(p, u) ==
  LET pool == resalePools[p]  t == pool.ticketId IN
  /\ u \in Verified
  /\ HandOver(t, u, tickets[t].transferCount + 1)
  /\ balance' = [balance EXCEPT ![pool.sellerId] = @ + pool.price]
  /\ paid' = [paid EXCEPT ![u] = @ + pool.price + Fee(pool.price)]
  /\ resalePools' = [resalePools EXCEPT ![p] =
       [pool EXCEPT !.buyers = @ \union {u}, !.status = "MATCHED", !.winnerId = u]]
  /\ UNCHANGED <<codes, admitted>>

(* The hash that draws a winner may hit any of the buyers. *)
drawPool(p) ==
  /\ Open(p)
  /\ \E u \in resalePools[p].buyers : Complete(p, u)

(* A buyer who is not verified has joined the pool when the rejection comes. *)
purchaseResale(u, p) ==
  /\ Open(p)
  /\ resalePools[p].sellerId # u
  /\ IF u \in Verified THEN Complete(p, u) ELSE joinPool(u, p)

(* A slip: the ticket goes back and the seller keeps the money. *)
ReverseTicketOnly(p) ==
  LET pool == resalePools[p]  t == pool.ticketId IN
  /\ tickets' = [tickets EXCEPT ![t] =
       [owner |-> pool.sellerId, status |-> "OWNED",
        transferCount |-> IF @.transferCount > 0 THEN @.transferCount - 1 ELSE 0]]
  /\ currentQr' = [currentQr EXCEPT ![t] = NULL]
  /\ credentials' = [credentials EXCEPT ![t].userId = pool.sellerId]
  /\ Outdate(t)
  /\ UNCHANGED <<balance, paid>>

(* A matched pool is unwound: the ticket to the seller, the money back,    *)
(* whatever the winner has done with the ticket since.                     *)
Reverse(p) ==
  LET pool == resalePools[p]  t == pool.ticketId IN
  /\ tickets' = [tickets EXCEPT ![t] =
       [owner |-> pool.sellerId, status |-> "OWNED",
        transferCount |-> IF @.transferCount > 0 THEN @.transferCount - 1 ELSE 0]]
  /\ currentQr' = [currentQr EXCEPT ![t] = NULL]
  /\ credentials' = [credentials EXCEPT ![t].userId = pool.sellerId]
  /\ Outdate(t)
  /\ balance' = [balance EXCEPT ![pool.sellerId] = @ - pool.price]
  /\ paid' = [paid EXCEPT ![pool.winnerId] = @ - (pool.price + Fee(pool.price))]

adminCancelResalePool(p) ==
  /\ \/ Matched(p) /\ Reverse(p)
     \/ /\ Open(p)
        /\ tickets' = [tickets EXCEPT ![resalePools[p].ticketId].status = "OWNED"]
        /\ UNCHANGED <<balance, paid, credentials, currentQr, bygone>>
  /\ resalePools' = [resalePools EXCEPT ![p].status = "CANCELED"]
  /\ UNCHANGED <<codes, admitted>>

-----------------------------------------------------------------------------
(* Codes and gates *)

(* virtualQr, and an issueQr that is refused for channel, device, risk or  *)
(* hold: by then the credential has been brought up to date.               *)
PrepareCredential(u, t) ==
  /\ tickets[t].owner = u
  /\ credentials' = [credentials EXCEPT ![t] = Ensured(@, u)]
  /\ UNCHANGED <<tickets, resale, codes, currentQr, entries>>

(* A slip: a code that is issued belongs to nobody. *)
NewCodeOfNobody(kind, u, t) ==
  [kind |-> kind, ticketId |-> t, userId |-> NULL, status |-> "VALID"]
NewCode(kind, u, t) == [kind |-> kind, ticketId |-> t, userId |-> u, status |-> "VALID"]

(* A code of the app; it replaces the one before it.  The credential is    *)
(* made active also if it was used.                                        *)
issueQr(u, t, c) ==
  /\ tickets[t].owner = u
  /\ tickets[t].status = "OWNED"
  /\ codes[c] = NULL
  /\ codes' = [codes EXCEPT ![c] = NewCode("DYNAMIC", u, t)]
  /\ currentQr' = [currentQr EXCEPT ![t] = c]
  /\ credentials' = [credentials EXCEPT ![t] = [userId |-> u, status |-> "QR_ACTIVE"]]
  /\ UNCHANGED <<tickets, resale, entries>>

(* The owner's current code, not expired. *)
Genuine(c) ==
  /\ codes[c] # NULL /\ codes[c].kind = "DYNAMIC" /\ codes[c].status \in {"VALID", "USED"}
  /\ currentQr[codes[c].ticketId] = c
  /\ tickets[codes[c].ticketId].owner = codes[c].userId

(* A slip: the scan changes the ticket and consumes nothing. *)
ConsumeNothing(c) == UNCHANGED <<codes, credentials>>

Consume(c) ==
  /\ codes' = [codes EXCEPT ![c].status = "USED"]
  /\ credentials' = [credentials EXCEPT ![codes[c].ticketId].status = "USED"]

(* The gate for codes of the app.  It does not look at the ticket's status. *)
verifyQr(c) ==
  /\ Genuine(c)
  /\ codes[c].status # "USED" /\ credentials[codes[c].ticketId].status # "USED"
  /\ Consume(c)
  /\ tickets' = [tickets EXCEPT ![codes[c].ticketId].status = "ADMITTED"]
  /\ admitted' = [admitted EXCEPT ![c] = @ + 1]
  /\ UNCHANGED <<resale, currentQr, bygone>>

ValidMobile(c, t) ==
  /\ codes[c] # NULL /\ codes[c].kind = "MOBILE" /\ codes[c].ticketId = t
  /\ codes[c].status = "VALID"

(* A mobile code; the valid ones of the ticket are revoked. *)
issueMobileQr(u, t, c) ==
  /\ tickets[t].owner = u
  /\ tickets[t].status = "OWNED"
  /\ codes[c] = NULL
  /\ codes' = [d \in Code |->
       IF d = c THEN NewCode("MOBILE", u, t)
       ELSE IF ValidMobile(d, t) THEN [codes[d] EXCEPT !.status = "REVOKED"] ELSE codes[d]]
  /\ UNCHANGED <<tickets, resale, credentials, currentQr, entries>>

revokeMobileQr(u, t) ==
  /\ tickets[t].owner = u
  /\ codes' = [d \in Code |-> IF ValidMobile(d, t) /\ codes[d].userId = u
                              THEN [codes[d] EXCEPT !.status = "REVOKED"] ELSE codes[d]]
  /\ UNCHANGED <<tickets, resale, credentials, currentQr, entries>>

(* A slip: only a ticket that is in already is turned away. *)
AdmissibleUnlessIn(t) == tickets[t].status # "ADMITTED"

Admissible(t) == tickets[t].status = "OWNED"

(* The gate for mobile codes looks at the code and at the status of the    *)
(* ticket, not at its owner or its credential.                             *)
verifyGate(c) ==
  /\ codes[c] # NULL /\ ValidMobile(c, codes[c].ticketId)
  /\ Admissible(codes[c].ticketId)
  /\ codes' = [codes EXCEPT ![c].status = "USED"]
  /\ tickets' = [tickets EXCEPT ![codes[c].ticketId].status = "ADMITTED"]
  /\ admitted' = [admitted EXCEPT ![c] = @ + 1]
  /\ UNCHANGED <<resale, credentials, currentQr, bygone>>

(* Time: a code lasts twenty seconds. *)
Lapse(c) ==
  /\ codes[c] # NULL /\ codes[c].status = "VALID"
  /\ codes' = [codes EXCEPT ![c].status = "EXPIRED"]
  /\ UNCHANGED <<tickets, resale, credentials, currentQr, entries>>

Next ==
  \/ \E u \in User :
       \/ \E t \in Ticket :
            \/ \E p \in Pool, price \in Prices : listForResale(u, t, p, price)
            \/ PrepareCredential(u, t)
            \/ revokeMobileQr(u, t)
            \/ \E c \in Code : issueQr(u, t, c) \/ issueMobileQr(u, t, c)
       \/ \E p \in Pool : joinPool(u, p) \/ cancelResaleListing(u, p) \/ purchaseResale(u, p)
  \/ \E p \in Pool : drawPool(p) \/ adminCancelResalePool(p)
  \/ \E c \in Code : verifyQr(c) \/ verifyGate(c) \/ Lapse(c)

Spec == Init /\ [][Next]_vars

-----------------------------------------------------------------------------
(* Properties *)

TypeOK ==
  /\ tickets \in [Ticket -> TicketRecord]
  /\ resalePools \in [Pool -> PoolRecord \union {NULL}]
  /\ balance \in [User -> Int] /\ paid \in [User -> Int]
  /\ credentials \in [Ticket -> Credential]
  /\ codes \in [Code -> CodeRecord \union {NULL}]
  /\ currentQr \in [Ticket -> Code \union {NULL}]
  /\ admitted \in [Code -> Nat] /\ bygone \subseteq Code

(* The operator has unwound a sale of t. *)
Reversed(t) ==
  \E p \in PoolsOf(t) : resalePools[p].status = "CANCELED" /\ resalePools[p].winnerId # NULL

(* Money follows the matches that stand: a seller has the prices of the    *)
(* pools that were matched and not unwound, a winner has paid them with    *)
(* their fees, nobody has anything else.                                   *)
SettlementsMatch ==
  \A u \in User :
    LET sold   == {p \in Pool : Matched(p) /\ resalePools[p].sellerId = u}
        bought == {p \in Pool : Matched(p) /\ resalePools[p].winnerId = u}
    IN /\ balance[u] = Total([p \in sold |-> resalePools[p].price], sold)
       /\ paid[u] = Total([p \in bought |-> resalePools[p].price + Fee(resalePools[p].price)],
                          bought)

(* Whoever owns the ticket has its right of admission, and nobody else,    *)
(* through sales, reversals and the preparations of owners in between.     *)
CredentialIsOwners == \A t \in Ticket : credentials[t].userId = tickets[t].owner

(* Its owner went in with the code of the app that the ticket carries.     *)
InByApp(t) ==
  /\ tickets[t].status = "ADMITTED"
  /\ \E c \in Code : /\ currentQr[t] = c /\ codes[c] # NULL
                      /\ codes[c].status = "USED" /\ codes[c].userId = tickets[t].owner

(* completeResaleMatch checks nothing of the ticket again, so what an open *)
(* pool offers must still be there: its seller owns the ticket, no other   *)
(* open pool offers it, and it is listed as when the pool was opened.  The *)
(* mobile gate never admits a ticket that is on offer.  There are two      *)
(* exceptions.  The gate of the app does not look at the status of a       *)
(* ticket: a seller who had a code issued and then listed the ticket can   *)
(* go in with that code, the pool stays open, and the used ticket is sold  *)
(* from it (the buyer owns an OWNED ticket with a used credential).  And   *)
(* when the operator unwinds an earlier sale, the winner's own listing     *)
(* stays open.                                                             *)
OffersStand ==
  \A p \in Pool : Open(p) =>
    LET t == resalePools[p].ticketId IN
      Reversed(t) \/ /\ tickets[t].owner = resalePools[p].sellerId
                     /\ tickets[t].status = "IN_RESALE_POOL" \/ InByApp(t)
                     /\ \A q \in PoolsOf(t) : Open(q) => q = p

(* The transfer limit counts the transfers that stand, and holds of them   *)
(* unless the operator has unwound one.                                    *)
TransfersCounted ==
  \A t \in Ticket :
    /\ tickets[t].transferCount = Cardinality({p \in PoolsOf(t) : Matched(p)})
    /\ tickets[t].transferCount <= MaxTransfers \/ Reversed(t)

(* A code lets one person in once, at whichever gate, also when its ticket *)
(* is listed, withdrawn, sold or given back in between.                    *)
OneEntryPerCode == \A c \in Code : admitted[c] <= 1

(* A code of the app does not outlive a sale or its reversal: once the     *)
(* ticket has changed hands no gate lets anybody in with it, not even when *)
(* whom it was issued to buys the ticket back or is given it back.  (A     *)
(* mobile code does: verifyGate asks for no owner.)                        *)
SoldCodesAreDead ==
  [][\A c \in bygone : admitted'[c] = admitted[c]]_vars

(* A ticket lets one person in.                                            *)
OneEntryPerTicket ==
  \A c, d \in Code : admitted[c] > 0 /\ admitted[d] > 0 /\ c # d =>
    codes[c].ticketId # codes[d].ticketId
=============================================================================
