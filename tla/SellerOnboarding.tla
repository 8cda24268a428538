-------------------------- MODULE SellerOnboarding --------------------------
(***************************************************************************)
(* How an organisation comes to sell: its application                      *)
(* (backend/seller-applications.js), the account an operator issues for it *)
(* (seller-accounts.js), its stateless sessions (seller-session.js), and   *)
(* the event an operator drafts from it (createEventDraft of admin.js),    *)
(* which waits for its poster before it looks at the application.          *)
(***************************************************************************)
EXTENDS Naturals

CONSTANTS
  Application, Username, Draft, Check,
  NULL,
  SESSION_MAX_AGE,      \* 8 hours
  MaxPassword,          \* bound: passwords an account has in turn
  Horizon               \* bound: where the clock of the model stops

VARIABLES
  now,
  applications,         \* db.sellerApplications
  accounts,             \* db.sellerAccounts, by the application each is for
  drafts,               \* operators' requests to draft an event from an application
  tokens                \* session tokens handed out, by account

vars == <<now, applications, accounts, drafts, tokens>>

Reviewed == {"APPROVED", "REJECTED", "REGISTERED"}
NoDraft == [phase |-> "idle"]

Init ==
  /\ now = 0
  /\ applications = [a \in Application |-> [status |-> "NONE", checklist |-> {}, linkedEventId |-> NULL]]
  /\ accounts = [a \in Application |-> NULL]
  /\ drafts = [d \in Draft |-> NoDraft]
  /\ tokens = [a \in Application |-> NULL]

submitSellerApplication(a) ==
  /\ applications[a].status = "NONE"
  /\ applications' = [applications EXCEPT ![a].status = "PENDING"]
  /\ UNCHANGED <<now, accounts, drafts, tokens>>

assertPending(a) == applications[a].status = "PENDING"

updateSellerApplicationChecklist(a, checklist) ==
  /\ assertPending(a)
  /\ applications' = [applications EXCEPT ![a].checklist = checklist]
  /\ UNCHANGED <<now, accounts, drafts, tokens>>

approveSellerApplication(a) ==
  /\ assertPending(a)
  /\ applications[a].checklist = Check
  /\ applications' = [applications EXCEPT ![a].status = "APPROVED"]
  /\ UNCHANGED <<now, accounts, drafts, tokens>>

rejectSellerApplication(a) ==
  /\ assertPending(a)
  /\ applications' = [applications EXCEPT ![a].status = "REJECTED"]
  /\ UNCHANGED <<now, accounts, drafts, tokens>>

-----------------------------------------------------------------------------
issueSellerAccount(a, username) ==
  /\ applications[a].status = "APPROVED"
  /\ accounts[a] = NULL
  /\ \A b \in Application : accounts[b] # NULL => accounts[b].username # username
  /\ accounts' = [accounts EXCEPT ![a] =
       [username |-> username, password |-> 1, mustChangePassword |-> TRUE]]
  /\ UNCHANGED <<now, applications, drafts, tokens>>

(* POST /api/seller/login, when name and password are right *)
authenticateSellerAccount(a, password) ==
  /\ accounts[a] # NULL
  /\ accounts[a].password = password
  /\ tokens' = [tokens EXCEPT ![a] = now]
  /\ UNCHANGED <<now, applications, accounts, drafts>>

sellerSession(a) == tokens[a] # NULL /\ accounts[a] # NULL /\ now - tokens[a] <= SESSION_MAX_AGE

(* Tokens that are out stay good.  Passwords are told by their order. *)
changeSellerPassword(a) ==
  /\ sellerSession(a)
  /\ accounts[a].password < MaxPassword
  /\ accounts' = [accounts EXCEPT ![a].password = @ + 1, ![a].mustChangePassword = FALSE]
  /\ UNCHANGED <<now, applications, drafts, tokens>>

(* POST /api/seller/logout takes the cookie away; the token itself is good *)
(* until it is too old.                                                    *)
Logout(a) ==
  /\ tokens[a] # NULL
  /\ tokens' = [tokens EXCEPT ![a] = NULL]
  /\ UNCHANGED <<now, applications, accounts, drafts>>

-----------------------------------------------------------------------------
(* createEventDraft up to its await of the poster, for an event that does  *)
(* not exist.                                                              *)
StartDraft(d, a) ==
  /\ drafts[d] = NoDraft
  /\ drafts' = [drafts EXCEPT ![d] = [phase |-> "storing", source |-> a]]
  /\ UNCHANGED <<now, applications, accounts, tokens>>

(* A slip: a draft links the application it was made from, approved or not. *)
LinksAny(a) == applications[a].status # "NONE"
Links(a) == applications[a].status = "APPROVED"

createEventDraft(d) ==
  /\ drafts[d].phase = "storing"
  /\ drafts' = [drafts EXCEPT ![d].phase = "created"]
  /\ applications' =
       IF Links(drafts[d].source)
       THEN [applications EXCEPT ![drafts[d].source].status = "REGISTERED",
                                 ![drafts[d].source].linkedEventId = d]
       ELSE applications
  /\ UNCHANGED <<now, accounts, tokens>>

PosterRejected(d) ==
  /\ drafts[d].phase = "storing"
  /\ drafts' = [drafts EXCEPT ![d] = NoDraft]
  /\ UNCHANGED <<now, applications, accounts, tokens>>

Tick ==
  /\ now < Horizon
  /\ now' = now + 1
  /\ UNCHANGED <<applications, accounts, drafts, tokens>>

Next ==
  \/ Tick
  \/ \E a \in Application :
       \/ submitSellerApplication(a) \/ approveSellerApplication(a) \/ rejectSellerApplication(a)
       \/ \E checklist \in SUBSET Check : updateSellerApplicationChecklist(a, checklist)
       \/ \E username \in Username : issueSellerAccount(a, username)
       \/ \E password \in 1..MaxPassword : authenticateSellerAccount(a, password)
       \/ changeSellerPassword(a) \/ Logout(a)
       \/ \E d \in Draft : StartDraft(d, a)
  \/ \E d \in Draft : createEventDraft(d) \/ PosterRejected(d)

Spec == Init /\ [][Next]_vars

-----------------------------------------------------------------------------
(* Properties *)

TypeOK ==
  /\ now \in 0..Horizon
  /\ applications \in [Application ->
       [status : {"NONE", "PENDING"} \union Reviewed, checklist : SUBSET Check,
        linkedEventId : Draft \union {NULL}]]
  /\ accounts \in [Application -> {NULL} \union
       [username : Username, password : 1..MaxPassword, mustChangePassword : BOOLEAN]]
  /\ drafts \in [Draft -> {NoDraft} \union [phase : {"storing", "created"}, source : Application]]
  /\ tokens \in [Application -> 0..Horizon \union {NULL}]

(* Only an organisation whose papers were all verified gets an account or  *)
(* an event; a name logs in to one account; and of several drafts that     *)
(* were begun for one application, whatever its state then, one is its     *)
(* event, from the moment it is registered.                                *)
SellersAreReviewed ==
  \A a \in Application :
    /\ applications[a].status \in {"APPROVED", "REGISTERED"} \/ accounts[a] # NULL
         => applications[a].checklist = Check
    /\ accounts[a] # NULL => applications[a].status \in {"APPROVED", "REGISTERED"}
    /\ applications[a].status = "REGISTERED" <=> applications[a].linkedEventId # NULL
    /\ applications[a].linkedEventId # NULL =>
         /\ drafts[applications[a].linkedEventId].phase = "created"
         /\ drafts[applications[a].linkedEventId].source = a
    /\ \A b \in Application \ {a} :
         accounts[a] # NULL /\ accounts[b] # NULL => accounts[a].username # accounts[b].username

(* What has been decided stays decided: an application that was rejected   *)
(* is never reviewed again, and the event of a registered one is not       *)
(* replaced by a draft that waited longer.                                 *)
ReviewsAreFinal ==
  [][\A a \in Application :
       /\ applications[a].status \in {"REJECTED", "REGISTERED"} => applications'[a] = applications[a]
       /\ applications[a].status = "APPROVED" => applications'[a].status \in {"APPROVED", "REGISTERED"}]_vars
=============================================================================
