------------------------------ MODULE Identity ------------------------------
(***************************************************************************)
(* Identity verification by NICE (backend/identity.js): one phone and one  *)
(* person per account.                                                     *)
(*                                                                         *)
(* A verification is recorded before the provider is asked for its token   *)
(* and for the page to send the browser to; the browser comes back, as     *)
(* often as it likes, with a transaction whose result is fetched in one    *)
(* more await; and only what runs after that await looks at the accounts.  *)
(* The test mode completes a verification in one step, without a person.   *)
(***************************************************************************)
EXTENDS Naturals

CONSTANTS
  User, Phone, Person,
  NULL,
  Verification,         \* records of db.identityVerifications
  Callback,             \* requests for /api/identity/nice/callback
  MockAllowed           \* niceMockAllowed()

VARIABLES
  verifications,        \* db.identityVerifications
  users,                \* users[u].identityVerification: phone and person, or NULL
  callbacks

vars == <<verifications, users, callbacks>>

(* A hash stands for what was hashed; without a CI or DI the phone is      *)
(* hashed in the place of the person.                                      *)
Identities == [phone : Phone, person : Person \union Phone]

Idle == [phase |-> "idle"]

Init ==
  /\ verifications = [v \in Verification |-> [status |-> "NONE"]]
  /\ users = [u \in User |-> NULL]
  /\ callbacks = [c \in Callback |-> Idle]

(* Up to the first await; started stays FALSE if the provider fails.       *)
startNiceVerification(v, u) ==
  /\ verifications[v].status = "NONE"
  /\ verifications' = [verifications EXCEPT ![v] =
       [status |-> "PENDING", userId |-> u, started |-> FALSE, identity |-> NULL]]
  /\ UNCHANGED <<users, callbacks>>

(* requestNiceAccessToken and requestNiceAuthUrl have answered. *)
NiceAuthStarted(v) ==
  /\ verifications[v].status # "NONE" /\ ~verifications[v].started
  /\ verifications' = [verifications EXCEPT ![v].started = TRUE]
  /\ UNCHANGED <<users, callbacks>>

findPendingRecord(v) == verifications[v].status = "PENDING"

completeNiceVerificationFromCallback(c, v) ==
  /\ callbacks[c] = Idle
  /\ findPendingRecord(v)
  /\ verifications[v].started
  /\ callbacks' = [callbacks EXCEPT ![c] = [phase |-> "result", record |-> v]]
  /\ UNCHANGED <<verifications, users>>

SameIdentity(other, identity) ==
  other # NULL /\ (other.phone = identity.phone \/ other.person = identity.person)

(* A slip: an account that has been verified before may be given any       *)
(* identity again.                                                         *)
NewAccountCanBeVerified(u, identity) ==
  users[u] = NULL => \A other \in User \ {u} : ~SameIdentity(users[other], identity)
assertIdentityCanBeVerified(u, identity) ==
  \A other \in User \ {u} : ~SameIdentity(users[other], identity)

(* The record's status is not looked at again: what was verified while     *)
(* another callback waited is verified once more.                          *)
finalizeVerification(v, identity) ==
  LET u == verifications[v].userId
  IN /\ assertIdentityCanBeVerified(u, identity)
     /\ verifications' = [verifications EXCEPT ![v].status = "VERIFIED", ![v].identity = identity]
     /\ users' = [users EXCEPT ![u] = identity]

NiceResult(c, identity) ==
  /\ callbacks[c].phase = "result"
  /\ identity.person \in Person \/ identity.person = identity.phone
  /\ finalizeVerification(callbacks[c].record, identity)
  /\ callbacks' = [callbacks EXCEPT ![c] = [phase |-> "done"]]

(* The provider fails, the result is not genuine, or the identity is taken. *)
CallbackRefused(c) ==
  /\ callbacks[c].phase = "result"
  /\ callbacks' = [callbacks EXCEPT ![c] = [phase |-> "done"]]
  /\ UNCHANGED <<verifications, users>>

mockCompleteNiceVerification(v, phone) ==
  /\ MockAllowed
  /\ findPendingRecord(v)
  /\ finalizeVerification(v, [phone |-> phone, person |-> phone])
  /\ UNCHANGED callbacks

Next ==
  \/ \E v \in Verification :
       \/ \E u \in User : startNiceVerification(v, u)
       \/ NiceAuthStarted(v)
       \/ \E phone \in Phone : mockCompleteNiceVerification(v, phone)
       \/ \E c \in Callback : completeNiceVerificationFromCallback(c, v)
  \/ \E c \in Callback : CallbackRefused(c) \/ \E identity \in Identities : NiceResult(c, identity)

Spec == Init /\ [][Next]_vars

-----------------------------------------------------------------------------
(* Properties *)

TypeOK ==
  /\ verifications \in [Verification ->
       {[status |-> "NONE"]} \union
       [status : {"PENDING", "VERIFIED"}, userId : User, started : BOOLEAN,
        identity : Identities \union {NULL}]]
  /\ users \in [User -> Identities \union {NULL}]
  /\ callbacks \in [Callback -> {Idle, [phase |-> "done"]} \union
                                [phase : {"result"}, record : Verification]]

(* Accounts that are verified at the same time share neither phone nor     *)
(* person, whatever they changed from, and what an account is verified as  *)
(* is on record for that account; a repeated callback never takes a        *)
(* verification away.                                                      *)
OneAccountPerPerson ==
  /\ \A u, w \in User : u # w /\ users[u] # NULL => ~SameIdentity(users[w], users[u])
  /\ \A v \in Verification : verifications[v].status = "VERIFIED" =>
       users[verifications[v].userId] # NULL
  /\ \A u \in User : users[u] # NULL =>
       \E v \in Verification : /\ verifications[v].status = "VERIFIED"
                               /\ verifications[v].userId = u
                               /\ verifications[v].identity = users[u]
=============================================================================
