------------------------- MODULE DeviceRegistration -------------------------
(***************************************************************************)
(* The second register of devices, for native principals                   *)
(* (backend/device-registration.js): a nonce, a proof with a counter, a    *)
(* push token and revocation, for one device of one user.  Handlers are    *)
(* synchronous; what goes wrong, if anything, goes wrong over several      *)
(* requests.                                                               *)
(***************************************************************************)
EXTENDS Naturals

CONSTANTS
  ChallengeId, Token,
  NULL,
  CHALLENGE_TTL,        \* 5 minutes
  MaxCounter,           \* bound: the counters a device uses
  Horizon               \* bound: where the clock of the model stops

VARIABLES
  now,
  deviceChallenges,     \* db.deviceChallenges of the device
  device                \* its entry in db.deviceRegistrations

vars == <<now, deviceChallenges, device>>

Init ==
  /\ now = 0
  /\ deviceChallenges = [c \in ChallengeId |-> [status |-> "NONE", expiresAt |-> 0]]
  /\ device = [status |-> "NONE", counter |-> 0, pushTokenHash |-> NULL]

challenge(c) ==
  /\ deviceChallenges[c].status = "NONE"
  /\ deviceChallenges' = [deviceChallenges EXCEPT ![c] =
       [status |-> "PENDING", expiresAt |-> now + CHALLENGE_TTL]]
  /\ UNCHANGED <<now, device>>

(* A slip: the counter of a revoked device is not looked at. *)
CounterOfTrusted(counter) == device.status = "TRUSTED" => counter > device.counter
CounterIsNew(counter) == counter > device.counter

(* The proof signs the nonce, the device and the counter, so nothing else  *)
(* passes for it.                                                          *)
trust(c, counter) ==
  /\ deviceChallenges[c].status = "PENDING" /\ deviceChallenges[c].expiresAt > now
  /\ CounterIsNew(counter)
  /\ deviceChallenges' = [deviceChallenges EXCEPT ![c].status = "USED"]
  /\ device' = [device EXCEPT !.status = "TRUSTED", !.counter = counter]
  /\ UNCHANGED now

putPushToken(token) ==
  /\ device.status = "TRUSTED"
  /\ device' = [device EXCEPT !.pushTokenHash = token]
  /\ UNCHANGED <<now, deviceChallenges>>

revokePushToken ==
  /\ device.status # "NONE"
  /\ device' = [device EXCEPT !.pushTokenHash = NULL]
  /\ UNCHANGED <<now, deviceChallenges>>

(* A slip: the push token stays with a revoked device. *)
RevokedKeepingToken == [device EXCEPT !.status = "REVOKED"]
Revoked == [device EXCEPT !.status = "REVOKED", !.pushTokenHash = NULL]

revokeDeviceRegistration ==
  /\ device.status # "NONE"
  /\ device' = Revoked
  /\ UNCHANGED <<now, deviceChallenges>>

Tick ==
  /\ now < Horizon
  /\ now' = now + 1
  /\ UNCHANGED <<deviceChallenges, device>>

Next ==
  \/ Tick
  \/ \E c \in ChallengeId : challenge(c) \/ \E counter \in 1..MaxCounter : trust(c, counter)
  \/ \E token \in Token : putPushToken(token)
  \/ revokePushToken
  \/ revokeDeviceRegistration

Spec == Init /\ [][Next]_vars

-----------------------------------------------------------------------------
(* Properties *)

TypeOK ==
  /\ now \in 0..Horizon
  /\ deviceChallenges \in [ChallengeId -> [status : {"NONE", "PENDING", "USED"}, expiresAt : Nat]]
  /\ device \in [status : {"NONE", "TRUSTED", "REVOKED"}, counter : 0..MaxCounter,
                 pushTokenHash : Token \union {NULL}]

(* Nothing of a device's earlier life comes back with a new proof: a push  *)
(* token is only kept while the device is trusted, so that one that is     *)
(* trusted again gets no messages before it asks for them, and a device is *)
(* trusted, the first time or again, by a counter it never used before.    *)
RevocationClearsTheDevice ==
  [][/\ device'.pushTokenHash # NULL => device'.status = "TRUSTED"
     /\ device'.counter >= device.counter
     /\ device.status # "TRUSTED" /\ device'.status = "TRUSTED" =>
          device'.counter > device.counter /\ device'.pushTokenHash = NULL]_vars
=============================================================================
