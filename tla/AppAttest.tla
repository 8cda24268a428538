----------------------------- MODULE AppAttest -----------------------------
(***************************************************************************)
(* Device proofs of one user: the challenges of backend/app-attest.js, the *)
(* trusted devices of backend/admission-devices.js and what revokes them   *)
(* (backend/mobile-lifecycle.js, backend/mobile-admin.js), as the routes   *)
(* POST /api/devices/trust and POST /api/tickets/qr use them.              *)
(*                                                                         *)
(* verifyProof looks the challenge up, awaits the verifier of Apple or     *)
(* Google for at most five seconds, and only then marks it consumed; the   *)
(* route goes on in the same turn.  During the await other requests use    *)
(* the challenge, issueChallenge prunes it, and devices are revoked.       *)
(***************************************************************************)
EXTENDS Integers

CONSTANTS
  Device, ChallengeId, Request,
  CHALLENGE_TTL,        \* 2 minutes
  VERIFY_TIMEOUT,       \* AbortSignal.timeout(5000)
  Horizon               \* bound: where the clock of the model stops

VARIABLES
  now,
  challenges,           \* db.appAttestChallenges, and what became of them
  trustedDevices,       \* db.trustedDevices: the status by deviceId
  requests

vars == <<now, challenges, trustedDevices, requests>>

Purpose == {"TRUST_DEVICE", "ISSUE_QR"}

(* consumed outlives the entry in the array: a request under way keeps its *)
(* reference to an entry that has been pruned meanwhile.                   *)
Challenge ==
  [issued : BOOLEAN, stored : BOOLEAN, consumed : BOOLEAN,
   purpose : Purpose, device : Device, expiresAt : Nat]

NoChallenge ==
  [issued |-> FALSE, stored |-> FALSE, consumed |-> FALSE,
   purpose |-> "TRUST_DEVICE", device |-> CHOOSE d \in Device : TRUE, expiresAt |-> 0]

Idle ==
  [phase |-> "idle", challenge |-> CHOOSE c \in ChallengeId : TRUE,
   purpose |-> "TRUST_DEVICE", device |-> CHOOSE d \in Device : TRUE, from |-> 0, to |-> 0]

Init ==
  /\ now = 0
  /\ challenges = [c \in ChallengeId |-> NoChallenge]
  /\ trustedDevices = [d \in Device |-> "NONE"]
  /\ requests = [r \in Request |-> Idle]

Expired(c) == challenges[c].expiresAt <= now

(* Every issue drops what is consumed or expired. *)
issueChallenge(c, purpose, d) ==
  /\ ~challenges[c].issued
  /\ challenges' =
       [x \in ChallengeId |->
          IF x = c THEN [issued |-> TRUE, stored |-> TRUE, consumed |-> FALSE,
                         purpose |-> purpose, device |-> d, expiresAt |-> now + CHALLENGE_TTL]
          ELSE [challenges[x] EXCEPT !.stored = @ /\ ~challenges[x].consumed /\ ~Expired(x)]]
  /\ UNCHANGED <<now, trustedDevices, requests>>

Matches(c, purpose, d) ==
  /\ challenges[c].stored /\ challenges[c].purpose = purpose /\ challenges[c].device = d
  /\ ~challenges[c].consumed /\ ~Expired(c)

(* verifyProof up to its await; a proof that does not match is refused. *)
verifyProof(r, c, purpose, d) ==
  /\ requests[r].phase = "idle"
  /\ Matches(c, purpose, d)
  /\ requests' = [requests EXCEPT ![r] =
       [phase |-> "verifying", challenge |-> c, purpose |-> purpose, device |-> d,
        from |-> now, to |-> now]]
  /\ UNCHANGED <<now, challenges, trustedDevices>>

EndRequest(r, phase) == requests' = [requests EXCEPT ![r].phase = phase, ![r].to = now]

Verified(r) ==
  /\ requests[r].phase = "verifying"
  /\ challenges' = [challenges EXCEPT ![requests[r].challenge].consumed = TRUE]
  /\ UNCHANGED now

trustDevice(r) ==
  /\ Verified(r)
  /\ requests[r].purpose = "TRUST_DEVICE"
  /\ trustedDevices' = [trustedDevices EXCEPT ![requests[r].device] = "TRUSTED"]
  /\ EndRequest(r, "done")

(* A slip: the device was looked up before the verifier was asked. *)
everTrusted(d) == trustedDevices[d] # "NONE"
requireTrustedDevice(d) == trustedDevices[d] = "TRUSTED"

issueQr(r) ==
  /\ Verified(r)
  /\ requests[r].purpose = "ISSUE_QR"
  /\ EndRequest(r, IF requireTrustedDevice(requests[r].device) THEN "done" ELSE "refused")
  /\ UNCHANGED trustedDevices

(* The verifier says no, cannot be reached, or takes too long. *)
ProofRefused(r) ==
  /\ requests[r].phase = "verifying"
  /\ EndRequest(r, "refused")
  /\ UNCHANGED <<now, challenges, trustedDevices>>

(* The user, or the operator, gives a device up. *)
revokeDevice(d) ==
  /\ trustedDevices[d] = "TRUSTED"
  /\ trustedDevices' = [trustedDevices EXCEPT ![d] = "REVOKED"]
  /\ UNCHANGED <<now, challenges, requests>>

(* The process ends; what was under way is gone. *)
Restart ==
  /\ \E r \in Request : requests[r].phase = "verifying"
  /\ requests' = [r \in Request |-> IF requests[r].phase = "verifying"
                                    THEN [requests[r] EXCEPT !.phase = "refused", !.to = now]
                                    ELSE requests[r]]
  /\ UNCHANGED <<now, challenges, trustedDevices>>

(* The signal aborts a request to the verifier before the timeout is over. *)
Tick ==
  /\ now < Horizon
  /\ \A r \in Request : requests[r].phase = "verifying" => now < requests[r].from + VERIFY_TIMEOUT
  /\ now' = now + 1
  /\ UNCHANGED <<challenges, trustedDevices, requests>>

Next ==
  \/ Tick \/ Restart
  \/ \E c \in ChallengeId, purpose \in Purpose, d \in Device :
       issueChallenge(c, purpose, d) \/ \E r \in Request : verifyProof(r, c, purpose, d)
  \/ \E r \in Request : trustDevice(r) \/ issueQr(r) \/ ProofRefused(r)
  \/ \E d \in Device : revokeDevice(d)

Spec == Init /\ [][Next]_vars

-----------------------------------------------------------------------------
(* Properties *)

TypeOK ==
  /\ now \in 0..Horizon
  /\ challenges \in [ChallengeId -> Challenge]
  /\ trustedDevices \in [Device -> {"NONE", "TRUSTED", "REVOKED"}]
  /\ requests \in [Request ->
       [phase : {"idle", "verifying", "done", "refused"}, challenge : ChallengeId,
        purpose : Purpose, device : Device, from : 0..Horizon, to : 0..Horizon]]

(* The challenge is checked before the await and consumed after it, so two *)
(* requests may use it; but all its uses overlap, so that nothing that was *)
(* once used and answered is good later, and none ends later than the      *)
(* verifier's timeout after the challenge expired.                         *)
UsesOfAChallengeOverlap ==
  \A q, r \in Request :
    /\ requests[q].phase = "done" /\ requests[r].phase = "done"
    /\ requests[q].challenge = requests[r].challenge
    => /\ requests[q].from <= requests[r].to
       /\ requests[r].to < challenges[requests[r].challenge].expiresAt + VERIFY_TIMEOUT

(* Whatever was revoked while the verifier was asked, an admission code is *)
(* issued only for a device that is trusted at that moment.                *)
CodesGoToTrustedDevices ==
  [][\A r \in Request :
       requests[r].purpose = "ISSUE_QR" /\ requests[r].phase = "verifying"
         /\ requests'[r].phase = "done"
       => trustedDevices[requests[r].device] = "TRUSTED"]_vars
=============================================================================
