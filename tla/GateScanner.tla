---------------------------- MODULE GateScanner ----------------------------
(***************************************************************************)
(* A gate terminal (src/src/components/gate/gate-scanner-panel.tsx) in     *)
(* front of POST /api/gate/verify (backend/admission-qr.js) and the gate   *)
(* sessions of the operator (backend/gate-sessions.js).  A scan whose      *)
(* request fails is kept in a queue in localStorage; a flush sends a       *)
(* snapshot of that queue one by one and then writes back what failed.     *)
(* Scans and flushes wait for the network side by side, and a request may  *)
(* be lost before the server has verified the code or after it.            *)
(*                                                                         *)
(* The camera, the texts and the label of the gate are left out, and so is *)
(* a text that is no code: it leaves nothing behind.  How long a code is   *)
(* good is left to Expire, how long the terminal ignores a code it has     *)
(* just read to CooldownEnds.                                              *)
(***************************************************************************)
EXTENDS Naturals, Sequences, Functions

CONSTANTS
  Code,                 \* admission codes, as issued
  Gate,                 \* gate sessions, each with its token
  Admits,               \* the codes whose event each gate is for, in [Gate -> SUBSET Code]
  Scan,                 \* bound: how often a code is read
  Flush,                \* bound: flushes that run at once
  GATE_QUEUE_MAX,       \* scans kept for later (30)
  NULL

VARIABLES
  gates,                \* status of each gate session
  usedBy, expired,      \* of a code: usedByGateId; whether it is past its time
  storedToken, queue,   \* localStorage of the terminal
  gateToken, lastPayload,       \* state of its page
  scans,                \* requests of handleDecodedText
  flushes,              \* runs of flushQueue
  told                  \* outcomes shown of each scan

serverVars == <<gates, usedBy, expired>>
pageVars == <<storedToken, queue, gateToken, lastPayload, scans, flushes, told>>
vars == <<serverVars, pageVars>>

Verdict == {"accepted", "already-used", "rejected"}
Outcome == Verdict \union {"queued", "error"}

(* A request is answered with a verdict, or the gate is refused; NULL as   *)
(* long as the server has not seen it.                                     *)
Answer == Verdict \union {"refused", NULL}

NotRead == [status |-> "none", code |-> NULL, token |-> NULL, answer |-> NULL]
NoFlush == [token |-> NULL, todo |-> <<>>, remaining |-> <<>>, answer |-> NULL]

Init ==
  /\ gates = [g \in Gate |-> "NONE"]
  /\ usedBy = [c \in Code |-> NULL]
  /\ expired = [c \in Code |-> FALSE]
  /\ storedToken = NULL /\ gateToken = NULL
  /\ queue = <<>>
  /\ lastPayload = NULL
  /\ scans = [s \in Scan |-> NotRead]
  /\ flushes = [f \in Flush |-> NoFlush]
  /\ told = [s \in Scan |-> {}]

-----------------------------------------------------------------------------
(* The server *)

issueGateSession(g) ==
  /\ gates[g] = "NONE"
  /\ gates' = [gates EXCEPT ![g] = "ACTIVE"]
  /\ UNCHANGED <<usedBy, expired, pageVars>>

revokeGateSession(g) ==
  /\ gates[g] = "ACTIVE"
  /\ gates' = [gates EXCEPT ![g] = "REVOKED"]
  /\ UNCHANGED <<usedBy, expired, pageVars>>

(* The code runs out, or its ticket changes hands. *)
Expire(c) ==
  /\ ~expired[c]
  /\ expired' = [expired EXCEPT ![c] = TRUE]
  /\ UNCHANGED <<gates, usedBy, pageVars>>

(* A slip: whether the code was used is not looked at. *)
verifyQrAgain(c, g) ==
  IF gates[g] # "ACTIVE" THEN "refused"
  ELSE IF expired[c] \/ c \notin Admits[g] THEN "rejected" ELSE "accepted"

(* requireGateSession, then verifyQr *)
verifyQr(c, g) ==
  IF gates[g] # "ACTIVE" THEN "refused"
  ELSE IF expired[c] THEN "rejected"
  ELSE IF usedBy[c] # NULL THEN "already-used"
  ELSE IF c \notin Admits[g] THEN "rejected" ELSE "accepted"

Consume(c, g) ==
  usedBy' = IF verifyQr(c, g) = "accepted" THEN [usedBy EXCEPT ![c] = g] ELSE usedBy

(* The same code is shown at another terminal; or a request arrives that   *)
(* this one has given up, or whose page is gone.                           *)
ScannedElsewhere(c, g) ==
  /\ verifyQr(c, g) = "accepted"
  /\ Consume(c, g)
  /\ UNCHANGED <<gates, expired, pageVars>>

-----------------------------------------------------------------------------
(* The queue *)

Idle(f) == flushes[f].token = NULL

(* What saveQueue keeps of a queue. *)
Kept(q) == IF Len(q) > GATE_QUEUE_MAX
           THEN SubSeq(q, Len(q) - GATE_QUEUE_MAX + 1, Len(q)) ELSE q

(* flushQueue up to its first request, when there is something to send.    *)
StartFlush(token, running) ==
  IF token = NULL \/ queue = <<>> THEN flushes' = running
  ELSE \E f \in Flush :
         /\ running[f] = NoFlush
         /\ flushes' = [running EXCEPT ![f] =
              [token |-> token, todo |-> queue, remaining |-> <<>>, answer |-> NULL]]

(* A slip: what failed is put behind what is there. *)
MergeBack(remaining) == Kept(queue \o remaining)

WriteBack(remaining) == Kept(remaining)

(* The end of one turn of the loop; the last turn writes the queue back.   *)
NextInFlush(f, remaining) ==
  LET rest == Tail(flushes[f].todo)
  IN IF rest = <<>>
     THEN flushes' = [flushes EXCEPT ![f] = NoFlush] /\ queue' = WriteBack(remaining)
     ELSE /\ flushes' = [flushes EXCEPT ![f] =
               [@ EXCEPT !.todo = rest, !.remaining = remaining, !.answer = NULL]]
          /\ UNCHANGED queue

FlushVerified(f) ==
  /\ ~Idle(f) /\ flushes[f].answer = NULL
  /\ LET code == scans[Head(flushes[f].todo)].code
     IN /\ Consume(code, flushes[f].token)
        /\ flushes' = [flushes EXCEPT ![f].answer = verifyQr(code, flushes[f].token)]
  /\ UNCHANGED <<gates, expired, storedToken, queue, gateToken, lastPayload, scans, told>>

FlushAnswered(f) ==
  /\ ~Idle(f) /\ flushes[f].answer \in Verdict
  /\ told' = [told EXCEPT ![Head(flushes[f].todo)] = @ \union {flushes[f].answer}]
  /\ NextInFlush(f, flushes[f].remaining)
  /\ UNCHANGED <<serverVars, storedToken, gateToken, lastPayload, scans>>

(* The network fails, before or after the server, or the gate is refused.  *)
FlushFails(f) ==
  /\ ~Idle(f)
  /\ NextInFlush(f, Append(flushes[f].remaining, Head(flushes[f].todo)))
  /\ UNCHANGED <<serverVars, storedToken, gateToken, lastPayload, scans, told>>

handleOnline ==
  /\ gateToken # NULL /\ queue # <<>>
  /\ StartFlush(gateToken, flushes)
  /\ UNCHANGED <<serverVars, storedToken, queue, gateToken, lastPayload, scans, told>>

-----------------------------------------------------------------------------
(* The page *)

Done(s) == [NotRead EXCEPT !.status = "done", !.code = scans[s].code]

(* The page opens, or opens again: what waited is gone, localStorage stays.*)
Mount ==
  /\ gateToken' = storedToken
  /\ lastPayload' = NULL
  /\ scans' = [s \in Scan |-> IF scans[s].status = "sent" THEN Done(s) ELSE scans[s]]
  /\ StartFlush(storedToken, [f \in Flush |-> NoFlush])
  /\ UNCHANGED <<serverVars, storedToken, queue, told>>

(* The form is shown while there is no token; a new one starts a flush.    *)
saveGateToken(g) ==
  /\ gateToken = NULL /\ gates[g] # "NONE"
  /\ storedToken' = g /\ gateToken' = g
  /\ StartFlush(g, flushes)
  /\ UNCHANGED <<serverVars, queue, lastPayload, scans, told>>

(* Requests and flushes under way go on with the token they have. *)
resetGateToken ==
  /\ gateToken # NULL
  /\ storedToken' = NULL /\ gateToken' = NULL
  /\ UNCHANGED <<serverVars, queue, lastPayload, scans, flushes, told>>

handleDecodedText(s, c) ==
  /\ gateToken # NULL
  /\ lastPayload # c
  /\ scans[s].status = "none"
  /\ lastPayload' = c
  /\ scans' = [scans EXCEPT ![s] = [status |-> "sent", code |-> c, token |-> gateToken,
                                    answer |-> NULL]]
  /\ UNCHANGED <<serverVars, storedToken, queue, gateToken, flushes, told>>

CooldownEnds ==
  /\ lastPayload # NULL
  /\ lastPayload' = NULL
  /\ UNCHANGED <<serverVars, storedToken, queue, gateToken, scans, flushes, told>>

ScanVerified(s) ==
  /\ scans[s].status = "sent" /\ scans[s].answer = NULL
  /\ Consume(scans[s].code, scans[s].token)
  /\ scans' = [scans EXCEPT ![s].answer = verifyQr(scans[s].code, scans[s].token)]
  /\ UNCHANGED <<gates, expired, storedToken, queue, gateToken, lastPayload, flushes, told>>

EndScan(s, outcome) ==
  /\ scans' = [scans EXCEPT ![s] = Done(s)]
  /\ told' = [told EXCEPT ![s] = @ \union {outcome}]
  /\ UNCHANGED <<serverVars, storedToken, gateToken, lastPayload, flushes>>

ScanAnswered(s) ==
  /\ scans[s].status = "sent" /\ scans[s].answer # NULL
  /\ EndScan(s, IF scans[s].answer \in Verdict THEN scans[s].answer ELSE "error")
  /\ UNCHANGED queue

(* NETWORK_ERROR, before or after the server: the scan is queued. *)
ScanLost(s) ==
  /\ scans[s].status = "sent"
  /\ EndScan(s, "queued")
  /\ queue' = Kept(Append(queue, s))

(* Something other than JSON comes back. *)
ScanUnreadable(s) ==
  /\ scans[s].status = "sent"
  /\ EndScan(s, "error")
  /\ UNCHANGED queue

-----------------------------------------------------------------------------
Next ==
  \/ \E g \in Gate : issueGateSession(g) \/ revokeGateSession(g) \/ saveGateToken(g)
  \/ \E c \in Code : Expire(c) \/ \E g \in Gate : ScannedElsewhere(c, g)
  \/ Mount \/ resetGateToken \/ handleOnline \/ CooldownEnds
  \/ \E s \in Scan :
       \/ \E c \in Code : handleDecodedText(s, c)
       \/ ScanVerified(s) \/ ScanAnswered(s) \/ ScanLost(s) \/ ScanUnreadable(s)
  \/ \E f \in Flush : FlushVerified(f) \/ FlushAnswered(f) \/ FlushFails(f)

Spec == Init /\ [][Next]_vars

-----------------------------------------------------------------------------
(* Properties *)

TypeOK ==
  /\ gates \in [Gate -> {"NONE", "ACTIVE", "REVOKED"}]
  /\ usedBy \in [Code -> Gate \union {NULL}]
  /\ expired \in [Code -> BOOLEAN]
  /\ storedToken \in Gate \union {NULL} /\ gateToken \in Gate \union {NULL}
  /\ lastPayload \in Code \union {NULL}
  /\ queue \in Seq(Scan)
  /\ scans \in [Scan -> [status : {"none", "sent", "done"}, code : Code \union {NULL},
                         token : Gate \union {NULL}, answer : Answer]]
  /\ flushes \in [Flush -> [token : Gate \union {NULL}, todo : Seq(Scan),
                            remaining : Seq(Scan), answer : Answer]]
  /\ told \in [Scan -> SUBSET Outcome]

(* admission-qr.js:131-180: whatever is lost, sent again from the queue or *)
(* shown at two gates at once, a code lets in once: of all its scans at    *)
(* this terminal at most one was ever shown as accepted, and what was      *)
(* shown, of acceptance and of earlier use, is what the server did.        *)
AcceptedOnce ==
  /\ \A s, t \in Scan :
       "accepted" \in told[s] /\ "accepted" \in told[t] /\ scans[s].code = scans[t].code => s = t
  /\ \A s \in Scan : told[s] \intersect {"accepted", "already-used"} # {}
                       => usedBy[scans[s].code] # NULL

(* gate-scanner-panel.tsx:94-116: flushes that overlap each other and new  *)
(* scans write the queue in any order, and it never holds a scan twice,    *)
(* nor more than GATE_QUEUE_MAX, nor one that was not shown as queued.     *)
QueueHoldsScansOnce ==
  /\ IsInjective(queue)
  /\ Len(queue) <= GATE_QUEUE_MAX
  /\ \A s \in Range(queue) : "queued" \in told[s]

(* gate-scanner-panel.tsx:202 tells the operator of a queued scan that it  *)
(* is verified as soon as the terminal is online: it is in the queue, or   *)
(* in a flush, or its verdict was shown.                                   *)
QueuedScansAreKept ==
  \A s \in Scan : "queued" \in told[s] =>
    \/ s \in Range(queue)
    \/ \E f \in Flush : s \in Range(flushes[f].todo) \union Range(flushes[f].remaining)
    \/ told[s] \intersect Verdict # {}
=============================================================================
