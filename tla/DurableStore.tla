---------------------------- MODULE DurableStore ----------------------------
(***************************************************************************)
(* What the single-file database promises to the HTTP clients, with no     *)
(* file, no save queue and no process lifecycle in sight.                  *)
(*                                                                         *)
(* Requests take effect in a visible store; from time to time a state of   *)
(* the visible store becomes durable; a crash loses what is not durable.   *)
(* A client is answered 200 only when everything its answer was computed   *)
(* from is durable.                                                        *)
(***************************************************************************)
CONSTANT Request

VARIABLES
  visible,   \* requests whose effects the handlers see
  durable,   \* requests whose effects survive a crash
  view,      \* the effects that the answer to a request was computed from
  answered   \* requests answered 200

vars == <<visible, durable, view, answered>>

Init ==
  /\ visible = {}
  /\ durable = {}
  /\ view = [r \in Request |-> {}]
  /\ answered = {}

(* A handler runs to its end: its effects, if any, and its answer. *)
Execute(r) ==
  /\ visible' \in {visible, visible \union {r}}
  /\ view' \in {view, [view EXCEPT ![r] = visible']}
  /\ UNCHANGED <<durable, answered>>

(* What is durable grows to some state between itself and the visible one. *)
Commit ==
  /\ durable \subseteq durable'
  /\ durable' \subseteq visible
  /\ UNCHANGED <<visible, view, answered>>

Answer(r) ==
  /\ view[r] \subseteq durable
  /\ answered' = answered \union {r}
  /\ UNCHANGED <<visible, durable, view>>

(* The effects that were not durable are gone; unanswered clients may have *)
(* seen none of them confirmed.                                            *)
Crash ==
  /\ visible' = durable
  /\ UNCHANGED <<durable, view, answered>>

Next ==
  \/ \E r \in Request : Execute(r) \/ Answer(r)
  \/ Commit
  \/ Crash

Spec == Init /\ [][Next]_vars
=============================================================================
