------------------------------ MODULE SeatBook ------------------------------
(***************************************************************************)
(* What primary ticketing promises about a seat, with no holds, drafts or  *)
(* handlers in sight.                                                      *)
(*                                                                         *)
(* A seat is open, blocked by the operator, claimed by one user until some *)
(* time, or sold.  A set of seats is claimed all or none.  A live claim    *)
(* can be prolonged, given up or turned into a sale by its user only; a    *)
(* claim past its time may be cleared by anybody and may no longer be used *)
(* by its user.  A sale is final.                                          *)
(***************************************************************************)
EXTENDS Naturals

CONSTANTS
  Seat, User, Nobody,
  MaxClaim    \* no claim is made or prolonged further ahead than this

VARIABLES
  now,    \* the clock
  book    \* the state of each seat: who has it, and until when

vars == <<now, book>>

Entry(state, by, until) == [state |-> state, by |-> by, until |-> until]
Open == Entry("open", Nobody, 0)
Blocked == Entry("blocked", Nobody, 0)
Sold(u) == Entry("sold", u, 0)

(* Seats that u may still act on as their claimant. *)
ClaimedBy(u) == {s \in Seat : /\ book[s].state = "claimed"
                              /\ book[s].by = u
                              /\ book[s].until > now}

Lapsed == {s \in Seat : book[s].state = "claimed" /\ book[s].until <= now}

Init ==
  /\ now = 0
  /\ book = [s \in Seat |-> Open]

Tick ==
  /\ now' = now + 1
  /\ UNCHANGED book

(* S becomes entry e, and of the lapsed claims those in L are cleared. *)
Write(S, e, L) ==
  /\ book' = [s \in Seat |-> IF s \in S THEN e ELSE IF s \in L THEN Open ELSE book[s]]
  /\ UNCHANGED now

Soon == (now + 1)..(now + MaxClaim)

Claim(u, S) ==
  \E L \in SUBSET Lapsed :
    /\ \A s \in S : book[s] = Open \/ s \in L
    /\ \E until \in Soon : Write(S, Entry("claimed", u, until), L)

Clear == \E L \in SUBSET Lapsed : Write({}, Open, L)

Prolong(u, S) ==
  /\ S \subseteq ClaimedBy(u)
  /\ \E until \in Soon : Write(S, Entry("claimed", u, until), {})

GiveUp(u, S) ==
  /\ S \subseteq ClaimedBy(u)
  /\ Write(S, Open, {})

Sell(u, S) ==
  /\ \A s \in S : book[s] = Open \/ s \in ClaimedBy(u)
  /\ Write(S, Sold(u), {})

(* The operator blocks the seats of B and unblocks those of U. *)
Arrange(B, U) ==
  /\ \A s \in B \union U : book[s] \in {Open, Blocked}
  /\ book' = [s \in Seat |-> IF s \in B THEN Blocked ELSE IF s \in U THEN Open ELSE book[s]]
  /\ UNCHANGED now

Next ==
  \/ Tick
  \/ Clear
  \/ \E u \in User, S \in (SUBSET Seat) \ {{}} :
       Claim(u, S) \/ Prolong(u, S) \/ GiveUp(u, S) \/ Sell(u, S)
  \/ \E B, U \in SUBSET Seat : Arrange(B, U)

Spec == Init /\ [][Next]_vars
=============================================================================
