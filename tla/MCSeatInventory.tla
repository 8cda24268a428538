-------------------------- MODULE MCSeatInventory --------------------------
(* Two seats, two users, two holds and a draft: a hold of both seats, a    *)
(* hold taken over after its expiry by the other user, and a hold that     *)
(* waits while the other one becomes a draft.  The performances only       *)
(* restrict which seats may be asked for together; one leaves every        *)
(* combination open.                                                       *)
EXTENDS SeatInventory, TLC

CONSTANT Visitor

MCPerformanceOf == [s \in Seat |-> CHOOSE p \in Performance : TRUE]

(* Nothing distinguishes users, seats or record ids in the safety runs. *)
Interchangeable == Permutations(User) \union Permutations(Seat)
                     \union Permutations(HoldId) \union Permutations(DraftId)

-----------------------------------------------------------------------------
(* No timer watches a claim; what the code relies on is that other users   *)
(* come along.  Visitor keeps asking for seats, nobody else does anything  *)
(* in particular.                                                          *)
FairSpec ==
  /\ Spec
  /\ WF_vars(Tick)
  /\ WF_vars(\E S \in SUBSET Seat : createSeatHold(Visitor, S))

(* A hold or a draft can be made as long as the model has an id left. *)
IdLeft == \E h \in HoldId : seatHolds[h].status = "NONE"

(* 티켓그라운드 페이지 세부작업 내역서.md:143 asks that a seat claimed      *)
(* before payment be released when its time is up.  For a reservation      *)
(* draft whose user never returns that does not happen.                    *)
AbandonedDraftEnds ==
  \A d \in DraftId :
    DueDraft(d) /\ reservationDrafts[d].userId # Visitor /\ IdLeft ~> ~DueDraft(d)
=============================================================================
