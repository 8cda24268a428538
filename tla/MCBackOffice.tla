---------------------------- MODULE MCBackOffice ----------------------------
(* Bounds of the back office.  Each component takes its names from three   *)
(* pools of interchangeable model values, two each; the applications,      *)
(* event drafts and persons are the pools' sets.                           *)
EXTENDS BackOffice, TLC

CONSTANTS OnlyChart, OnlyUpload, edit1, edit2, zone1, zone2, hall1, hall2,
          seat1, seat2, seat3

Interchangeable ==
  Permutations(Application) \union Permutations(EventDraft) \union Permutations(Person)

(* Two zones in one hall, with two edits that wait for posters at once;    *)
(* and two halls, where the first zone has different seats, and one edit.  *)
OneOrTwoHalls == "edits" :> {hall1} @@ "moves" :> {hall1, hall2}
TwoOrOneEdit == "edits" :> {edit1, edit2} @@ "moves" :> {edit1}
TwoOrOneEvent == "edits" :> 2 @@ "moves" :> 1
ThreeSeats == <<zone1, hall1>> :> seat1 @@ <<zone1, hall2>> :> seat2
              @@ <<zone2, hall1>> :> seat3 @@ <<zone2, hall2>> :> seat3
ZonePerSeat == seat1 :> zone1 @@ seat2 :> zone1 @@ seat3 :> zone2

(* Two charts that are loaded, saved and edited around one upload; and two *)
(* uploads that answer in any order, for the background or as objects.     *)
TwoOrOneChart == "designer" :> Application @@ "images" :> {OnlyChart}
OneOrTwoUploads == "designer" :> {OnlyUpload} @@ "images" :> EventDraft
OneOrNoCall == "designer" :> {"call"} @@ "images" :> {}
TwoOrOneRevision == "designer" :> 2 @@ "images" :> 1

(* Three objects, sections among them, and two steps of history; two       *)
(* floors, one object and three steps; two objects in two places, and two  *)
(* uploads that answer in any order.                                       *)
ThreeOneTwoObjects ==
  "drawing" :> Application \union {OnlyChart} @@ "floors" :> {OnlyChart} @@ "plans" :> Application
OneTwoOneFloor == "drawing" :> {OnlyUpload} @@ "floors" :> EventDraft @@ "plans" :> {OnlyUpload}
TwoPlansAtMost == "drawing" :> {} @@ "floors" :> {} @@ "plans" :> EventDraft
OneOneTwoPlaces == "drawing" :> {1} @@ "floors" :> {1} @@ "plans" :> {1, 2}
TwoThreeOneStep == "drawing" :> 2 @@ "floors" :> 3 @@ "plans" :> 1
NoneNoneTwoRequests == "drawing" :> 0 @@ "floors" :> 0 @@ "plans" :> 2
=============================================================================
