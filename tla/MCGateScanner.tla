--------------------------- MODULE MCGateScanner ---------------------------
(* One terminal of a gate that admits every code. *)
EXTENDS GateScanner

AllCodes == [g \in Gate |-> Code]
=============================================================================
