-------------------------------- MODULE Sums --------------------------------
(***************************************************************************)
(* Sums over finite sets, for the modules that count money.                *)
(***************************************************************************)
EXTENDS FiniteSetsExt

(* The sum of the values f gives to the elements of S. *)
Total(f, S) == MapThenSumSet(LAMBDA s : f[s], S)
=============================================================================
