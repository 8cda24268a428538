------------------------------- MODULE Lists -------------------------------
(***************************************************************************)
(* Filtering of sequences, for the modules that are proved about.          *)
(***************************************************************************)
EXTENDS Integers, Sequences

(* The elements of s that are in S, in the order they have in s.           *)
Only(s, S) ==
  LET only[n \in 0..Len(s)] ==
        IF n = 0 THEN <<>>
        ELSE IF s[n] \in S THEN Append(only[n - 1], s[n]) ELSE only[n - 1]
  IN only[Len(s)]
=============================================================================
