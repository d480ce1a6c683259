------------------------------- MODULE Select -------------------------------
(***************************************************************************)
(* The elements of a sequence that are in a set, in their order: what the  *)
(* loops of ClipLedge do that push an element onto a list if a condition   *)
(* holds.  It is SelectSeq, with the condition as a set and the loop       *)
(* as a recursive function, so that proofs can use it.                     *)
(***************************************************************************)
EXTENDS Naturals, Sequences

SelectIn(s, S) ==
  LET pushed[n \in 0..Len(s)] ==
        IF n = 0 THEN << >>
        ELSE IF s[n] \in S THEN Append(pushed[n - 1], s[n]) ELSE pushed[n - 1]
  IN  pushed[Len(s)]
=============================================================================
