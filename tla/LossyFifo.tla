----------------------------- MODULE LossyFifo ------------------------------
(***************************************************************************)
(* What the capture pipeline promises, whatever its threads, slots and     *)
(* cancellations do: copies are numbered as the clipboard changes hands,   *)
(* any of them may get lost, and the others reach history in the order of  *)
(* the copies, each at most once.                                          *)
(***************************************************************************)
EXTENDS Naturals

VARIABLES
  begun,     \* copies made so far, numbered from 1
  delivered  \* copies that reached history

Init == begun = 0 /\ delivered = {}

Begin == begun' = begun + 1 /\ UNCHANGED delivered

Deliver(c) ==
  /\ \A d \in delivered : d < c
  /\ delivered' = delivered \cup {c}
  /\ UNCHANGED begun

Next == Begin \/ \E c \in 1..begun : Deliver(c)

Spec == Init /\ [][Next]_<<begun, delivered>>
=============================================================================
