--------------------------- MODULE MCPreservation ---------------------------
(***************************************************************************)
(* Two windows of other programs and what happens to them.                 *)
(***************************************************************************)
EXTENDS Preservation

CONSTANTS w1, w2

AllEvents   == {"Exit", "Clear", "Save", "Pause", "Reject", "Timeout", "Manager", "Gdk"}
=============================================================================
