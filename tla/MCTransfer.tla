------------------------------ MODULE MCTransfer ----------------------------
(***************************************************************************)
(* The targets and offers of the runs of Transfer.                         *)
(***************************************************************************)
EXTENDS Transfer

CONSTANTS text, html, other, hint

FourAtoms   == {text, html, other, hint}
TwoAllowed  == {text, html}
ThreeOffers == {<<text, html>>, <<other, html>>, <<text, hint>>}
=============================================================================
