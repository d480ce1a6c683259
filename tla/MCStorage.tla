------------------------------ MODULE MCStorage -----------------------------
(***************************************************************************)
(* The contents and limits of the runs of Storage.                         *)
(***************************************************************************)
EXTENDS Storage, TLC

CONSTANTS small, large

TwoContents == {small, large}
TwoSizes    == small :> 2 @@ large :> 3
\* Roomy: a small and a large item fit, three do not.  Few: one unpinned item is
\* kept.  Tight: one item fits, whatever is pinned.
ThreeLimits == {[max_items |-> 3, max_days |-> 1, max_bytes |-> 6],
                [max_items |-> 1, max_days |-> 2, max_bytes |-> 6],
                [max_items |-> 2, max_days |-> 1, max_bytes |-> 4]}
=============================================================================
