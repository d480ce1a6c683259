------------------------------- MODULE History ------------------------------
(***************************************************************************)
(* What the encrypted history promises its user, whatever happens to the   *)
(* machine below it: a capture goes in whole, a pinned item leaves only    *)
(* when the user asked for exactly that (docs/privacy.md 33-36), and what  *)
(* room must be made is made of items that are not pinned                  *)
(* (docs/architecture.md 45-46).  Storage implements it.                   *)
(***************************************************************************)
CONSTANTS
  Contents,  \* what can be copied
  Ids        \* row ids

VARIABLES
  held,   \* id -> [content, pinned]
  asked   \* the last command that was carried out

HInit == held = << >> /\ asked = [op |-> "none"]

Unpinned == {i \in DOMAIN held : ~held[i].pinned}
Lose(S)  == held' = [i \in DOMAIN held \ S |-> held[i]]

\* A capture is added under an id no held item has, and displaces what is not
\* pinned; an item copied again may be displaced by its own capture.
Keep(id, c) ==
  /\ id \notin DOMAIN held
  /\ asked' = [op |-> "insert", id |-> id]
  /\ \E S \in SUBSET Unpinned, new \in BOOLEAN :
       held' = [i \in (DOMAIN held \ S) \cup (IF new THEN {id} ELSE {}) |->
                  IF i = id THEN [content |-> c, pinned |-> FALSE] ELSE held[i]]

\* Room is made.
Forget == \E S \in SUBSET Unpinned : Lose(S)

\* The user deletes one item, with a confirmation if it is pinned ...
Erase(id, confirmed) ==
  /\ asked' = [op |-> "delete", id |-> id, confirmed |-> confirmed]
  /\ id \in DOMAIN held /\ held[id].pinned => confirmed
  /\ Lose({id})

\* ... or clears the history, with the pins or without ...
Wipe(pins) ==
  /\ asked' = [op |-> "clear", pins |-> pins]
  /\ Lose(IF pins THEN DOMAIN held ELSE Unpinned)

\* ... or pins an item or takes the pin away.
Toggle(id) ==
  /\ id \in DOMAIN held
  /\ held' = [held EXCEPT ![id].pinned = ~@]
  /\ UNCHANGED asked

HNext ==
  \/ \E id \in Ids, c \in Contents : Keep(id, c)
  \/ Forget /\ asked'.op \notin {"delete", "clear"}
  \/ Forget /\ UNCHANGED asked
  \/ \E id \in Ids, confirmed \in BOOLEAN : Erase(id, confirmed)
  \/ \E pins \in BOOLEAN : Wipe(pins)
  \/ \E id \in Ids : Toggle(id)

HSpec == HInit /\ [][HNext]_<<held, asked>>
=============================================================================
