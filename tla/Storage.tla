------------------------------- MODULE Storage ------------------------------
(***************************************************************************)
(* The encrypted history: two tables that only the writer thread changes,  *)
(* items and the FTS index of their words (src/storage.rs).                *)
(*                                                                         *)
(* An insertion is one SQL transaction, retention and index included, and  *)
(* so one action here.  Every other command deletes rows in one            *)
(* transaction and rebuilds the index in a later one, and whatever grows   *)
(* the file is followed by maintain, which deletes rows one by one until   *)
(* the file fits.  Between two transactions the program may stop, or the   *)
(* disk may refuse the next one: pc says which transaction comes next.     *)
(*                                                                         *)
(* The reader's connection is query_only and is left out: it reads states  *)
(* of these variables.  Encryption, schema and payloads are left out too;  *)
(* an item is the content it was made from, whose checksum identifies it.  *)
(***************************************************************************)
EXTENDS Functions, FiniteSets, Integers

CONSTANTS
  Contents,    \* what can be copied
  Size,        \* bytes of a content
  Overhead,    \* bytes of a file without items
  Limits,      \* settings: [max_items, max_days, max_bytes]
  MaxId,       \* bound on row ids
  MaxClock     \* bound on the clock, in days

ASSUME StorageAssumption ==
  /\ Size \in [Contents -> Nat] /\ Overhead \in Nat
  /\ Limits \subseteq [max_items : Nat \ {0}, max_days : Nat \ {0}, max_bytes : Nat]
  /\ MaxId \in Nat /\ MaxClock \in Nat

VARIABLES
  rows,      \* items: id -> [content, captured, pinned]
  index,     \* items_fts: rowid -> content
  settings,  \* the limits the writer works with
  clock,     \* now()
  cmd,       \* the command that is or was last carried out
  pc,        \* its next transaction; "idle" between commands, "closed" without db
  result     \* how the last command ended

vars == <<rows, index, settings, clock, cmd, pc, result>>

Ids     == 1..MaxId
Row     == [content : Contents, captured : 0..MaxClock, pinned : BOOLEAN]
Command == [op : {"none", "unlock", "settings"}] \cup [op : {"insert"}, id : Ids]
           \cup [op : {"delete"}, id : Ids, confirmed : BOOLEAN]
           \cup [op : {"clear"}, pins : BOOLEAN]

TypeOK ==
  /\ \E D \in SUBSET Ids : rows \in [D -> Row]
  /\ \E D \in SUBSET Ids : index \in [D -> Contents]
  /\ settings \in Limits /\ clock \in 0..MaxClock
  /\ cmd \in Command
  /\ pc \in {"closed", "idle", "prune", "rebuild", "maintain", "shrink", "check"}
  /\ result \in {"none", "ok", "failed", "storage-capacity", "storage-write",
                 "confirmation-required"}

Init ==
  /\ rows = << >> /\ index = << >>
  /\ settings \in Limits /\ clock = 0
  /\ cmd = [op |-> "none"] /\ pc = "closed" /\ result = "none"
-----------------------------------------------------------------------------
(***************************************************************************)
(* The tables.                                                             *)
(***************************************************************************)
UnpinnedIn(r) == {i \in DOMAIN r : ~r[i].pinned}
PinnedIn(r)   == {i \in DOMAIN r : r[i].pinned}

\* ORDER BY captured, id
Older(r, i, j) ==
  \/ r[i].captured < r[j].captured
  \/ r[i].captured = r[j].captured /\ i < j
IsNewest(r, i) == i \in DOMAIN r /\ \A j \in DOMAIN r \ {i} : Older(r, j, i)

Bytes(r, S) == FoldFunctionOnSet(+, 0, [i \in DOMAIN r |-> Size[r[i].content]], S)

\* The file after a VACUUM.
Physical(r) == Overhead + Bytes(r, DOMAIN r)

\* Mutant of Stale: pinned rows are not spared.
StalePins(r) ==
  {i \in DOMAIN r :
     \/ r[i].captured < clock - settings.max_days
     \/ Cardinality({j \in DOMAIN r : Older(r, i, j)}) >= settings.max_items}

\* Mutant of Stale: the order of the subquery is reversed.
StaleNewest(r) ==
  {i \in UnpinnedIn(r) :
     \/ r[i].captured < clock - settings.max_days
     \/ Cardinality({j \in UnpinnedIn(r) : Older(r, j, i)}) >= settings.max_items}

\* Mutant of Stale: one more row than max_items is left.
StaleOneOff(r) ==
  {i \in UnpinnedIn(r) :
     \/ r[i].captured < clock - settings.max_days
     \/ Cardinality({j \in UnpinnedIn(r) : Older(r, i, j)}) > settings.max_items}

\* What retention deletes: what is too old, and what is beyond max_items of the
\* unpinned rows from the newest on.
Stale(r) ==
  {i \in UnpinnedIn(r) :
     \/ r[i].captured < clock - settings.max_days
     \/ Cardinality({j \in UnpinnedIn(r) : Older(r, i, j)}) >= settings.max_items}

\* Mutant of Surplus: the oldest by id, not by capture.
SurplusById(r) ==
  {i \in UnpinnedIn(r) :
     Bytes(r, {j \in DOMAIN r : r[j].pinned \/ j >= i}) > settings.max_bytes}

\* What makes room: the oldest unpinned rows, while the rest is too large.
Surplus(r) ==
  {i \in UnpinnedIn(r) :
     Bytes(r, {j \in DOMAIN r : r[j].pinned \/ ~Older(r, j, i)}) > settings.max_bytes}

Without(r, S) == Restrict(r, DOMAIN r \ S)

\* A row without AUTOINCREMENT takes the id after the largest in use.
IsNext(id) ==
  /\ \A i \in DOMAIN rows : i < id
  /\ id = 1 \/ id - 1 \in DOMAIN rows

\* Mutant of Indexed: the rows themselves are inserted.
IndexedRows(r) == r

\* Mutant of Indexed: the new index is not filled.
IndexedEmpty(r) == << >>

\* DROP, CREATE, INSERT ... SELECT
Indexed(r) == [i \in DOMAIN r |-> r[i].content]
-----------------------------------------------------------------------------
(***************************************************************************)
(* insert_if.  stored is the items table with the capture in it, words the *)
(* index with its words.  A capture that is cancelled, and one the disk    *)
(* has no room for, changes nothing and is no action.                      *)
(***************************************************************************)
Refuse(why) ==
  /\ result' = why
  /\ UNCHANGED <<rows, index, settings, clock, cmd, pc>>

\* Retention, the index and the commit.
Commit(id, stored, words) ==
  LET pruned == Without(stored, Stale(stored))
      kept   == Without(pruned, Surplus(pruned))
  IN  IF Bytes(stored, PinnedIn(stored)) > settings.max_bytes
      THEN Refuse("storage-capacity")
      ELSE /\ rows' = kept
           /\ index' = IF DOMAIN words \subseteq DOMAIN kept THEN words
                                                             ELSE Indexed(kept)
           /\ cmd' = [op |-> "insert", id |-> id]
           /\ pc' = "maintain"
           /\ UNCHANGED <<settings, clock, result>>

\* The newest item is copied again.
Recopy(id) ==
  /\ pc = "idle" /\ IsNewest(rows, id)
  /\ Commit(id, [rows EXCEPT ![id].captured = clock], index)

\* Something else is copied; the index refuses a rowid it already has.
Add(id, c) ==
  /\ pc = "idle" /\ IsNext(id)
  /\ \A i \in DOMAIN rows : IsNewest(rows, i) => rows[i].content # c
  /\ IF Bytes(rows, PinnedIn(rows)) + Size[c] > settings.max_bytes
     THEN Refuse("storage-capacity")
     ELSE IF id \in DOMAIN index
     THEN Refuse("storage-write")
     ELSE Commit(id, [i \in DOMAIN rows \cup {id} |->
                        IF i = id
                        THEN [content |-> c, captured |-> clock, pinned |-> FALSE]
                        ELSE rows[i]],
                     [i \in DOMAIN index \cup {id} |-> IF i = id THEN c ELSE index[i]])

\* After maintain: was the item retained?
Check ==
  /\ pc = "check"
  /\ pc' = "idle"
  /\ result' = IF cmd.id \in DOMAIN rows THEN "ok" ELSE "storage-capacity"
  /\ UNCHANGED <<rows, index, settings, clock, cmd>>
-----------------------------------------------------------------------------
(***************************************************************************)
(* The other commands.                                                     *)
(***************************************************************************)
Begin(command, next) == cmd' = command /\ pc' = next

\* Storage::open and expire, when the keyring has given the key.
Unlock ==
  /\ pc = "closed"
  /\ Begin([op |-> "unlock"], "prune")
  /\ UNCHANGED <<rows, index, settings, clock, result>>

\* New settings expire at once if the history is open.
ChangeSettings(new) ==
  /\ pc \in {"idle", "closed"} /\ new # settings
  /\ settings' = new
  /\ IF pc = "idle" THEN Begin([op |-> "settings"], "prune") ELSE UNCHANGED <<cmd, pc>>
  /\ UNCHANGED <<rows, index, clock, result>>

Expire ==
  /\ pc = "prune"
  /\ rows' = Without(rows, Stale(rows))
  /\ pc' = IF Stale(rows) = {} THEN "maintain" ELSE "rebuild"
  /\ UNCHANGED <<index, settings, clock, cmd, result>>

Pin(id) ==
  /\ pc = "idle" /\ id \in DOMAIN rows
  /\ rows' = [rows EXCEPT ![id].pinned = ~@]
  /\ UNCHANGED <<index, settings, clock, cmd, pc, result>>

\* The id is the one a card showed: its item may be gone.
Delete(id, confirmed) ==
  /\ pc = "idle"
  /\ IF id \in PinnedIn(rows) /\ ~confirmed
     THEN Refuse("confirmation-required")
     ELSE /\ rows' = Without(rows, {id})
          /\ Begin([op |-> "delete", id |-> id, confirmed |-> confirmed], "rebuild")
          /\ UNCHANGED <<index, settings, clock, result>>

Clear(pins) ==
  /\ pc = "idle"
  /\ rows' = Without(rows, IF pins THEN DOMAIN rows ELSE UnpinnedIn(rows))
  /\ Begin([op |-> "clear", pins |-> pins], "rebuild")
  /\ UNCHANGED <<index, settings, clock, result>>

\* Mutant of RebuildIndex: only the words of the deleted row are removed.
RebuildDeleted ==
  /\ pc = "rebuild"
  /\ index' = IF cmd.op = "delete" THEN Without(index, {cmd.id}) ELSE Indexed(rows)
  /\ IF cmd.op \in {"unlock", "settings"}
     THEN pc' = "maintain" /\ UNCHANGED result
     ELSE pc' = "idle" /\ result' = "ok"
  /\ UNCHANGED <<rows, settings, clock, cmd>>

\* rebuild_index of expire, delete and clear.
RebuildIndex ==
  /\ pc = "rebuild"
  /\ index' = Indexed(rows)
  /\ IF cmd.op \in {"unlock", "settings"}
     THEN pc' = "maintain" /\ UNCHANGED result
     ELSE pc' = "idle" /\ result' = "ok"
  /\ UNCHANGED <<rows, settings, clock, cmd>>

\* A command fails; what an unlock had opened is dropped again.
EndWith(why) ==
  /\ result' = why
  /\ pc' = IF cmd.op = "unlock" THEN "closed" ELSE "idle"
  /\ UNCHANGED <<settings, clock, cmd>>

\* Mutant of Maintain: the loop goes on when there is nothing left to delete.
MaintainOnAndOn ==
  /\ pc = "maintain"
  /\ UNCHANGED index
  /\ IF Physical(rows) <= settings.max_bytes
     THEN /\ IF cmd.op = "insert"
             THEN pc' = "check" /\ UNCHANGED result
             ELSE pc' = "idle" /\ result' = "ok"
          /\ UNCHANGED <<rows, settings, clock, cmd>>
     ELSE /\ pc' = "shrink"
          /\ rows' = Without(rows, {i \in UnpinnedIn(rows) :
                                      \A j \in UnpinnedIn(rows) \ {i} : Older(rows, i, j)})
          /\ UNCHANGED <<settings, clock, cmd, result>>

\* maintain: one round of its loop, up to the rebuild ...
Maintain ==
  /\ pc = "maintain"
  /\ UNCHANGED index
  /\ IF Physical(rows) <= settings.max_bytes
     THEN /\ IF cmd.op = "insert"
             THEN pc' = "check" /\ UNCHANGED result
             ELSE pc' = "idle" /\ result' = "ok"
          /\ UNCHANGED <<rows, settings, clock, cmd>>
     ELSE IF UnpinnedIn(rows) = {}
     THEN EndWith("storage-capacity") /\ UNCHANGED rows
     ELSE /\ pc' = "shrink"
          /\ \E i \in UnpinnedIn(rows) :
               /\ \A j \in UnpinnedIn(rows) \ {i} : Older(rows, i, j)
               /\ rows' = Without(rows, {i})
          /\ UNCHANGED <<settings, clock, cmd, result>>

\* ... and the rebuild.
Shrink ==
  /\ pc = "shrink"
  /\ index' = Indexed(rows)
  /\ pc' = "maintain"
  /\ UNCHANGED <<rows, settings, clock, cmd, result>>
-----------------------------------------------------------------------------
(***************************************************************************)
(* What goes wrong, and time.                                              *)
(***************************************************************************)
\* The next transaction, checkpoint or VACUUM is refused, or the checkpoint after a
\* rebuild.  A command that fails before its first transaction is no action.
Fail ==
  /\ pc \notin {"idle", "closed"}
  /\ EndWith("failed")
  /\ \/ UNCHANGED index
     \/ pc \in {"rebuild", "shrink"} /\ index' = Indexed(rows)
  /\ UNCHANGED rows

\* The program ends, or a lock closes the history.
Stop ==
  /\ pc # "closed"
  /\ pc' = "closed"
  /\ UNCHANGED <<rows, index, settings, clock, cmd, result>>

\* Time passes, or the clock is set back.  No transaction but the first of a
\* command reads the clock.
SetClock(t) ==
  /\ pc \in {"idle", "closed"} /\ t # clock
  /\ clock' = t
  /\ UNCHANGED <<rows, index, settings, cmd, pc, result>>

Step == Check \/ Expire \/ RebuildIndex \/ Maintain \/ Shrink

Next ==
  \/ \E id \in Ids : Recopy(id) \/ Pin(id)
  \/ \E id \in Ids, c \in Contents : Add(id, c)
  \/ \E id \in Ids, confirmed \in BOOLEAN : Delete(id, confirmed)
  \/ \E pins \in BOOLEAN : Clear(pins)
  \/ \E new \in Limits : ChangeSettings(new)
  \/ \E t \in 0..MaxClock : SetClock(t)
  \/ Unlock \/ Step \/ Fail \/ Stop

Spec     == Init /\ [][Next]_vars
\* The writer thread goes on with the command it carries out.
FairSpec == Spec /\ WF_vars(Step)
-----------------------------------------------------------------------------
(***************************************************************************)
(* Properties.                                                             *)
(***************************************************************************)
\* Whatever is stored can be found by its words, at every moment and after every
\* interruption: search_page (storage.rs:334) finds a row only through items_fts.
RowsIndexed ==
  \A i \in DOMAIN rows : i \in DOMAIN index /\ index[i] = rows[i].content

\* The tables keep the promise of the abstract history: a pinned item leaves only
\* by its own confirmed deletion or a clear with the pins, across retention,
\* compaction, failures, restarts and reused ids (storage.rs:404-417).
Held(r)  == [i \in DOMAIN r |-> [content |-> r[i].content, pinned |-> r[i].pinned]]
Abstract == INSTANCE History WITH held <- Held(rows), asked <- cmd
KeepsHistory == Abstract!HSpec

\* A deletion that is reported done has left no word in the index, even when an
\* earlier one was interrupted (storage.rs:246-257, docs/privacy.md:33-34).
DoneMeansGone ==
  [][ (result' = "ok" /\ pc' = "idle" /\ pc \in {"check", "rebuild"})
        => DOMAIN index' \subseteq DOMAIN rows' ]_vars

\* A capture that is committed is in the history, retention of its own transaction
\* never takes it (storage.rs:236-244): unless the clock was set back, or the item
\* was there already and no longer fits beside the pins, which only an insertion of
\* a new item checks (storage.rs:203-219).
ClockSane == \A i \in DOMAIN rows : rows[i].captured <= clock
CaptureRetained ==
  [][ (/\ pc = "idle" /\ pc' = "maintain" /\ ClockSane
       /\ Bytes(rows, PinnedIn(rows) \cup ({cmd'.id} \cap DOMAIN rows)) <= settings.max_bytes)
        => cmd'.id \in DOMAIN rows' ]_vars

\* Retention, whichever of its three rules acts, takes the oldest unpinned rows: none
\* it leaves is older than one it takes (storage.rs:236, 244, 302).
OldestFirst ==
  [][ (cmd'.op \notin {"delete", "clear"} /\ ClockSane)
        => \A i \in DOMAIN rows \ DOMAIN rows', j \in UnpinnedIn(rows') :
             \/ rows[i].captured < rows'[j].captured
             \/ rows[i].captured = rows'[j].captured /\ i < j ]_vars

\* A capture, new settings or an unlock that ends well leaves a history within the
\* limits of its settings, the file included (docs/architecture.md:45-46).
WithinLimits ==
  [][ (result' = "ok" /\ pc' = "idle" /\ pc \in {"check", "maintain"})
        => /\ Cardinality(UnpinnedIn(rows)) <= settings.max_items
           /\ Physical(rows) <= settings.max_bytes
           /\ \A i \in UnpinnedIn(rows) : rows[i].captured >= clock - settings.max_days ]_vars

\* The loop of maintain ends: the writer comes back to its requests whatever is
\* pinned and however small the limit (storage.rs:301-311).
CommandsEnd == (pc \notin {"idle", "closed"}) ~> (pc \in {"idle", "closed"})

\* Violated.  Deletion "reconstructs the FTS index so old index entries are not
\* retained as tombstones" (docs/privacy.md:33-34).
NoTombstones == pc = "idle" => DOMAIN index \subseteq DOMAIN rows
=============================================================================
