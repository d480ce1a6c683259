---------------------------- MODULE StorageProofs ---------------------------
(***************************************************************************)
(* For every set of contents, sizes and limits, and any number of rows:    *)
(* the tables have their types, every row is in the index, a deletion that *)
(* is reported done leaves nothing there, and the tables implement the     *)
(* abstract history, so that pins survive.  Retention takes the oldest and *)
(* never the capture that is being stored, a command that ends well leaves *)
(* the history within its limits, and every step brings a command closer   *)
(* to its end.                                                             *)
(***************************************************************************)
EXTENDS Storage, DataLemmas

\* The types, with the domains named.
Typed ==
  /\ DOMAIN rows \subseteq Ids /\ rows \in [DOMAIN rows -> Row]
  /\ DOMAIN index \subseteq Ids /\ index \in [DOMAIN index -> Contents]
  /\ settings \in Limits /\ clock \in 0..MaxClock
  /\ cmd \in Command
  /\ pc \in {"closed", "idle", "prune", "rebuild", "maintain", "shrink", "check"}
  /\ result \in {"none", "ok", "failed", "storage-capacity", "storage-write",
                 "confirmation-required"}

\* After an insertion's commit its maintenance keeps the index free of orphans,
\* except between a deletion and the rebuild that follows it.
Tidy ==
  /\ pc = "check" => cmd.op = "insert"
  /\ pc = "prune" => cmd.op # "insert"
  /\ (cmd.op = "insert" /\ pc \in {"maintain", "check"}) => DOMAIN index \subseteq DOMAIN rows

Inv == Typed /\ RowsIndexed /\ Tidy
-----------------------------------------------------------------------------
(***************************************************************************)
(* Lemmas about the tables.                                                *)
(***************************************************************************)
LEMMA IndexedFacts ==
  ASSUME NEW r, DOMAIN r \subseteq Ids, r \in [DOMAIN r -> Row]
  PROVE  /\ DOMAIN Indexed(r) = DOMAIN r
         /\ \A i \in DOMAIN r : Indexed(r)[i] = r[i].content
         /\ Indexed(r) \in [DOMAIN Indexed(r) -> Contents]
BY DEF Indexed, Row

\* A commit deletes only rows that are not pinned, and leaves an index of what
\* stays, whatever the sizes and limits are.
LEMMA CommitEffect ==
  ASSUME NEW id, NEW stored, NEW words, Commit(id, stored, words),
         DOMAIN stored \subseteq Ids, stored \in [DOMAIN stored -> Row]
  PROVE  \/ Refuse("storage-capacity")
         \/ /\ \E S \in SUBSET UnpinnedIn(stored) : rows' = Without(stored, S)
            /\ index' = IF DOMAIN words \subseteq DOMAIN rows' THEN words
                                                             ELSE Indexed(rows')
            /\ cmd' = [op |-> "insert", id |-> id] /\ pc' = "maintain"
            /\ UNCHANGED <<settings, clock, result>>
<1> DEFINE pruned == Without(stored, Stale(stored))
           T      == Stale(stored) \cup Surplus(pruned)
<1>1. /\ DOMAIN pruned = DOMAIN stored \ Stale(stored)
      /\ \A i \in DOMAIN pruned : pruned[i] = stored[i]
  BY DEF Without, Restrict
<1>2. Stale(stored) \subseteq UnpinnedIn(stored)
  BY DEF Stale
<1>3. Surplus(pruned) \subseteq UnpinnedIn(stored)
  <2>1. Surplus(pruned) \subseteq UnpinnedIn(pruned)
    BY DEF Surplus
  <2> QED BY <2>1, <1>1 DEF UnpinnedIn
<1>4. T \in SUBSET UnpinnedIn(stored)
  BY <1>2, <1>3
<1>5. Without(pruned, Surplus(pruned)) = Without(stored, T)
  <2>1. DOMAIN pruned \ Surplus(pruned) = DOMAIN stored \ T
    BY <1>1
  <2>2. \A i \in DOMAIN stored \ T : pruned[i] = stored[i]
    BY <1>1
  <2> HIDE DEF pruned, T
  <2> QED BY <2>1, <2>2 DEF Without, Restrict
<1> HIDE DEF T
<1> QED BY <1>4, <1>5 DEF Commit
-----------------------------------------------------------------------------
(***************************************************************************)
(* The invariant.                                                          *)
(***************************************************************************)
LEMMA InitInv == Init => Inv
<1> SUFFICES ASSUME Init PROVE Inv
  OBVIOUS
<1>1. DOMAIN rows = {} /\ DOMAIN index = {}
  BY DEF Init
<1>2. rows \in [DOMAIN rows -> Row] /\ index \in [DOMAIN index -> Contents]
  BY DEF Init
<1>3. 0 \in 0..MaxClock
  BY StorageAssumption
<1>4. cmd \in Command
  BY DEF Init, Command
<1> QED BY <1>1, <1>2, <1>3, <1>4 DEF Init, Inv, Typed, RowsIndexed, Tidy

\* A table with a capture in it, committed.
LEMMA CommitInv ==
  ASSUME Inv, NEW id \in Ids, NEW stored, NEW words, Commit(id, stored, words),
         DOMAIN stored \subseteq Ids, stored \in [DOMAIN stored -> Row],
         DOMAIN words \subseteq Ids, words \in [DOMAIN words -> Contents],
         \A i \in DOMAIN stored : i \in DOMAIN words /\ words[i] = stored[i].content,
         pc = "idle"
  PROVE  Inv'
<1>1. CASE Refuse("storage-capacity")
  BY <1>1 DEF Refuse, Inv, Typed, RowsIndexed, Tidy
<1>2. CASE ~Refuse("storage-capacity")
  <2>1. PICK S \in SUBSET UnpinnedIn(stored) : rows' = Without(stored, S)
    BY <1>2, CommitEffect
  <2>2. /\ index' = IF DOMAIN words \subseteq DOMAIN rows' THEN words ELSE Indexed(rows')
        /\ cmd' = [op |-> "insert", id |-> id] /\ pc' = "maintain"
        /\ UNCHANGED <<settings, clock, result>>
    BY <1>2, CommitEffect
  <2>3. /\ DOMAIN rows' \subseteq Ids /\ rows' \in [DOMAIN rows' -> Row]
        /\ DOMAIN rows' = DOMAIN stored \ S
        /\ \A i \in DOMAIN rows' : rows'[i] = stored[i]
    BY <2>1 DEF Without, Restrict
  <2>4. /\ DOMAIN Indexed(rows') = DOMAIN rows'
        /\ \A i \in DOMAIN rows' : Indexed(rows')[i] = rows'[i].content
        /\ Indexed(rows') \in [DOMAIN Indexed(rows') -> Contents]
    BY <2>3, IndexedFacts
  <2>5. /\ DOMAIN index' \subseteq Ids /\ index' \in [DOMAIN index' -> Contents]
        /\ \A i \in DOMAIN rows' : i \in DOMAIN index' /\ index'[i] = rows'[i].content
        /\ DOMAIN index' \subseteq DOMAIN rows'
    BY <2>2, <2>3, <2>4
  <2>6. cmd' \in Command
    BY <2>2 DEF Command
  <2>7. settings' \in Limits /\ clock' \in 0..MaxClock /\ result' = result
    BY <2>2 DEF Inv, Typed
  <2>8. Typed'
    BY <2>2, <2>3, <2>5, <2>6, <2>7 DEF Typed, Inv
  <2> QED BY <2>2, <2>5, <2>8 DEF Inv, RowsIndexed, Tidy
<1> QED BY <1>1, <1>2

LEMMA RecopyInv == ASSUME Inv, NEW id \in Ids, Recopy(id) PROVE Inv'
<1> DEFINE stored == [rows EXCEPT ![id].captured = clock]
<1>1. pc = "idle" /\ id \in DOMAIN rows /\ Commit(id, stored, index)
  BY DEF Recopy, IsNewest
<1>2. /\ DOMAIN stored = DOMAIN rows /\ stored \in [DOMAIN stored -> Row]
      /\ \A i \in DOMAIN stored : stored[i].content = rows[i].content
  BY <1>1 DEF Inv, Typed, Row
<1> HIDE DEF stored
<1>3. DOMAIN stored \subseteq Ids /\ DOMAIN index \subseteq Ids
      /\ index \in [DOMAIN index -> Contents]
  BY <1>2 DEF Inv, Typed
<1>4. \A i \in DOMAIN stored : i \in DOMAIN index /\ index[i] = stored[i].content
  BY <1>2 DEF Inv, RowsIndexed
<1> QED BY <1>1, <1>2, <1>3, <1>4, CommitInv

LEMMA AddInv == ASSUME Inv, NEW id \in Ids, NEW c \in Contents, Add(id, c) PROVE Inv'
<1> DEFINE stored == [i \in DOMAIN rows \cup {id} |->
                        IF i = id
                        THEN [content |-> c, captured |-> clock, pinned |-> FALSE]
                        ELSE rows[i]]
           words  == [i \in DOMAIN index \cup {id} |-> IF i = id THEN c ELSE index[i]]
<1>1. \/ Refuse("storage-capacity") \/ Refuse("storage-write")
      \/ Commit(id, stored, words)
  BY DEF Add
<1>2. /\ DOMAIN stored \subseteq Ids /\ stored \in [DOMAIN stored -> Row]
  BY DEF Inv, Typed, Row
<1>3. /\ DOMAIN words \subseteq Ids /\ words \in [DOMAIN words -> Contents]
  BY DEF Inv, Typed
<1>4. \A i \in DOMAIN stored : i \in DOMAIN words /\ words[i] = stored[i].content
  BY DEF Inv, RowsIndexed
<1>5. pc = "idle"
  BY DEF Add
<1> HIDE DEF stored, words
<1>6. CASE Commit(id, stored, words)
  BY <1>2, <1>3, <1>4, <1>5, <1>6, CommitInv
<1>7. CASE Refuse("storage-capacity") \/ Refuse("storage-write")
  BY <1>7 DEF Refuse, Inv, Typed, RowsIndexed, Tidy
<1> QED BY <1>1, <1>6, <1>7

\* Rows are deleted, and the index is left for later.
LEMMA DeletionInv ==
  ASSUME Inv, NEW S, rows' = Without(rows, S), UNCHANGED <<index, settings, clock>>,
         cmd' \in Command, result' = result \/ result' = "ok",
         pc' \in {"rebuild", "shrink"} \/ (pc' = "maintain" /\ cmd'.op # "insert")
  PROVE  Inv'
<1>1. /\ DOMAIN rows' \subseteq Ids /\ rows' \in [DOMAIN rows' -> Row]
      /\ DOMAIN rows' = DOMAIN rows \ S
      /\ \A i \in DOMAIN rows' : rows'[i] = rows[i]
  BY DEF Without, Restrict, Inv, Typed
<1>2. RowsIndexed'
  BY <1>1 DEF Inv, RowsIndexed
<1>3. Typed'
  BY <1>1 DEF Inv, Typed
<1> QED BY <1>2, <1>3 DEF Inv, Tidy

\* The index is rebuilt.
LEMMA RebuiltInv ==
  ASSUME Inv, index' = Indexed(rows), UNCHANGED <<rows, settings, clock, cmd>>,
         result' \in {result, "ok", "failed"}, pc' \in {"idle", "maintain", "closed"}
  PROVE  Inv' /\ DOMAIN index' \subseteq DOMAIN rows'
<1>1. /\ DOMAIN index' = DOMAIN rows /\ index' \in [DOMAIN index' -> Contents]
      /\ \A i \in DOMAIN rows : index'[i] = rows[i].content
  BY IndexedFacts DEF Inv, Typed
<1>2. RowsIndexed' /\ Tidy'
  BY <1>1 DEF RowsIndexed, Tidy
<1>3. Typed'
  BY <1>1 DEF Inv, Typed
<1> QED BY <1>1, <1>2, <1>3 DEF Inv

LEMMA MaintainInv == ASSUME Inv, Maintain PROVE Inv'
<1> DEFINE fits == Physical(rows) <= settings.max_bytes
<1>1. CASE fits
  BY <1>1 DEF Maintain, Inv, Typed, RowsIndexed, Tidy
<1>2. CASE ~fits /\ UnpinnedIn(rows) = {}
  BY <1>2 DEF Maintain, EndWith, Inv, Typed, RowsIndexed, Tidy
<1>3. CASE ~fits /\ UnpinnedIn(rows) # {}
  <2>1. PICK i \in UnpinnedIn(rows) : rows' = Without(rows, {i})
    BY <1>3 DEF Maintain
  <2>2. pc' = "shrink" /\ UNCHANGED <<index, settings, clock, cmd, result>>
    BY <1>3 DEF Maintain
  <2>3. cmd' \in Command
    BY <2>2 DEF Inv, Typed
  <2> QED BY <2>1, <2>2, <2>3, DeletionInv
<1> QED BY <1>1, <1>2, <1>3

LEMMA NextInv == Inv /\ [Next]_vars => Inv'
<1> SUFFICES ASSUME Inv, [Next]_vars PROVE Inv'
  OBVIOUS
<1>1. CASE \E id \in Ids : Recopy(id)
  BY <1>1, RecopyInv
<1>2. CASE \E id \in Ids : Pin(id)
  <2>1. PICK id \in Ids : Pin(id)
    BY <1>2
  <2>2. rows' = [rows EXCEPT ![id].pinned = ~@] /\ id \in DOMAIN rows
        /\ UNCHANGED <<index, settings, clock, cmd, pc, result>>
    BY <2>1 DEF Pin
  <2>3. DOMAIN rows' = DOMAIN rows /\ rows' \in [DOMAIN rows' -> Row]
        /\ \A i \in DOMAIN rows : rows'[i].content = rows[i].content
    BY <2>2 DEF Inv, Typed, Row
  <2> QED BY <2>2, <2>3 DEF Inv, Typed, RowsIndexed, Tidy
<1>3. CASE \E id \in Ids, c \in Contents : Add(id, c)
  BY <1>3, AddInv
<1>4. CASE \E id \in Ids, confirmed \in BOOLEAN : Delete(id, confirmed)
  <2>1. PICK id \in Ids, confirmed \in BOOLEAN : Delete(id, confirmed)
    BY <1>4
  <2>2. CASE Refuse("confirmation-required")
    BY <2>2 DEF Refuse, Inv, Typed, RowsIndexed, Tidy
  <2>3. CASE ~Refuse("confirmation-required")
    <3>1. /\ rows' = Without(rows, {id}) /\ pc' = "rebuild"
          /\ cmd' = [op |-> "delete", id |-> id, confirmed |-> confirmed]
          /\ UNCHANGED <<index, settings, clock, result>>
      BY <2>1, <2>3 DEF Delete, Begin
    <3>2. cmd' \in Command
      BY <3>1 DEF Command
    <3> QED BY <3>1, <3>2, DeletionInv
  <2> QED BY <2>2, <2>3
<1>5. CASE \E pins \in BOOLEAN : Clear(pins)
  <2>1. PICK pins \in BOOLEAN : Clear(pins)
    BY <1>5
  <2>2. cmd' = [op |-> "clear", pins |-> pins] /\ pc' = "rebuild"
        /\ rows' = Without(rows, IF pins THEN DOMAIN rows ELSE UnpinnedIn(rows))
        /\ UNCHANGED <<index, settings, clock, result>>
    BY <2>1 DEF Clear, Begin
  <2>3. cmd' \in Command
    BY <2>2 DEF Command
  <2> QED BY <2>2, <2>3, DeletionInv
<1>6. CASE \E new \in Limits : ChangeSettings(new)
  BY <1>6 DEF ChangeSettings, Begin, Inv, Typed, RowsIndexed, Tidy, Command
<1>7. CASE \E t \in 0..MaxClock : SetClock(t)
  BY <1>7 DEF SetClock, Inv, Typed, RowsIndexed, Tidy
<1>8. CASE Unlock
  BY <1>8 DEF Unlock, Begin, Inv, Typed, RowsIndexed, Tidy, Command
<1>9. CASE Check
  BY <1>9 DEF Check, Inv, Typed, RowsIndexed, Tidy
<1>10. CASE Expire
  <2>1. /\ rows' = Without(rows, Stale(rows))
        /\ pc' \in {"maintain", "rebuild"} /\ pc = "prune"
        /\ UNCHANGED <<index, settings, clock, cmd, result>>
    BY <1>10 DEF Expire
  <2> QED BY <2>1, DeletionInv DEF Inv, Typed, Tidy
<1>11. CASE RebuildIndex
  BY <1>11, RebuiltInv DEF RebuildIndex
<1>12. CASE Maintain
  BY <1>12, MaintainInv
<1>13. CASE Shrink
  BY <1>13, RebuiltInv DEF Shrink
<1>14. CASE Fail
  <2>1. /\ result' = "failed" /\ pc' \in {"idle", "closed"}
        /\ UNCHANGED <<rows, settings, clock, cmd>>
        /\ index' = index \/ index' = Indexed(rows)
    BY <1>14 DEF Fail, EndWith
  <2>2. CASE index' = index
    BY <2>1, <2>2 DEF Inv, Typed, RowsIndexed, Tidy
  <2>3. CASE index' = Indexed(rows)
    BY <2>1, <2>3, RebuiltInv
  <2> QED BY <2>1, <2>2, <2>3
<1>15. CASE Stop
  BY <1>15 DEF Stop, Inv, Typed, RowsIndexed, Tidy
<1>16. CASE UNCHANGED vars
  BY <1>16 DEF vars, Inv, Typed, RowsIndexed, Tidy
<1> QED
  BY <1>1, <1>2, <1>3, <1>4, <1>5, <1>6, <1>7, <1>8, <1>9, <1>10, <1>11, <1>12,
     <1>13, <1>14, <1>15, <1>16 DEF Next, Step
-----------------------------------------------------------------------------
(***************************************************************************)
(* The theorems.                                                           *)
(***************************************************************************)
LEMMA InvAlways == Spec => []Inv
<1>1. Init => Inv
  BY InitInv
<1>2. Inv /\ [Next]_vars => Inv'
  BY NextInv
<1> QED BY <1>1, <1>2, PTL DEF Spec

\* The tables, the clock and the writer's state have their types.
THEOREM TypeCorrect == Spec => []TypeOK
<1>1. Inv => TypeOK
  BY DEF Inv, Typed, TypeOK
<1> QED BY <1>1, InvAlways, PTL

\* At every moment, after any failure or restart, every stored item is in the
\* index with its own words.
THEOREM StoredIsFound == Spec => []RowsIndexed
<1>1. Inv => RowsIndexed
  BY DEF Inv
<1> QED BY <1>1, InvAlways, PTL

\* A command that ends well has left no word of a deleted item in the index.
THEOREM DeletionIsComplete == Spec => DoneMeansGone
<1> DEFINE done == (result' = "ok" /\ pc' = "idle" /\ pc \in {"check", "rebuild"})
                     => DOMAIN index' \subseteq DOMAIN rows'
<1>1. Inv /\ [Next]_vars => [done]_vars
  <2> SUFFICES ASSUME Inv, Next, result' = "ok", pc' = "idle",
                      pc \in {"check", "rebuild"}
               PROVE  DOMAIN index' \subseteq DOMAIN rows'
    OBVIOUS
  <2>1. CASE Check
    BY <2>1 DEF Check, Inv, Tidy
  <2>2. CASE RebuildIndex
    BY <2>2, RebuiltInv DEF RebuildIndex
  <2>3. CASE Fail
    BY <2>3 DEF Fail, EndWith
  <2>4. ~(\E id \in Ids : Recopy(id) \/ Pin(id))
    BY DEF Recopy, Pin
  <2>5. ~(\E id \in Ids, c \in Contents : Add(id, c))
    BY DEF Add
  <2>6. /\ ~(\E id \in Ids, confirmed \in BOOLEAN : Delete(id, confirmed))
        /\ ~(\E pins \in BOOLEAN : Clear(pins))
    BY DEF Delete, Clear
  <2>7. /\ ~(\E new \in Limits : ChangeSettings(new))
        /\ ~(\E t \in 0..MaxClock : SetClock(t))
    BY DEF ChangeSettings, SetClock
  <2>8. ~Unlock /\ ~Expire /\ ~Maintain /\ ~Shrink /\ ~Stop
    BY DEF Unlock, Expire, Maintain, Shrink, Stop
  <2> QED BY <2>1, <2>2, <2>3, <2>4, <2>5, <2>6, <2>7, <2>8 DEF Next, Step
<1> QED BY <1>1, InvAlways, PTL DEF Spec, DoneMeansGone

\* Rows that are not pinned leave, and nothing else changes for the user.
LEMMA LosesUnpinned ==
  ASSUME NEW r, NEW S \in SUBSET UnpinnedIn(r), rows' = Without(r, S), Held(r) = Held(rows)
  PROVE  Abstract!Forget
<1>1. DOMAIN r = DOMAIN rows
  BY DEF Held
<1>2. S \in SUBSET Abstract!Unpinned
  BY <1>1 DEF Held, UnpinnedIn, Abstract!Unpinned
<1>3. Held(rows') = [i \in DOMAIN rows \ S |-> Held(rows)[i]]
  <2>1. DOMAIN rows' = DOMAIN rows \ S /\ \A i \in DOMAIN rows' : rows'[i] = r[i]
    BY <1>1 DEF Without, Restrict
  <2>2. Held(rows') = [i \in DOMAIN rows \ S |-> Held(r)[i]]
    BY <2>1, <1>1 DEF Held
  <2> QED BY <2>2
<1>4. DOMAIN Held(rows) = DOMAIN rows
  BY DEF Held
<1> QED BY <1>2, <1>3, <1>4 DEF Abstract!Forget, Abstract!Lose
LEMMA CommitForgets ==
  ASSUME Inv, NEW id, NEW stored, NEW words, Commit(id, stored, words),
         DOMAIN stored \subseteq Ids, stored \in [DOMAIN stored -> Row],
         Held(stored) = Held(rows)
  PROVE  Abstract!HNext \/ UNCHANGED <<Held(rows), cmd>>
<1>1. CASE Refuse("storage-capacity")
  BY <1>1 DEF Refuse, Held
<1>2. CASE ~Refuse("storage-capacity")
  <2>1. PICK S \in SUBSET UnpinnedIn(stored) : rows' = Without(stored, S)
    BY <1>2, CommitEffect
  <2>2. cmd' = [op |-> "insert", id |-> id]
    BY <1>2, CommitEffect
  <2>3. Abstract!Forget
    BY <2>1, LosesUnpinned
  <2> QED BY <2>2, <2>3 DEF Abstract!HNext
<1> QED BY <1>1, <1>2

LEMMA AddKeeps ==
  ASSUME Inv, NEW id \in Ids, NEW c \in Contents, Add(id, c)
  PROVE  Abstract!HNext \/ UNCHANGED <<Held(rows), cmd>>
<1> DEFINE stored == [i \in DOMAIN rows \cup {id} |->
                        IF i = id
                        THEN [content |-> c, captured |-> clock, pinned |-> FALSE]
                        ELSE rows[i]]
           words  == [i \in DOMAIN index \cup {id} |-> IF i = id THEN c ELSE index[i]]
<1>1. \/ Refuse("storage-capacity") \/ Refuse("storage-write")
      \/ Commit(id, stored, words)
  BY DEF Add
<1>2. DOMAIN stored \subseteq Ids /\ stored \in [DOMAIN stored -> Row]
  BY DEF Inv, Typed, Row
<1>3. id \notin DOMAIN rows
  BY DEF Add, IsNext, Inv, Typed, Ids
<1>4. CASE Refuse("storage-capacity") \/ Refuse("storage-write")
  BY <1>4 DEF Refuse, Held
<1>5. CASE Commit(id, stored, words) /\ ~Refuse("storage-capacity")
  <2>1. /\ DOMAIN stored = DOMAIN rows \cup {id}
        /\ stored[id].content = c /\ stored[id].pinned = FALSE
        /\ \A i \in DOMAIN rows : stored[i] = rows[i]
    BY <1>3
  <2> HIDE DEF stored, words
  <2>2. PICK S \in SUBSET UnpinnedIn(stored) : rows' = Without(stored, S)
    BY <1>2, <1>5, CommitEffect
  <2>3. cmd' = [op |-> "insert", id |-> id]
    BY <1>2, <1>5, CommitEffect
  <2> DEFINE lost == S \ {id}
             new  == id \notin S
  <2>4. lost \in SUBSET Abstract!Unpinned
    BY <2>1 DEF Held, UnpinnedIn, Abstract!Unpinned
  <2>5. Held(rows') = [i \in (DOMAIN Held(rows) \ lost) \cup (IF new THEN {id} ELSE {}) |->
                         IF i = id THEN [content |-> c, pinned |-> FALSE]
                                   ELSE Held(rows)[i]]
    <3>1. DOMAIN rows' = (DOMAIN rows \ lost) \cup (IF new THEN {id} ELSE {})
      BY <2>1, <2>2, <1>3 DEF Without, Restrict
    <3>2. \A i \in DOMAIN rows' : rows'[i] = stored[i]
      BY <2>2 DEF Without, Restrict
    <3>3. Held(rows') = [i \in DOMAIN rows' |->
                           [content |-> stored[i].content, pinned |-> stored[i].pinned]]
      BY <3>2 DEF Held
    <3>4. \A i \in DOMAIN rows' :
            [content |-> stored[i].content, pinned |-> stored[i].pinned]
              = IF i = id THEN [content |-> c, pinned |-> FALSE] ELSE Held(rows)[i]
      BY <2>1, <3>1 DEF Held
    <3>5. DOMAIN Held(rows) = DOMAIN rows
      BY DEF Held
    <3> HIDE DEF lost, new
    <3> QED BY <3>1, <3>3, <3>4, <3>5
  <2>6. id \notin DOMAIN Held(rows)
    BY <1>3 DEF Held
  <2> HIDE DEF lost
  <2>7. Abstract!Keep(id, c)
    BY <2>3, <2>4, <2>5, <2>6 DEF Abstract!Keep
  <2> QED BY <2>7 DEF Abstract!HNext
<1> QED BY <1>1, <1>4, <1>5

\* Rows that retention takes are not pinned.
LEMMA RetentionForgets ==
  ASSUME Inv, NEW S \in SUBSET UnpinnedIn(rows), rows' = Without(rows, S), cmd' = cmd
  PROVE  Abstract!HNext
BY LosesUnpinned DEF Abstract!HNext
\* A command begins that takes nothing.
LEMMA NothingForgotten ==
  ASSUME UNCHANGED rows, cmd'.op \notin {"delete", "clear"}
  PROVE  Abstract!HNext
<1>1. Held(rows') = [i \in DOMAIN Held(rows) \ {} |-> Held(rows)[i]]
  BY DEF Held
<1>2. Abstract!Lose({}) /\ {} \in SUBSET Abstract!Unpinned
  BY <1>1 DEF Abstract!Lose
<1> QED BY <1>2 DEF Abstract!Forget, Abstract!HNext

LEMMA NextRefines == Inv /\ [Next]_vars => [Abstract!HNext]_<<Held(rows), cmd>>
<1> SUFFICES ASSUME Inv, [Next]_vars
             PROVE  Abstract!HNext \/ UNCHANGED <<Held(rows), cmd>>
  OBVIOUS
<1>1. CASE \E id \in Ids : Recopy(id)
  <2>1. PICK id \in Ids : Recopy(id)
    BY <1>1
  <2> DEFINE stored == [rows EXCEPT ![id].captured = clock]
  <2>2. id \in DOMAIN rows /\ Commit(id, stored, index)
    BY <2>1 DEF Recopy, IsNewest
  <2>3. /\ DOMAIN stored = DOMAIN rows /\ stored \in [DOMAIN stored -> Row]
        /\ \A i \in DOMAIN stored : /\ stored[i].content = rows[i].content
                                    /\ stored[i].pinned = rows[i].pinned
    BY <2>2 DEF Inv, Typed, Row
  <2> HIDE DEF stored
  <2>4. Held(stored) = Held(rows) /\ DOMAIN stored \subseteq Ids
    BY <2>3 DEF Held, Inv, Typed
  <2> QED BY <2>2, <2>3, <2>4, CommitForgets
<1>2. CASE \E id \in Ids : Pin(id)
  <2>1. PICK id \in Ids : Pin(id)
    BY <1>2
  <2>2. rows' = [rows EXCEPT ![id].pinned = ~@] /\ id \in DOMAIN rows /\ cmd' = cmd
    BY <2>1 DEF Pin
  <2>3. Held(rows') = [Held(rows) EXCEPT ![id].pinned = ~@]
    BY <2>2 DEF Held, Inv, Typed, Row
  <2>4. id \in DOMAIN Held(rows)
    BY <2>2 DEF Held
  <2> QED BY <2>2, <2>3, <2>4 DEF Abstract!Toggle, Abstract!HNext
<1>3. CASE \E id \in Ids, c \in Contents : Add(id, c)
  BY <1>3, AddKeeps
<1>4. CASE \E id \in Ids, confirmed \in BOOLEAN : Delete(id, confirmed)
  <2>1. PICK id \in Ids, confirmed \in BOOLEAN : Delete(id, confirmed)
    BY <1>4
  <2>2. CASE Refuse("confirmation-required")
    BY <2>2 DEF Refuse, Held
  <2>3. CASE ~Refuse("confirmation-required")
    <3>1. /\ ~(id \in PinnedIn(rows) /\ ~confirmed)
          /\ rows' = Without(rows, {id})
          /\ cmd' = [op |-> "delete", id |-> id, confirmed |-> confirmed]
      BY <2>1, <2>3 DEF Delete, Begin
    <3>2. Abstract!Lose({id})
      BY <3>1 DEF Without, Restrict, Held, Abstract!Lose
    <3>3. id \in DOMAIN Held(rows) /\ Held(rows)[id].pinned => confirmed
      BY <3>1 DEF Held, PinnedIn
    <3> QED BY <3>1, <3>2, <3>3 DEF Abstract!Erase, Abstract!HNext
  <2> QED BY <2>2, <2>3
<1>5. CASE \E pins \in BOOLEAN : Clear(pins)
  <2>1. PICK pins \in BOOLEAN : Clear(pins)
    BY <1>5
  <2>2. /\ rows' = Without(rows, IF pins THEN DOMAIN rows ELSE UnpinnedIn(rows))
        /\ cmd' = [op |-> "clear", pins |-> pins]
    BY <2>1 DEF Clear, Begin
  <2>3. Abstract!Unpinned = UnpinnedIn(rows) /\ DOMAIN Held(rows) = DOMAIN rows
    BY DEF Held, UnpinnedIn, Abstract!Unpinned
  <2>4. Abstract!Lose(IF pins THEN DOMAIN Held(rows) ELSE Abstract!Unpinned)
    BY <2>2, <2>3 DEF Without, Restrict, Held, Abstract!Lose
  <2> QED BY <2>2, <2>4 DEF Abstract!Wipe, Abstract!HNext
<1>6. CASE \E new \in Limits : ChangeSettings(new)
  <2>1. UNCHANGED rows /\ (cmd' = [op |-> "settings"] \/ cmd' = cmd)
    BY <1>6 DEF ChangeSettings, Begin
  <2> QED BY <2>1, NothingForgotten DEF Held
<1>7. CASE Unlock
  <2>1. UNCHANGED rows /\ cmd' = [op |-> "unlock"]
    BY <1>7 DEF Unlock, Begin
  <2> QED BY <2>1, NothingForgotten
<1>8. CASE Expire
  BY <1>8, RetentionForgets DEF Expire, Stale
<1>9. CASE Maintain
  <2>1. CASE UNCHANGED <<rows, cmd>>
    BY <2>1 DEF Held
  <2>2. CASE ~UNCHANGED <<rows, cmd>>
    <3>1. PICK i \in UnpinnedIn(rows) : rows' = Without(rows, {i}) /\ cmd' = cmd
      BY <1>9, <2>2 DEF Maintain, EndWith
    <3> QED BY <3>1, RetentionForgets
  <2> QED BY <2>1, <2>2
<1>10. CASE \/ Check \/ RebuildIndex \/ Shrink \/ Fail \/ Stop \/ UNCHANGED vars
            \/ \E t \in 0..MaxClock : SetClock(t)
  <2>1. UNCHANGED <<rows, cmd>>
    BY <1>10 DEF Check, RebuildIndex, Shrink, Fail, EndWith, Stop, SetClock, vars
  <2> QED BY <2>1 DEF Held
<1> QED
  BY <1>1, <1>2, <1>3, <1>4, <1>5, <1>6, <1>7, <1>8, <1>9, <1>10 DEF Next, Step

LEMMA InitRefines == Init => Abstract!HInit
BY DEF Init, Held, Abstract!HInit

\* Whatever happens to the tables, the history keeps its promise: a pinned item
\* leaves only by its own confirmed deletion or a clear with the pins, and nothing
\* is added but by a capture.
THEOREM Implements == Spec => KeepsHistory
<1>1. Init => Abstract!HInit
  BY InitRefines
<1>2. Inv /\ [Next]_vars => [Abstract!HNext]_<<Held(rows), cmd>>
  BY NextRefines
<1> QED BY <1>1, <1>2, InvAlways, PTL DEF Spec, KeepsHistory, Abstract!HSpec
-----------------------------------------------------------------------------
(***************************************************************************)
(* Tables, their order and their sizes.                                    *)
(***************************************************************************)
Table(r) == DOMAIN r \subseteq Ids /\ r \in [DOMAIN r -> Row]

LEMMA TableIs ==
  ASSUME NEW r, Table(r)
  PROVE  /\ \A S \in SUBSET DOMAIN r : IsFiniteSet(S) /\ Cardinality(S) \in Nat
         /\ DOMAIN r \subseteq Nat
         /\ \A i \in DOMAIN r : /\ r[i].captured \in Nat /\ r[i].content \in Contents
                                /\ r[i].pinned \in BOOLEAN
         /\ UnpinnedIn(r) \subseteq DOMAIN r /\ PinnedIn(r) \subseteq DOMAIN r
<1>1. Ids \subseteq Nat /\ IsFiniteSet(Ids)
  BY FS_Interval, StorageAssumption DEF Ids
<1>2. \A S \in SUBSET DOMAIN r : IsFiniteSet(S) /\ Cardinality(S) \in Nat
  BY <1>1, FS_Subset, FS_CardinalityType DEF Table
<1>3. \A i \in DOMAIN r : /\ r[i].captured \in Nat /\ r[i].content \in Contents
                          /\ r[i].pinned \in BOOLEAN
  BY StorageAssumption DEF Table, Row
<1> QED BY <1>1, <1>2, <1>3 DEF Table, UnpinnedIn, PinnedIn

LEMMA WithoutIs ==
  ASSUME NEW r, Table(r), NEW S
  PROVE  /\ Table(Without(r, S)) /\ DOMAIN Without(r, S) = DOMAIN r \ S
         /\ \A i \in DOMAIN r \ S : Without(r, S)[i] = r[i]
         /\ UnpinnedIn(Without(r, S)) = UnpinnedIn(r) \ S
         /\ PinnedIn(Without(r, S)) = PinnedIn(r) \ S
         /\ \A i, j \in DOMAIN r \ S : Older(Without(r, S), i, j) <=> Older(r, i, j)
<1> DEFINE q == Without(r, S)
<1>1. DOMAIN q = DOMAIN r \ S /\ \A i \in DOMAIN r \ S : q[i] = r[i]
  BY DEF Without, Restrict
<1>2. q = [i \in DOMAIN r \ S |-> q[i]]
  BY DEF Without, Restrict
<1> HIDE DEF q
<1>3. Table(q)
  BY <1>1, <1>2 DEF Table
<1>4. UnpinnedIn(q) = UnpinnedIn(r) \ S /\ PinnedIn(q) = PinnedIn(r) \ S
  BY <1>1 DEF UnpinnedIn, PinnedIn
<1>5. \A i, j \in DOMAIN r \ S : Older(q, i, j) <=> Older(r, i, j)
  BY <1>1 DEF Older
<1> QED BY <1>1, <1>3, <1>4, <1>5 DEF q

\* The order is total.
LEMMA OlderIs ==
  ASSUME NEW r, Table(r)
  PROVE  /\ \A i \in DOMAIN r : ~Older(r, i, i)
         /\ \A i, j \in DOMAIN r : i = j \/ Older(r, i, j) \/ Older(r, j, i)
         /\ \A i, j, k \in DOMAIN r : Older(r, i, j) /\ Older(r, j, k) => Older(r, i, k)
         /\ \A i, j \in DOMAIN r : Older(r, i, j) => ~Older(r, j, i)
<1>1. DOMAIN r \subseteq Nat /\ \A i \in DOMAIN r : r[i].captured \in Nat
  BY TableIs
<1> QED BY <1>1 DEF Older

\* Of any rows one is the oldest.
LEMMA OldestIs ==
  ASSUME NEW r, Table(r), NEW S \in SUBSET DOMAIN r, S # {}
  PROVE  \E i \in S : \A j \in S \ {i} : Older(r, i, j)
<1> DEFINE D == {r[i].captured : i \in S}
<1>1. DOMAIN r \subseteq Nat /\ \A i \in DOMAIN r : r[i].captured \in Nat
  BY TableIs
<1>2. D \in SUBSET Nat /\ D # {}
  BY <1>1
<1>3. PICK d \in D : \A e \in D : d <= e
  BY <1>2, LeastIs
<1> DEFINE E == {i \in S : r[i].captured = d}
<1>4. E \in SUBSET Nat /\ E # {}
  BY <1>1, <1>3
<1>5. PICK i \in E : \A j \in E : i <= j
  BY <1>4, LeastIs
<1>6. ASSUME NEW j \in S \ {i} PROVE Older(r, i, j)
  <2>1. d <= r[j].captured /\ r[i].captured = d /\ i \in S
    BY <1>3, <1>5
  <2>2. CASE r[j].captured = d
    BY <1>1, <1>5, <1>6, <2>1, <2>2 DEF Older
  <2>3. CASE r[j].captured # d
    BY <1>1, <1>6, <2>1, <2>3 DEF Older
  <2> QED BY <2>2, <2>3
<1> QED BY <1>5, <1>6

\* How the size of a table depends on its rows.
LEMMA BytesIs ==
  ASSUME NEW r, Table(r), NEW S \in SUBSET DOMAIN r
  PROVE  /\ Bytes(r, S) \in Nat
         /\ \A T \in SUBSET S : Bytes(r, T) <= Bytes(r, S)
         /\ \A y \in S : Bytes(r, S) = Size[r[y].content] + Bytes(r, S \ {y})
<1> DEFINE f == [i \in DOMAIN r |-> Size[r[i].content]]
<1>1. \A T : Bytes(r, T) = Total(f, T)
  BY DEF Bytes, Total
<1>2. IsFiniteSet(S) /\ \A x \in S : f[x] \in Nat /\ f[x] = Size[r[x].content]
  BY TableIs, StorageAssumption
<1> HIDE DEF f
<1> QED BY <1>1, <1>2, TotalNat, TotalGrows, TotalWithout

LEMMA BytesSame ==
  ASSUME NEW r, Table(r), NEW q, Table(q), NEW S, S \subseteq DOMAIN r, S \subseteq DOMAIN q,
         \A i \in S : r[i].content = q[i].content
  PROVE  Bytes(r, S) = Bytes(q, S)
<1> DEFINE f == [i \in DOMAIN r |-> Size[r[i].content]]
           e == [i \in DOMAIN q |-> Size[q[i].content]]
<1>1. Bytes(r, S) = Total(f, S) /\ Bytes(q, S) = Total(e, S)
  BY DEF Bytes, Total
<1>2. IsFiniteSet(S) /\ \A x \in S : f[x] = e[x]
  BY TableIs
<1> HIDE DEF f, e
<1> QED BY <1>1, <1>2, TotalSame
-----------------------------------------------------------------------------
(***************************************************************************)
(* What retention takes.                                                   *)
(***************************************************************************)
LEMMA LimitsAre ==
  ASSUME Typed
  PROVE  /\ settings.max_items \in Nat \ {0} /\ settings.max_days \in Nat \ {0}
         /\ settings.max_bytes \in Nat /\ clock \in Nat /\ Table(rows)
<1>1. settings \in [max_items : Nat \ {0}, max_days : Nat \ {0}, max_bytes : Nat]
  BY StorageAssumption DEF Typed
<1>2. clock \in Nat
  BY StorageAssumption DEF Typed
<1> QED BY <1>1, <1>2 DEF Typed, Table

\* The rows that follow a row are finitely many, and fewer as it is newer.
LEMMA LaterIs ==
  ASSUME NEW r, Table(r), NEW i \in DOMAIN r, NEW j \in DOMAIN r, Older(r, j, i),
         NEW S \in SUBSET DOMAIN r
  PROVE  /\ Cardinality({k \in S : Older(r, i, k)}) \in Nat
         /\ Cardinality({k \in S : Older(r, j, k)}) \in Nat
         /\ Cardinality({k \in S : Older(r, i, k)}) <= Cardinality({k \in S : Older(r, j, k)})
<1> DEFINE A == {k \in S : Older(r, i, k)}
           B == {k \in S : Older(r, j, k)}
<1>1. A \subseteq B
  BY OlderIs
<1>2. A \in SUBSET DOMAIN r /\ B \in SUBSET DOMAIN r
  OBVIOUS
<1> HIDE DEF A, B
<1>3. IsFiniteSet(B) /\ Cardinality(A) \in Nat /\ Cardinality(B) \in Nat
  BY <1>2, TableIs
<1>4. Cardinality(A) <= Cardinality(B)
  BY <1>1, <1>3, FS_Subset
<1> QED BY <1>3, <1>4 DEF A, B

\* Deleting rows makes no other row stale.
LEMMA StillFresh ==
  ASSUME Typed, NEW r, Table(r), NEW S
  PROVE  Stale(Without(r, S)) \subseteq Stale(r) \ S
<1> DEFINE q == Without(r, S)
<1>1. /\ Table(q) /\ DOMAIN q = DOMAIN r \ S
      /\ \A i \in DOMAIN r \ S : q[i] = r[i]
      /\ UnpinnedIn(q) = UnpinnedIn(r) \ S
      /\ \A i, j \in DOMAIN r \ S : Older(q, i, j) <=> Older(r, i, j)
  BY WithoutIs
<1> HIDE DEF q
<1> SUFFICES ASSUME NEW i \in Stale(q) PROVE i \in Stale(r) \ S
  BY DEF q
<1> DEFINE A == {j \in UnpinnedIn(q) : Older(q, i, j)}
           B == {j \in UnpinnedIn(r) : Older(r, i, j)}
<1>2. i \in UnpinnedIn(q) /\ i \in UnpinnedIn(r) /\ i \in DOMAIN r \ S
  BY <1>1 DEF Stale, UnpinnedIn
<1>3. q[i].captured < clock - settings.max_days \/ Cardinality(A) >= settings.max_items
  BY DEF Stale
<1>4. A \subseteq B
  BY <1>1, <1>2 DEF UnpinnedIn
<1>5. B \in SUBSET DOMAIN r
  BY DEF UnpinnedIn
<1>6. IsFiniteSet(B) /\ Cardinality(B) \in Nat
  BY <1>5, TableIs
<1>7. Cardinality(A) <= Cardinality(B) /\ Cardinality(A) \in Nat
  BY <1>4, <1>6, FS_Subset, FS_CardinalityType
<1>8. r[i].captured < clock - settings.max_days \/ Cardinality(B) >= settings.max_items
  <2>1. CASE q[i].captured < clock - settings.max_days
    BY <2>1, <1>1, <1>2
  <2>2. CASE Cardinality(A) >= settings.max_items
    <3> HIDE DEF A, B
    <3> QED BY <2>2, <1>6, <1>7, LimitsAre
  <2> QED BY <2>1, <2>2, <1>3
<1> QED BY <1>2, <1>8 DEF Stale

\* A stale row is older than any unpinned row that is not.
LEMMA StaleIsOldest ==
  ASSUME Typed, NEW r, Table(r), NEW i \in Stale(r), NEW j \in UnpinnedIn(r) \ Stale(r)
  PROVE  Older(r, i, j)
<1>1. i \in UnpinnedIn(r) /\ i \in DOMAIN r /\ j \in DOMAIN r /\ i # j
  BY DEF Stale, UnpinnedIn
<1> SUFFICES ASSUME Older(r, j, i) PROVE FALSE
  BY <1>1, OlderIs
<1>2. /\ ~(r[j].captured < clock - settings.max_days)
      /\ ~(Cardinality({k \in UnpinnedIn(r) : Older(r, j, k)}) >= settings.max_items)
  BY DEF Stale
<1>3. CASE r[i].captured < clock - settings.max_days
  <2>1. r[j].captured <= r[i].captured
    BY <1>1, TableIs DEF Older
  <2> QED BY <1>1, <1>2, <1>3, <2>1, TableIs, LimitsAre
<1>4. CASE Cardinality({k \in UnpinnedIn(r) : Older(r, i, k)}) >= settings.max_items
  <2> DEFINE a == Cardinality({k \in UnpinnedIn(r) : Older(r, i, k)})
             b == Cardinality({k \in UnpinnedIn(r) : Older(r, j, k)})
  <2>1. UnpinnedIn(r) \in SUBSET DOMAIN r
    BY DEF UnpinnedIn
  <2>2. a \in Nat /\ b \in Nat /\ a <= b
    BY <1>1, <2>1, LaterIs
  <2>3. a >= settings.max_items /\ ~(b >= settings.max_items)
    BY <1>2, <1>4
  <2> HIDE DEF a, b
  <2> QED BY <2>2, <2>3, LimitsAre
<1> QED BY <1>3, <1>4 DEF Stale

\* A row that makes room is older than any unpinned row that stays.
LEMMA SurplusIsOldest ==
  ASSUME Typed, NEW r, Table(r), NEW i \in Surplus(r), NEW j \in UnpinnedIn(r) \ Surplus(r)
  PROVE  Older(r, i, j)
<1>1. i \in DOMAIN r /\ j \in DOMAIN r /\ i # j
  BY DEF Surplus, UnpinnedIn
<1> SUFFICES ASSUME Older(r, j, i) PROVE FALSE
  BY <1>1, OlderIs
<1> DEFINE A == {k \in DOMAIN r : r[k].pinned \/ ~Older(r, k, i)}
           B == {k \in DOMAIN r : r[k].pinned \/ ~Older(r, k, j)}
<1>2. Bytes(r, A) > settings.max_bytes /\ ~(Bytes(r, B) > settings.max_bytes)
  BY DEF Surplus
<1>3. A \in SUBSET B /\ A \in SUBSET DOMAIN r /\ B \in SUBSET DOMAIN r
  BY <1>1, OlderIs
<1> HIDE DEF A, B
<1>4. Bytes(r, A) \in Nat /\ Bytes(r, B) \in Nat /\ Bytes(r, A) <= Bytes(r, B)
  BY <1>3, BytesIs
<1> QED BY <1>2, <1>4, LimitsAre

\* The first of the two rounds of a commit.
Pruned(r) == Without(r, Stale(r))

\* What a commit deletes.
LEMMA CommitIs ==
  ASSUME NEW id, NEW stored, NEW words, Table(stored), Commit(id, stored, words),
         ~Refuse("storage-capacity")
  PROVE  /\ rows' = Without(Pruned(stored), Surplus(Pruned(stored)))
         /\ Table(Pruned(stored)) /\ DOMAIN Pruned(stored) = DOMAIN stored \ Stale(stored)
         /\ \A i \in DOMAIN Pruned(stored) : Pruned(stored)[i] = stored[i]
         /\ UnpinnedIn(Pruned(stored)) = UnpinnedIn(stored) \ Stale(stored)
         /\ PinnedIn(Pruned(stored)) = PinnedIn(stored)
         /\ \A i, j \in DOMAIN Pruned(stored) :
              Older(Pruned(stored), i, j) <=> Older(stored, i, j)
         /\ Table(rows') /\ DOMAIN rows' = DOMAIN Pruned(stored) \ Surplus(Pruned(stored))
         /\ \A i \in DOMAIN rows' : rows'[i] = stored[i]
         /\ UnpinnedIn(rows') = UnpinnedIn(Pruned(stored)) \ Surplus(Pruned(stored))
         /\ cmd' = [op |-> "insert", id |-> id] /\ pc' = "maintain"
         /\ UNCHANGED <<settings, clock>>
<1> DEFINE pruned == Pruned(stored)
<1>1. /\ rows' = Without(pruned, Surplus(pruned))
      /\ cmd' = [op |-> "insert", id |-> id] /\ pc' = "maintain"
      /\ UNCHANGED <<settings, clock>>
  BY DEF Commit, Pruned
<1>2. /\ Table(pruned) /\ DOMAIN pruned = DOMAIN stored \ Stale(stored)
      /\ \A i \in DOMAIN stored \ Stale(stored) : pruned[i] = stored[i]
      /\ UnpinnedIn(pruned) = UnpinnedIn(stored) \ Stale(stored)
      /\ PinnedIn(pruned) = PinnedIn(stored) \ Stale(stored)
      /\ \A i, j \in DOMAIN stored \ Stale(stored) :
           Older(pruned, i, j) <=> Older(stored, i, j)
  BY WithoutIs DEF Pruned
<1>3. PinnedIn(stored) \ Stale(stored) = PinnedIn(stored)
  BY DEF Stale, UnpinnedIn, PinnedIn
<1> HIDE DEF pruned
<1> DEFINE q == Without(pruned, Surplus(pruned))
<1>4. /\ Table(q) /\ DOMAIN q = DOMAIN pruned \ Surplus(pruned)
      /\ \A i \in DOMAIN pruned \ Surplus(pruned) : q[i] = pruned[i]
      /\ UnpinnedIn(q) = UnpinnedIn(pruned) \ Surplus(pruned)
  <2> DEFINE lost == Surplus(pruned)
  <2>1. Table(pruned)
    BY <1>2
  <2> HIDE DEF lost
  <2>2. /\ Table(Without(pruned, lost)) /\ DOMAIN Without(pruned, lost) = DOMAIN pruned \ lost
        /\ \A i \in DOMAIN pruned \ lost : Without(pruned, lost)[i] = pruned[i]
        /\ UnpinnedIn(Without(pruned, lost)) = UnpinnedIn(pruned) \ lost
    BY <2>1, WithoutIs
  <2> QED BY <2>2 DEF lost
<1> HIDE DEF q
<1>5. rows' = q
  BY <1>1 DEF q
<1>6. Table(rows') /\ UnpinnedIn(rows') = UnpinnedIn(q)
  BY <1>4, <1>5
<1> QED BY <1>1, <1>2, <1>3, <1>4, <1>5, <1>6 DEF pruned

\* Both rounds take the oldest.
LEMMA CommitOldest ==
  ASSUME Typed, NEW id, NEW stored, NEW words, Table(stored), Commit(id, stored, words),
         ~Refuse("storage-capacity"),
         NEW i \in DOMAIN stored \ DOMAIN rows', NEW j \in UnpinnedIn(rows')
  PROVE  /\ j \in DOMAIN stored /\ rows'[j] = stored[j] /\ i # j
         /\ Older(stored, i, j)
<1> DEFINE pruned == Pruned(stored)
<1>1. /\ Table(pruned) /\ DOMAIN pruned = DOMAIN stored \ Stale(stored)
      /\ UnpinnedIn(pruned) = UnpinnedIn(stored) \ Stale(stored)
      /\ \A k, l \in DOMAIN pruned : Older(pruned, k, l) <=> Older(stored, k, l)
      /\ DOMAIN rows' = DOMAIN pruned \ Surplus(pruned)
      /\ \A k \in DOMAIN rows' : rows'[k] = stored[k]
      /\ UnpinnedIn(rows') = UnpinnedIn(pruned) \ Surplus(pruned)
  BY CommitIs
<1> HIDE DEF pruned
<1>2. j \in DOMAIN rows' /\ j \in DOMAIN stored /\ i # j /\ j \in DOMAIN pruned
  BY <1>1 DEF UnpinnedIn
<1>3. CASE i \in Stale(stored)
  BY <1>1, <1>3, StaleIsOldest, <1>2
<1>4. CASE i \notin Stale(stored)
  <2>1. i \in Surplus(pruned) /\ i \in DOMAIN pruned
    BY <1>1, <1>4
  <2>2. Older(pruned, i, j)
    BY <1>1, <2>1, SurplusIsOldest
  <2> QED BY <1>1, <1>2, <2>1, <2>2
<1> QED BY <1>1, <1>2, <1>3, <1>4

\* The newest row of now, with room for it beside the pins, is retained.
LEMMA CommitRetains ==
  ASSUME Typed, NEW id, NEW stored, NEW words, Table(stored), Commit(id, stored, words),
         ~Refuse("storage-capacity"), id \in DOMAIN stored, stored[id].captured = clock,
         \A j \in DOMAIN stored \ {id} : Older(stored, j, id),
         Bytes(stored, PinnedIn(stored) \cup {id}) <= settings.max_bytes
  PROVE  id \in DOMAIN rows'
<1> DEFINE pruned == Pruned(stored)
<1>1. /\ Table(pruned) /\ DOMAIN pruned = DOMAIN stored \ Stale(stored)
      /\ \A k \in DOMAIN pruned : pruned[k] = stored[k]
      /\ PinnedIn(pruned) = PinnedIn(stored)
      /\ \A k, l \in DOMAIN pruned : Older(pruned, k, l) <=> Older(stored, k, l)
      /\ DOMAIN rows' = DOMAIN pruned \ Surplus(pruned)
  BY CommitIs
<1> HIDE DEF pruned
<1>2. id \notin Stale(stored)
  <2>1. ~(stored[id].captured < clock - settings.max_days)
    BY LimitsAre
  <2>2. {j \in UnpinnedIn(stored) : Older(stored, id, j)} = {}
    <3> SUFFICES ASSUME NEW j \in UnpinnedIn(stored), Older(stored, id, j) PROVE FALSE
      OBVIOUS
    <3>1. j \in DOMAIN stored
      BY DEF UnpinnedIn
    <3> QED BY <3>1, OlderIs
  <2>3. ~(Cardinality({j \in UnpinnedIn(stored) : Older(stored, id, j)})
            >= settings.max_items)
    BY <2>2, FS_EmptySet, LimitsAre
  <2> QED BY <2>1, <2>3 DEF Stale
<1>3. id \in DOMAIN pruned
  BY <1>1, <1>2
<1>4. id \notin Surplus(pruned)
  <2> DEFINE A == {j \in DOMAIN pruned : pruned[j].pinned \/ ~Older(pruned, j, id)}
             P == PinnedIn(stored) \cup {id}
  <2>1. A = P
    <3>1. \A j \in DOMAIN pruned \ {id} : Older(pruned, j, id)
      BY <1>1, <1>3
    <3>2. ~Older(pruned, id, id)
      BY <1>1, <1>3, OlderIs
    <3>3. PinnedIn(stored) = {j \in DOMAIN pruned : pruned[j].pinned}
      BY <1>1 DEF PinnedIn
    <3> QED BY <3>1, <3>2, <3>3, <1>3
  <2>2. P \subseteq DOMAIN pruned /\ P \subseteq DOMAIN stored
    BY <1>1, <1>3 DEF PinnedIn
  <2> HIDE DEF P
  <2>3. Bytes(stored, P) = Bytes(pruned, P)
    <3>1. \A k \in P : stored[k].content = pruned[k].content
      BY <2>2, <1>1
    <3> QED BY <2>2, <3>1, <1>1, BytesSame
  <2>4. Bytes(pruned, P) \in Nat /\ P = PinnedIn(stored) \cup {id}
    BY <2>2, <1>1, BytesIs DEF P
  <2>5. ~(Bytes(pruned, A) > settings.max_bytes)
    BY <2>1, <2>3, <2>4, LimitsAre
  <2> QED BY <2>5 DEF Surplus
<1> QED BY <1>1, <1>3, <1>4
-----------------------------------------------------------------------------
(***************************************************************************)
(* The table a capture is committed from.                                  *)
(***************************************************************************)
Recopied(id) == [rows EXCEPT ![id].captured = clock]
Added(id, c) == [i \in DOMAIN rows \cup {id} |->
                   IF i = id THEN [content |-> c, captured |-> clock, pinned |-> FALSE]
                             ELSE rows[i]]
Worded(id, c) == [i \in DOMAIN index \cup {id} |-> IF i = id THEN c ELSE index[i]]

LEMMA RecopiedIs ==
  ASSUME Typed, NEW id \in Ids, id \in DOMAIN rows
  PROVE  /\ Table(Recopied(id)) /\ DOMAIN Recopied(id) = DOMAIN rows
         /\ \A i \in DOMAIN rows \ {id} : Recopied(id)[i] = rows[i]
         /\ Recopied(id)[id].captured = clock
         /\ \A i \in DOMAIN rows : Recopied(id)[i].content = rows[i].content
         /\ PinnedIn(Recopied(id)) = PinnedIn(rows)
<1> DEFINE q == Recopied(id)
<1>1. /\ DOMAIN q = DOMAIN rows /\ q \in [DOMAIN rows -> Row]
      /\ \A i \in DOMAIN rows \ {id} : q[i] = rows[i]
      /\ q[id].captured = clock
      /\ \A i \in DOMAIN rows : q[i].content = rows[i].content /\ q[i].pinned = rows[i].pinned
  BY DEF Recopied, Typed, Row
<1> HIDE DEF q
<1>2. Table(q)
  BY <1>1 DEF Table, Typed
<1>3. PinnedIn(q) = PinnedIn(rows)
  BY <1>1 DEF PinnedIn
<1> QED BY <1>1, <1>2, <1>3 DEF q

LEMMA AddedIs ==
  ASSUME Typed, NEW id \in Ids, id \notin DOMAIN rows, NEW c \in Contents
  PROVE  /\ Table(Added(id, c)) /\ DOMAIN Added(id, c) = DOMAIN rows \cup {id}
         /\ \A i \in DOMAIN rows : Added(id, c)[i] = rows[i]
         /\ Added(id, c)[id].captured = clock /\ Added(id, c)[id].content = c
         /\ PinnedIn(Added(id, c)) = PinnedIn(rows)
<1> DEFINE q == Added(id, c)
<1>1. /\ DOMAIN q = DOMAIN rows \cup {id} /\ q \in [DOMAIN q -> Row]
      /\ \A i \in DOMAIN rows : q[i] = rows[i]
      /\ q[id].captured = clock /\ q[id].content = c
  BY DEF Added, Typed, Row
<1>2. q[id].pinned = FALSE
  BY DEF Added
<1> HIDE DEF q
<1>3. Table(q)
  BY <1>1 DEF Table, Typed
<1>4. PinnedIn(q) = PinnedIn(rows)
  BY <1>1, <1>2 DEF PinnedIn
<1> QED BY <1>1, <1>3, <1>4 DEF q

\* A new row comes with the id after the largest.
LEMMA NextIsFree ==
  ASSUME Typed, NEW id \in Ids, IsNext(id)
  PROVE  id \notin DOMAIN rows /\ \A i \in DOMAIN rows : i \in Nat /\ id \in Nat /\ i < id
BY TableIs, LimitsAre DEF IsNext, Ids

\* With a sane clock the row of a capture is the newest of its table.
LEMMA RecopiedIsNewest ==
  ASSUME Typed, ClockSane, NEW id \in Ids, IsNewest(rows, id)
  PROVE  \A j \in DOMAIN rows \ {id} : Older(Recopied(id), j, id)
<1>1. id \in DOMAIN rows /\ DOMAIN rows \subseteq Nat /\ clock \in Nat
  BY LimitsAre, TableIs DEF IsNewest
<1> TAKE j \in DOMAIN rows \ {id}
<1>2. /\ Recopied(id)[j] = rows[j] /\ Recopied(id)[id].captured = clock
      /\ rows[j].captured \in Nat /\ rows[id].captured \in Nat
  BY <1>1, RecopiedIs, LimitsAre, TableIs
<1>3. Older(rows, j, id) /\ rows[j].captured <= clock /\ rows[id].captured <= clock
  BY <1>1 DEF IsNewest, ClockSane
<1> QED BY <1>1, <1>2, <1>3 DEF Older

LEMMA AddedIsNewest ==
  ASSUME Typed, ClockSane, NEW id \in Ids, IsNext(id), NEW c \in Contents
  PROVE  \A j \in DOMAIN rows : Older(Added(id, c), j, id)
<1> TAKE j \in DOMAIN rows
<1>1. /\ Added(id, c)[j] = rows[j] /\ Added(id, c)[id].captured = clock
      /\ j \in Nat /\ id \in Nat /\ j < id
  BY NextIsFree, AddedIs
<1>2. rows[j].captured <= clock /\ rows[j].captured \in Nat /\ clock \in Nat
  BY LimitsAre, TableIs DEF ClockSane
<1> QED BY <1>1, <1>2 DEF Older
-----------------------------------------------------------------------------
(***************************************************************************)
(* Retention takes the oldest.                                             *)
(***************************************************************************)
TakesOldest ==
  \A i \in DOMAIN rows \ DOMAIN rows', j \in UnpinnedIn(rows') :
    \/ rows[i].captured < rows'[j].captured
    \/ rows[i].captured = rows'[j].captured /\ i < j

LEMMA NoneTaken == ASSUME DOMAIN rows' = DOMAIN rows PROVE TakesOldest
BY DEF TakesOldest

LEMMA RecopyOldest ==
  ASSUME Typed, ClockSane, NEW id \in Ids, Recopy(id) PROVE TakesOldest
<1> DEFINE stored == Recopied(id)
<1>1. /\ id \in DOMAIN rows /\ IsNewest(rows, id) /\ Commit(id, stored, index)
  BY DEF Recopy, IsNewest, Recopied
<1>2. CASE Refuse("storage-capacity")
  BY <1>2, NoneTaken DEF Refuse
<1>3. CASE ~Refuse("storage-capacity")
  <2>1. /\ Table(stored) /\ DOMAIN stored = DOMAIN rows
        /\ \A i \in DOMAIN rows \ {id} : stored[i] = rows[i]
        /\ stored[id].captured = clock
    BY <1>1, RecopiedIs
  <2>2. \A j \in DOMAIN rows \ {id} : Older(stored, j, id)
    BY <1>1, RecopiedIsNewest
  <2> HIDE DEF stored
  <2> SUFFICES ASSUME NEW i \in DOMAIN rows \ DOMAIN rows', NEW j \in UnpinnedIn(rows')
               PROVE  \/ rows[i].captured < rows'[j].captured
                      \/ rows[i].captured = rows'[j].captured /\ i < j
    BY DEF TakesOldest
  <2>3. i \in DOMAIN stored \ DOMAIN rows'
    BY <2>1
  <2>4. /\ j \in DOMAIN stored /\ rows'[j] = stored[j] /\ i # j
        /\ Older(stored, i, j)
    BY <1>1, <1>3, <2>1, <2>3, CommitOldest
  <2>5. i # id
    <3> SUFFICES ASSUME i = id PROVE FALSE
      OBVIOUS
    <3>1. Older(stored, j, i)
      BY <2>1, <2>2, <2>4
    <3> QED BY <2>1, <2>3, <2>4, <3>1, OlderIs
  <2> QED BY <2>1, <2>4, <2>5 DEF Older
<1> QED BY <1>2, <1>3

LEMMA AddOldest ==
  ASSUME Typed, NEW id \in Ids, NEW c \in Contents, Add(id, c) PROVE TakesOldest
<1> DEFINE stored == Added(id, c)
           words  == Worded(id, c)
<1>1. \/ Refuse("storage-capacity") \/ Refuse("storage-write")
      \/ Commit(id, stored, words)
  BY DEF Add, Added, Worded
<1>2. id \notin DOMAIN rows
  BY NextIsFree DEF Add
<1>3. CASE Refuse("storage-capacity") \/ Refuse("storage-write")
  BY <1>3, NoneTaken DEF Refuse
<1>4. CASE Commit(id, stored, words) /\ ~Refuse("storage-capacity")
  <2>1. /\ Table(stored) /\ DOMAIN stored = DOMAIN rows \cup {id}
        /\ \A i \in DOMAIN rows : stored[i] = rows[i]
    BY <1>2, AddedIs
  <2> HIDE DEF stored, words
  <2> SUFFICES ASSUME NEW i \in DOMAIN rows \ DOMAIN rows', NEW j \in UnpinnedIn(rows')
               PROVE  \/ rows[i].captured < rows'[j].captured
                      \/ rows[i].captured = rows'[j].captured /\ i < j
    BY DEF TakesOldest
  <2>2. i \in DOMAIN stored \ DOMAIN rows'
    BY <2>1
  <2>3. rows'[j] = stored[j] /\ Older(stored, i, j)
    BY <1>4, <2>1, <2>2, CommitOldest
  <2> QED BY <2>1, <2>3 DEF Older
<1> QED BY <1>1, <1>3, <1>4

LEMMA ExpireOldest == ASSUME Typed, Expire PROVE TakesOldest
<1> DEFINE S == Stale(rows)
           q == Without(rows, S)
<1>1. rows' = q /\ Table(rows)
  BY LimitsAre DEF Expire
<1>2. /\ DOMAIN q = DOMAIN rows \ S /\ UnpinnedIn(q) = UnpinnedIn(rows) \ S
      /\ \A i \in DOMAIN rows \ S : q[i] = rows[i]
  BY <1>1, WithoutIs
<1> HIDE DEF q
<1> SUFFICES ASSUME NEW i \in DOMAIN rows \ DOMAIN rows', NEW j \in UnpinnedIn(rows')
             PROVE  \/ rows[i].captured < rows'[j].captured
                    \/ rows[i].captured = rows'[j].captured /\ i < j
  BY DEF TakesOldest
<1>3. i \in S /\ j \in UnpinnedIn(rows) \ S
  BY <1>1, <1>2
<1>4. j \in DOMAIN rows \ S /\ rows'[j] = rows[j]
  BY <1>1, <1>2, <1>3 DEF UnpinnedIn
<1>5. Older(rows, i, j)
  BY <1>1, <1>3, StaleIsOldest
<1> QED BY <1>4, <1>5 DEF Older

LEMMA MaintainOldest == ASSUME Typed, Maintain PROVE TakesOldest
<1>1. CASE rows' = rows
  BY <1>1, NoneTaken
<1>2. CASE rows' # rows
  <2>1. PICK k \in UnpinnedIn(rows) : /\ \A j \in UnpinnedIn(rows) \ {k} : Older(rows, k, j)
                                      /\ rows' = Without(rows, {k})
    BY <1>2 DEF Maintain, EndWith
  <2> DEFINE q == Without(rows, {k})
  <2>2. /\ DOMAIN q = DOMAIN rows \ {k} /\ UnpinnedIn(q) = UnpinnedIn(rows) \ {k}
        /\ \A i \in DOMAIN rows \ {k} : q[i] = rows[i]
    BY WithoutIs, LimitsAre
  <2>3. rows' = q
    BY <2>1
  <2> HIDE DEF q
  <2> SUFFICES ASSUME NEW i \in DOMAIN rows \ DOMAIN rows', NEW j \in UnpinnedIn(rows')
               PROVE  \/ rows[i].captured < rows'[j].captured
                      \/ rows[i].captured = rows'[j].captured /\ i < j
    BY DEF TakesOldest
  <2>4. i = k /\ j \in UnpinnedIn(rows) \ {k} /\ j \in DOMAIN rows \ {k}
    BY <2>2, <2>3 DEF UnpinnedIn
  <2>5. rows'[j] = rows[j] /\ Older(rows, i, j)
    BY <2>1, <2>2, <2>3, <2>4
  <2> QED BY <2>5 DEF Older
<1> QED BY <1>1, <1>2

\* Retention takes the oldest unpinned rows, by whichever of its rules it acts and
\* whatever the sizes, the limits and the number of rows are.
THEOREM TakenIsOldest == Spec => OldestFirst
<1> DEFINE step == (cmd'.op \notin {"delete", "clear"} /\ ClockSane) => TakesOldest
<1>1. Inv /\ [Next]_vars => [step]_vars
  <2> SUFFICES ASSUME Inv, Next, cmd'.op \notin {"delete", "clear"}, ClockSane
               PROVE  TakesOldest
    OBVIOUS
  <2>1. Typed
    BY DEF Inv
  <2>2. ASSUME NEW id \in Ids, Recopy(id) PROVE TakesOldest
    BY <2>1, <2>2, RecopyOldest
  <2>3. ASSUME NEW id \in Ids, Pin(id) PROVE TakesOldest
    BY <2>3, NoneTaken DEF Pin
  <2>4. ASSUME NEW id \in Ids, NEW c \in Contents, Add(id, c) PROVE TakesOldest
    BY <2>1, <2>4, AddOldest
  <2>5. ASSUME NEW id \in Ids, NEW confirmed \in BOOLEAN, Delete(id, confirmed)
        PROVE  TakesOldest
    <3>1. Refuse("confirmation-required")
      BY <2>5 DEF Delete, Begin
    <3> QED BY <3>1, NoneTaken DEF Refuse
  <2>6. ASSUME NEW pins \in BOOLEAN, Clear(pins) PROVE TakesOldest
    BY <2>6 DEF Clear, Begin
  <2>7. CASE Expire
    BY <2>1, <2>7, ExpireOldest
  <2>8. CASE Maintain
    BY <2>1, <2>8, MaintainOldest
  <2>9. CASE \/ \E new \in Limits : ChangeSettings(new)
             \/ \E t \in 0..MaxClock : SetClock(t)
             \/ Unlock \/ Check \/ RebuildIndex \/ Shrink \/ Fail \/ Stop
    BY <2>9, NoneTaken
       DEF ChangeSettings, SetClock, Unlock, Check, RebuildIndex, Shrink, Fail, Stop
  <2> QED BY <2>2, <2>3, <2>4, <2>5, <2>6, <2>7, <2>8, <2>9 DEF Next, Step
<1> QED BY <1>1, InvAlways, PTL DEF Spec, OldestFirst, TakesOldest
-----------------------------------------------------------------------------
(***************************************************************************)
(* A committed capture is retained.                                        *)
(***************************************************************************)
LEMMA RecopyRetains ==
  ASSUME Typed, ClockSane, NEW id \in Ids, Recopy(id), pc' = "maintain",
         Bytes(rows, PinnedIn(rows) \cup ({id} \cap DOMAIN rows)) <= settings.max_bytes
  PROVE  cmd'.id = id /\ id \in DOMAIN rows'
<1> DEFINE stored == Recopied(id)
           P      == PinnedIn(rows) \cup {id}
<1>1. /\ id \in DOMAIN rows /\ IsNewest(rows, id) /\ Commit(id, stored, index)
      /\ ~Refuse("storage-capacity")
  BY DEF Recopy, IsNewest, Recopied, Refuse
<1>2. /\ Table(stored) /\ DOMAIN stored = DOMAIN rows /\ stored[id].captured = clock
      /\ \A i \in DOMAIN rows : stored[i].content = rows[i].content
      /\ PinnedIn(stored) = PinnedIn(rows)
  BY <1>1, RecopiedIs
<1>3. \A j \in DOMAIN rows \ {id} : Older(stored, j, id)
  BY <1>1, RecopiedIsNewest
<1> HIDE DEF stored
<1>4. P \subseteq DOMAIN rows /\ PinnedIn(rows) \cup ({id} \cap DOMAIN rows) = P
  BY <1>1 DEF PinnedIn
<1> HIDE DEF P
<1>5. Bytes(stored, P) = Bytes(rows, P)
  <2>1. Table(rows) /\ \A i \in P : stored[i].content = rows[i].content
    BY <1>2, <1>4, LimitsAre
  <2> QED BY <1>2, <1>4, <2>1, BytesSame
<1>6. Bytes(stored, PinnedIn(stored) \cup {id}) <= settings.max_bytes
  BY <1>2, <1>4, <1>5 DEF P
<1>7. id \in DOMAIN rows'
  BY <1>1, <1>2, <1>3, <1>6, CommitRetains
<1>8. cmd' = [op |-> "insert", id |-> id]
  BY <1>1, <1>2, CommitIs
<1> QED BY <1>7, <1>8

LEMMA AddRetains ==
  ASSUME Typed, ClockSane, NEW id \in Ids, NEW c \in Contents, Add(id, c), pc' = "maintain"
  PROVE  cmd'.id = id /\ id \in DOMAIN rows'
<1> DEFINE stored == Added(id, c)
           words  == Worded(id, c)
           P      == PinnedIn(rows)
<1>1. /\ IsNext(id) /\ Commit(id, stored, words) /\ ~Refuse("storage-capacity")
      /\ ~(Bytes(rows, P) + Size[c] > settings.max_bytes)
  BY DEF Add, Added, Worded, Refuse
<1>2. id \notin DOMAIN rows
  BY <1>1, NextIsFree
<1>3. /\ Table(stored) /\ DOMAIN stored = DOMAIN rows \cup {id}
      /\ \A i \in DOMAIN rows : stored[i] = rows[i]
      /\ stored[id].captured = clock /\ stored[id].content = c
      /\ PinnedIn(stored) = P
  BY <1>2, AddedIs
<1>4. \A j \in DOMAIN rows : Older(stored, j, id)
  BY <1>1, AddedIsNewest
<1>5. P \subseteq DOMAIN rows /\ P \subseteq DOMAIN stored /\ id \notin P
  BY <1>2, <1>3 DEF PinnedIn
<1> HIDE DEF stored, words, P
<1>6. Bytes(stored, P) = Bytes(rows, P)
  <2>1. Table(rows) /\ \A i \in P : stored[i].content = rows[i].content
    BY <1>3, <1>5, LimitsAre
  <2> QED BY <1>3, <1>5, <2>1, BytesSame
<1>7. Bytes(stored, P \cup {id}) = Size[c] + Bytes(stored, P)
  <2>1. P \cup {id} \in SUBSET DOMAIN stored /\ (P \cup {id}) \ {id} = P
    BY <1>3, <1>5
  <2> QED BY <1>3, <2>1, BytesIs
<1>8. Bytes(stored, PinnedIn(stored) \cup {id}) <= settings.max_bytes
  <2>1. Bytes(rows, P) \in Nat /\ Size[c] \in Nat /\ settings.max_bytes \in Nat
    BY <1>5, LimitsAre, BytesIs, StorageAssumption
  <2> QED BY <1>1, <1>3, <1>6, <1>7, <2>1
<1>9. id \in DOMAIN rows'
  BY <1>1, <1>3, <1>4, <1>8, CommitRetains
<1>10. cmd' = [op |-> "insert", id |-> id]
  BY <1>1, <1>3, CommitIs
<1> QED BY <1>9, <1>10

\* The retention of a capture's own transaction never takes the capture, whatever the
\* sizes and the limits are.
THEOREM CaptureIsKept == Spec => CaptureRetained
<1> DEFINE step == (/\ pc = "idle" /\ pc' = "maintain" /\ ClockSane
                    /\ Bytes(rows, PinnedIn(rows) \cup ({cmd'.id} \cap DOMAIN rows))
                         <= settings.max_bytes)
                     => cmd'.id \in DOMAIN rows'
<1>1. Inv /\ [Next]_vars => [step]_vars
  <2> SUFFICES ASSUME Inv, Next, pc = "idle", pc' = "maintain", ClockSane,
                      Bytes(rows, PinnedIn(rows) \cup ({cmd'.id} \cap DOMAIN rows))
                        <= settings.max_bytes
               PROVE  cmd'.id \in DOMAIN rows'
    OBVIOUS
  <2>1. Typed
    BY DEF Inv
  <2>2. ASSUME NEW id \in Ids, Recopy(id) PROVE cmd'.id \in DOMAIN rows'
    <3>1. cmd'.id = id
      BY <2>2 DEF Recopy, Commit, Refuse
    <3> QED BY <2>1, <2>2, <3>1, RecopyRetains
  <2>3. ASSUME NEW id \in Ids, NEW c \in Contents, Add(id, c)
        PROVE  cmd'.id \in DOMAIN rows'
    BY <2>1, <2>3, AddRetains
  <2>4. ~(\E id \in Ids : Pin(id))
    BY DEF Pin
  <2>5. /\ ~(\E id \in Ids, confirmed \in BOOLEAN : Delete(id, confirmed))
        /\ ~(\E pins \in BOOLEAN : Clear(pins))
        /\ ~(\E new \in Limits : ChangeSettings(new))
        /\ ~(\E t \in 0..MaxClock : SetClock(t))
    BY DEF Delete, Refuse, Clear, ChangeSettings, Begin, SetClock
  <2>6. ~Unlock /\ ~Step /\ ~Fail /\ ~Stop
    BY DEF Unlock, Step, Check, Expire, RebuildIndex, Maintain, Shrink, Fail, Stop
  <2> QED BY <2>2, <2>3, <2>4, <2>5, <2>6 DEF Next
<1> QED BY <1>1, InvAlways, PTL DEF Spec, CaptureRetained
-----------------------------------------------------------------------------
(***************************************************************************)
(* A command that ends well leaves a history within its limits.            *)
(***************************************************************************)
\* Once a command has pruned, nothing is stale until it ends: its clock and its
\* settings stay, and deleting makes no row stale.
Fresh ==
  (\/ pc \in {"maintain", "shrink", "check"}
   \/ pc = "rebuild" /\ cmd.op \in {"unlock", "settings"})
    => Stale(rows) = {}

\* The last question of an insertion comes when the file fits.
Fits == pc = "check" => Physical(rows) <= settings.max_bytes

Limited == Inv /\ Fresh /\ Fits

LEMMA CommitFresh ==
  ASSUME Typed, NEW id, NEW stored, NEW words, Table(stored), Commit(id, stored, words),
         ~Refuse("storage-capacity")
  PROVE  Stale(rows)' = {} /\ pc' = "maintain"
<1>1. /\ rows' = Without(Pruned(stored), Surplus(Pruned(stored)))
      /\ Table(Pruned(stored)) /\ pc' = "maintain" /\ UNCHANGED <<settings, clock>>
  BY CommitIs
<1>2. Stale(Pruned(stored)) = {}
  BY StillFresh DEF Pruned
<1>3. Stale(rows') = {}
  BY <1>1, <1>2, StillFresh
<1>4. Stale(rows)' = Stale(rows')
  BY <1>1 DEF Stale
<1> QED BY <1>1, <1>3, <1>4

LEMMA FreshStays ==
  ASSUME Typed, Stale(rows) = {}, NEW S, rows' = Without(rows, S),
         UNCHANGED <<settings, clock>>
  PROVE  Stale(rows)' = {}
<1>1. Stale(rows') = {}
  BY StillFresh, LimitsAre
<1>2. Stale(rows)' = Stale(rows')
  BY DEF Stale
<1> QED BY <1>1, <1>2

LEMMA SameStale ==
  ASSUME UNCHANGED <<rows, settings, clock>>
  PROVE  Stale(rows)' = Stale(rows) /\ Physical(rows)' = Physical(rows)
BY DEF Stale

LEMMA InitLimited == Init => Limited
BY InitInv DEF Init, Limited, Fresh, Fits

LEMMA NextLimited == Limited /\ [Next]_vars => Limited'
<1> SUFFICES ASSUME Limited, [Next]_vars PROVE (Fresh /\ Fits)'
  BY NextInv DEF Limited
<1>1. Inv /\ Typed /\ Fresh /\ Fits
  BY DEF Limited, Inv
<1>2. ASSUME NEW id \in Ids, Recopy(id) PROVE (Fresh /\ Fits)'
  <2>1. /\ pc = "idle" /\ id \in DOMAIN rows /\ Commit(id, Recopied(id), index)
    BY <1>2 DEF Recopy, IsNewest, Recopied
  <2>2. CASE Refuse("storage-capacity")
    BY <2>1, <2>2 DEF Refuse, Fresh, Fits
  <2>3. CASE ~Refuse("storage-capacity")
    <3>1. Table(Recopied(id))
      BY <1>1, <2>1, RecopiedIs
    <3>2. Stale(rows)' = {} /\ pc' = "maintain"
      BY <1>1, <2>1, <2>3, <3>1, CommitFresh
    <3> QED BY <3>2 DEF Fresh, Fits
  <2> QED BY <2>2, <2>3
<1>3. ASSUME NEW id \in Ids, NEW c \in Contents, Add(id, c) PROVE (Fresh /\ Fits)'
  <2>1. /\ pc = "idle" /\ IsNext(id)
        /\ \/ Refuse("storage-capacity") \/ Refuse("storage-write")
           \/ Commit(id, Added(id, c), Worded(id, c))
    BY <1>3 DEF Add, Added, Worded
  <2>2. CASE Refuse("storage-capacity") \/ Refuse("storage-write")
    BY <2>1, <2>2 DEF Refuse, Fresh, Fits
  <2>3. CASE Commit(id, Added(id, c), Worded(id, c)) /\ ~Refuse("storage-capacity")
    <3>1. Table(Added(id, c))
      BY <1>1, <2>1, NextIsFree, AddedIs
    <3>2. Stale(rows)' = {} /\ pc' = "maintain"
      BY <1>1, <2>3, <3>1, CommitFresh
    <3> QED BY <3>2 DEF Fresh, Fits
  <2> QED BY <2>1, <2>2, <2>3
<1>4. ASSUME \/ \E id \in Ids : Pin(id)
             \/ \E new \in Limits : ChangeSettings(new)
             \/ \E t \in 0..MaxClock : SetClock(t)
             \/ Unlock \/ Fail \/ Stop
      PROVE  (Fresh /\ Fits)'
  <2>1. pc' \in {"idle", "closed", "prune"}
    BY <1>4 DEF Pin, ChangeSettings, Begin, SetClock, Unlock, Fail, EndWith, Stop
  <2> QED BY <2>1 DEF Fresh, Fits
<1>5. ASSUME NEW id \in Ids, NEW confirmed \in BOOLEAN, Delete(id, confirmed)
      PROVE  (Fresh /\ Fits)'
  BY <1>5 DEF Delete, Refuse, Begin, Fresh, Fits
<1>6. ASSUME NEW pins \in BOOLEAN, Clear(pins) PROVE (Fresh /\ Fits)'
  BY <1>6 DEF Clear, Begin, Fresh, Fits
<1>7. CASE Expire
  <2>1. /\ rows' = Without(rows, Stale(rows)) /\ pc' \in {"maintain", "rebuild"}
        /\ UNCHANGED <<settings, clock>>
    BY <1>7 DEF Expire
  <2>2. Stale(rows') = {}
    BY <1>1, <2>1, StillFresh, LimitsAre
  <2>3. Stale(rows)' = Stale(rows')
    BY <2>1 DEF Stale
  <2> QED BY <2>1, <2>2, <2>3 DEF Fresh, Fits
<1>8. CASE Maintain
  <2>1. pc = "maintain" /\ Stale(rows) = {}
    BY <1>1, <1>8 DEF Maintain, Fresh
  <2>2. CASE Physical(rows) <= settings.max_bytes
    <3>1. UNCHANGED <<rows, settings, clock>>
      BY <1>8, <2>2 DEF Maintain
    <3> QED BY <2>1, <2>2, <3>1, SameStale DEF Fresh, Fits
  <2>3. CASE ~(Physical(rows) <= settings.max_bytes) /\ UnpinnedIn(rows) = {}
    BY <1>8, <2>3 DEF Maintain, EndWith, Fresh, Fits
  <2>4. CASE ~(Physical(rows) <= settings.max_bytes) /\ UnpinnedIn(rows) # {}
    <3>1. PICK i \in UnpinnedIn(rows) : rows' = Without(rows, {i})
      BY <1>8, <2>4 DEF Maintain
    <3>2. pc' = "shrink" /\ UNCHANGED <<settings, clock>>
      BY <1>8, <2>4 DEF Maintain
    <3>3. Stale(rows)' = {}
      BY <1>1, <2>1, <3>1, <3>2, FreshStays
    <3> QED BY <3>2, <3>3 DEF Fresh, Fits
  <2> QED BY <2>2, <2>3, <2>4
<1>9. CASE RebuildIndex \/ Shrink \/ Check \/ UNCHANGED vars
  <2>1. UNCHANGED <<rows, settings, clock>>
    BY <1>9 DEF RebuildIndex, Shrink, Check, vars
  <2>2. Stale(rows)' = Stale(rows) /\ Physical(rows)' = Physical(rows)
    BY <2>1, SameStale
  <2>3. CASE RebuildIndex
    BY <1>1, <2>2, <2>3 DEF RebuildIndex, Fresh, Fits
  <2>4. CASE Shrink
    BY <1>1, <2>2, <2>4 DEF Shrink, Fresh, Fits
  <2>5. CASE Check
    BY <2>5 DEF Check, Fresh, Fits
  <2>6. CASE UNCHANGED vars
    BY <1>1, <2>2, <2>6 DEF vars, Fresh, Fits
  <2> QED BY <1>9, <2>3, <2>4, <2>5, <2>6
<1> QED BY <1>2, <1>3, <1>4, <1>5, <1>6, <1>7, <1>8, <1>9 DEF Next, Step

LEMMA LimitedAlways == Spec => []Limited
<1>1. Init => Limited
  BY InitLimited
<1>2. Limited /\ [Next]_vars => Limited'
  BY NextLimited
<1> QED BY <1>1, <1>2, PTL DEF Spec

\* Where no row is stale, the oldest of the unpinned ones has fewer than max_items
\* after it.
LEMMA FreshIsLimited ==
  ASSUME Typed, Stale(rows) = {}
  PROVE  /\ Cardinality(UnpinnedIn(rows)) <= settings.max_items
         /\ \A i \in UnpinnedIn(rows) : rows[i].captured >= clock - settings.max_days
<1> DEFINE U == UnpinnedIn(rows)
<1>1. /\ U \in SUBSET DOMAIN rows /\ Table(rows) /\ settings.max_items \in Nat
      /\ settings.max_days \in Nat /\ clock \in Nat
  BY LimitsAre, TableIs
<1>2. IsFiniteSet(U) /\ Cardinality(U) \in Nat
  BY <1>1, TableIs
<1>3. \A i \in U : /\ ~(rows[i].captured < clock - settings.max_days)
                   /\ ~(Cardinality({j \in U : Older(rows, i, j)}) >= settings.max_items)
  BY DEF Stale
<1>4. \A i \in U : rows[i].captured >= clock - settings.max_days
  <2> HIDE DEF U
  <2> TAKE i \in U
  <2>1. rows[i].captured \in Nat
    BY <1>1, TableIs
  <2>2. ~(rows[i].captured < clock - settings.max_days)
    BY <1>3
  <2> QED BY <1>1, <2>1, <2>2
<1>5. Cardinality(U) <= settings.max_items
  <2>1. CASE U = {}
    BY <1>1, <2>1, FS_EmptySet
  <2>2. CASE U # {}
    <3> HIDE DEF U
    <3>1. PICK i \in U : \A j \in U \ {i} : Older(rows, i, j)
      BY <1>1, <2>2, OldestIs
    <3>2. {j \in U : Older(rows, i, j)} = U \ {i}
      BY <1>1, <3>1, OlderIs
    <3>3. Cardinality(U \ {i}) = Cardinality(U) - 1
      BY <1>2, <3>1, FS_RemoveElement
    <3>4. ~(Cardinality(U) - 1 >= settings.max_items)
      BY <1>3, <3>1, <3>2, <3>3
    <3> QED BY <1>1, <1>2, <3>4
  <2> QED BY <2>1, <2>2
<1> QED BY <1>4, <1>5

\* A command that ends well leaves as many unpinned rows as the settings allow, none
\* of them too old, in a file that fits.
THEOREM EndsWithinLimits == Spec => WithinLimits
<1> DEFINE step == (result' = "ok" /\ pc' = "idle" /\ pc \in {"check", "maintain"})
                     => /\ Cardinality(UnpinnedIn(rows)) <= settings.max_items
                        /\ Physical(rows) <= settings.max_bytes
                        /\ \A i \in UnpinnedIn(rows) :
                             rows[i].captured >= clock - settings.max_days
<1>1. Limited /\ [Next]_vars => [step]_vars
  <2> SUFFICES ASSUME Limited, Next, result' = "ok", pc' = "idle",
                      pc \in {"check", "maintain"}
               PROVE  /\ Cardinality(UnpinnedIn(rows)) <= settings.max_items
                      /\ Physical(rows) <= settings.max_bytes
                      /\ \A i \in UnpinnedIn(rows) :
                           rows[i].captured >= clock - settings.max_days
    OBVIOUS
  <2>1. Typed /\ Stale(rows) = {} /\ Fits
    BY DEF Limited, Inv, Fresh
  <2>2. Physical(rows) <= settings.max_bytes
    <3>1. CASE pc = "check"
      BY <2>1, <3>1 DEF Fits
    <3>2. CASE pc = "maintain"
      <4>1. Maintain
        <5>1. /\ ~(\E id \in Ids : Recopy(id) \/ Pin(id))
              /\ ~(\E id \in Ids, c \in Contents : Add(id, c))
          BY <3>2 DEF Recopy, Pin, Add
        <5>2. /\ ~(\E id \in Ids, confirmed \in BOOLEAN : Delete(id, confirmed))
              /\ ~(\E pins \in BOOLEAN : Clear(pins))
              /\ ~(\E new \in Limits : ChangeSettings(new))
              /\ ~(\E t \in 0..MaxClock : SetClock(t))
          BY <3>2 DEF Delete, Clear, ChangeSettings, SetClock
        <5>3. ~Unlock /\ ~Check /\ ~Expire /\ ~RebuildIndex /\ ~Shrink /\ ~Fail /\ ~Stop
          BY <3>2 DEF Unlock, Check, Expire, RebuildIndex, Shrink, Fail, EndWith, Stop
        <5> QED BY <5>1, <5>2, <5>3 DEF Next, Step
      <4>2. CASE ~(Physical(rows) <= settings.max_bytes)
        BY <4>1, <4>2 DEF Maintain, EndWith
      <4> QED BY <4>2
    <3> QED BY <3>1, <3>2
  <2> QED BY <2>1, <2>2, FreshIsLimited
<1> QED BY <1>1, LimitedAlways, PTL DEF Spec, WithinLimits
-----------------------------------------------------------------------------
(***************************************************************************)
(* Commands wear out: what CommandsEnd rests on besides fairness.          *)
(***************************************************************************)
\* The transactions a command may still take: two for each row that maintenance may
\* delete, and those around them.
Around == [prune |-> 4, rebuild |-> 3, shrink |-> 3, maintain |-> 2, check |-> 1,
           idle |-> 0, closed |-> 0]
Left   == 2 * Cardinality(UnpinnedIn(rows)) + Around[pc]

LEMMA LeftIs ==
  ASSUME Typed
  PROVE  /\ Cardinality(UnpinnedIn(rows)) \in Nat /\ Around[pc] \in Nat /\ Left \in Nat
         /\ IsFiniteSet(UnpinnedIn(rows))
<1>1. Table(rows)
  BY LimitsAre
<1>2. IsFiniteSet(UnpinnedIn(rows)) /\ Cardinality(UnpinnedIn(rows)) \in Nat
  BY <1>1, TableIs
<1>3. Around[pc] \in Nat
  BY DEF Around, Typed
<1> QED BY <1>2, <1>3 DEF Left

LEMMA ExpireWears == ASSUME Typed, Expire PROVE Left' < Left
<1>1. /\ UnpinnedIn(rows') = UnpinnedIn(rows) \ Stale(rows) /\ pc = "prune"
      /\ pc' \in {"rebuild", "maintain"}
  BY LimitsAre, WithoutIs DEF Expire
<1>2. /\ Cardinality(UnpinnedIn(rows')) <= Cardinality(UnpinnedIn(rows))
      /\ Cardinality(UnpinnedIn(rows')) \in Nat
  BY <1>1, LeftIs, FS_Subset, FS_CardinalityType
<1> QED BY <1>1, <1>2, LeftIs DEF Left, Around

LEMMA MaintainWears == ASSUME Typed, Maintain PROVE pc' \in {"idle", "closed"} \/ Left' < Left
<1>1. CASE rows' = rows /\ pc' = "check"
  BY <1>1, LeftIs DEF Left, Around, Maintain
<1>2. ASSUME NEW i \in UnpinnedIn(rows), rows' = Without(rows, {i}), pc' = "shrink"
      PROVE  Left' < Left
  <2>1. UnpinnedIn(rows') = UnpinnedIn(rows) \ {i} /\ pc = "maintain"
    BY <1>2, LimitsAre, WithoutIs DEF Maintain
  <2>2. Cardinality(UnpinnedIn(rows')) = Cardinality(UnpinnedIn(rows)) - 1
    BY <2>1, LeftIs, FS_RemoveElement
  <2> QED BY <1>2, <2>1, <2>2, LeftIs DEF Left, Around
<1>3. \/ pc' \in {"idle", "closed"}
      \/ rows' = rows /\ pc' = "check"
      \/ \E i \in UnpinnedIn(rows) : rows' = Without(rows, {i}) /\ pc' = "shrink"
  BY DEF Maintain, EndWith
<1> QED BY <1>1, <1>2, <1>3

\* Every step of a command that runs ends it or brings it closer to its end, whatever is
\* pinned and however small the limit, and its loop always finds the row it is to delete:
\* the loop of maintain (storage.rs:301-311) neither spins nor gets stuck.
THEOREM CommandsWearOut ==
  Spec => /\ [](Left \in Nat)
          /\ [][pc \notin {"idle", "closed"} => pc' \in {"idle", "closed"} \/ Left' < Left]_vars
          /\ [](UnpinnedIn(rows) # {} =>
                  \E i \in UnpinnedIn(rows) : \A j \in UnpinnedIn(rows) \ {i} : Older(rows, i, j))
<1> DEFINE wears == pc \notin {"idle", "closed"} => pc' \in {"idle", "closed"} \/ Left' < Left
           found == UnpinnedIn(rows) # {} =>
                      \E i \in UnpinnedIn(rows) :
                        \A j \in UnpinnedIn(rows) \ {i} : Older(rows, i, j)
<1>1. Inv => Left \in Nat
  BY LeftIs DEF Inv
<1>2. Inv => found
  <2> SUFFICES ASSUME Inv, UnpinnedIn(rows) # {}
               PROVE  \E i \in UnpinnedIn(rows) :
                        \A j \in UnpinnedIn(rows) \ {i} : Older(rows, i, j)
    OBVIOUS
  <2>1. Table(rows) /\ UnpinnedIn(rows) \in SUBSET DOMAIN rows
    BY LimitsAre DEF Inv, UnpinnedIn
  <2> QED BY <2>1, OldestIs
<1>3. Inv /\ [Next]_vars => [wears]_vars
  <2> SUFFICES ASSUME Inv, Next, pc \notin {"idle", "closed"}
               PROVE  pc' \in {"idle", "closed"} \/ Left' < Left
    OBVIOUS
  <2>1. Typed
    BY DEF Inv
  <2>2. /\ ~(\E id \in Ids : Recopy(id) \/ Pin(id))
        /\ ~(\E id \in Ids, c \in Contents : Add(id, c))
    BY DEF Recopy, Pin, Add
  <2>3. /\ ~(\E id \in Ids, confirmed \in BOOLEAN : Delete(id, confirmed))
        /\ ~(\E pins \in BOOLEAN : Clear(pins))
        /\ ~(\E new \in Limits : ChangeSettings(new))
        /\ ~(\E t \in 0..MaxClock : SetClock(t)) /\ ~Unlock
    BY DEF Delete, Clear, ChangeSettings, SetClock, Unlock
  <2>4. CASE Check \/ Fail \/ Stop
    BY <2>4 DEF Check, Fail, EndWith, Stop
  <2>5. CASE RebuildIndex
    BY <2>1, <2>5, LeftIs DEF RebuildIndex, Left, Around
  <2>6. CASE Shrink
    BY <2>1, <2>6, LeftIs DEF Shrink, Left, Around
  <2> QED BY <2>1, <2>2, <2>3, <2>4, <2>5, <2>6, ExpireWears, MaintainWears DEF Next, Step
<1> QED BY <1>1, <1>2, <1>3, InvAlways, PTL DEF Spec
=============================================================================
