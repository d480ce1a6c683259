# ClipLedge in TLA+

Specifications of ClipLedge, a clipboard history manager for X11 desktops, with
the TLC runs that check them on small instances and TLAPS proofs for every
instance. The reference is the code: every definition names the lines it
translates in `PROJECT.json` ("map"). Paths below are relative to the repository.

## 1. The system

| Component | State | Operations | Talks to |
| --- | --- | --- | --- |
| Privacy gate, `src/security.rs` | `paused`, `locked`, `key_ready`, `capacity`, `backend`, `epoch`, `ownership`: atomics shared by all threads | `eligible`, `accepts`, `invalidate` | everybody |
| GTK thread, `src/ui.rs` | shelf, search serial, selection, published provider | pause, screen-saver and keyring signals, `lock_history`, search, restore, delete, pin, clear, settings, reset, unlock, stop, `poll`, `publish` | requests to the writer, reads to the reader, commands to the X11 thread |
| Writer, `src/engine.rs` | open database, settings | one arm per request; one capture between requests | keyring, reader (and waits for its ack), X11 thread, GTK thread |
| Reader, `src/engine.rs` | its own connection | Open, Close, Search, Restore, Stop | GTK thread, ack to the writer |
| Decoder, `src/engine.rs` | the job in hand | prepare and pass on | slots of one to and from it |
| X11 thread, `src/clipboard/x11.rs` | owner, generation, transfer, approved copy, SAVE_TARGETS requests | XFixes, selection and property events; commands; sweep and timeout | X server, decoder, GTK thread |
| Storage, `src/storage.rs` | SQLCipher tables and the FTS index | open, insert, expire, maintain, search, pin, delete, clear | called by writer and reader |
| Keyring, `src/keyring.rs` | none of its own: the key and its collection are the Secret Service's | find, unlock, create, verify and delete the key | Secret Service, up to a minute behind a prompt |
| Content, `src/content.rs`, patterns of `security.rs` | none | classify, filter, hash, detect secrets | called by the decoder |
| Settings, desktop, tray, command line, packaging | files and external programs | | |

What is hard about it: five threads share a gate they read and write one atomic
at a time; every operation that waits (keyring, reader, transfer, decoder) acts
on a gate it read before; a lock or a pause must take effect on work already in
four queues; ownership of the selection changes at the X server first and
is learnt of later, by one thread, and by another later still; the queues of the
capture path are one job deep and lose what does not fit; databases and keyrings
fail.

What makes each part correct:

- *gate, writer, reader*: what the gate says about history is what the writer
  holds; a lock outdates everything before it and always gets through.
- *GTK thread*: nothing of a locked history is shown or restored; in the end the
  shelf shows what the database holds.
- *capture path*: order, no duplicates, nothing across a Clear or new
  settings, no thread that waits for another.
- *X11 thread and publication*: only accepted content is offered, it is never
  captured again, it is nothing that was known to be replaced when the publication
  was checked, and requestors are answered once and after the fact.
- *transfer*: what is filed under a target is what its owner gave for it; a hinted
  offer is left alone; sizes hold.
- *content*: an item is refused as a whole or kept by its categories.
- *storage*: rows and index agree, pins survive, limits hold.
- *keyring and lock watch*: a key is created once and never beside a history; a
  reset is complete or not reported; the lock state follows both screen savers.

## 2. Modules

| Module | What it is |
| --- | --- |
| `Gate` | the privacy gate; extended by the others |
| `Engine` | session core: GTK handlers, writer, reader, their channels |
| `Capture` | `Engine` composed with X11 transfers, the decoder and the writer's capture steps |
| `LossyFifo` | abstract specification of the capture path: lossy, ordered, at most once |
| `Transfer` | the round trips by which the X11 thread fetches what an owner offers |
| `Content` | what the decoder makes of it |
| `Storage` | items, index, retention, the writer's commands as transactions, interruptions |
| `History` | abstract specification of the storage: what may leave a history, and why |
| `Preservation` | applications, X server, X11 thread and GTK publication |
| `Login` | screen savers, keyring, files, unlocking and resetting, over crashes |
| `MCEngine`, `MCCapture`, `MCTransfer`, `MCStorage`, `MCPreservation`, `MCLogin` | inputs of the runs |
| `Select` | a filter of sequences, used by `Transfer` and `Content` |
| `EngineProofs`, `CaptureProofs`, `PreservationProofs`, `TransferProofs`, `ContentProofs`, `StorageProofs`, `LoginProofs` | theorems about the module of that name |
| `DataLemmas` | lemmas about queues, selections and sums that those share |

**How they fit.** `Engine` has the threads and their requests, and takes storage
and keyring as something that answers or fails; `Storage` and `Login` say what is
behind those answers, step by step. `Capture` has a copy's way through three
threads with the transfer as one step and the decoder's verdict as a choice;
`Transfer` and `Content` are those two. `Preservation` has the selection and its
owners, with the capture path as a set of jobs that are accepted or rejected.

**Correspondence.** In `Engine`, `Capture` and `Preservation` a thread's handler is
one action unless another thread can see it half done, or can change in between what
it has read; then the variables `ui`, `wpc`, `xpc` and `gpc` say what is left of it. `lock_history` is the three actions
`LockHistory` (`key_ready`), `LockEpoch` (epoch and display) and `UiSend`; an
Unlock is `WUnlock`, `WKey` (the keyring), `WOpen` (database, then the request to
the reader), `WCheck` (the ack and the last look at the gate) and `WReady`, for
that is where the code waits or where others run. The writer's Reset and Lock are
`WLock` and `WClosed`. Channels are sequences, the slots of the capture path are a
job or nothing. The model keeps `inserting`, the job between two steps of the
writer, where the code has a local variable.

A publication is four steps of the GTK thread: `Poll` loads the gate and the
ownership (`ui.rs` 592-593), `Claim` takes the selection (`set_content`, 500) or
`GdkRefuses`, `TellLocal` and `TellPublished` send the two commands (507, 597). The
X11 thread, the writer and the applications act between them; other handlers of the
GTK thread, such as `Pause`, do not. The event stays at the head of `events` until
its handling ends, as a note does until it is announced; only its reader looks at
the head. The load of `locked` with which `publish` begins is not a step: only the
GTK thread sets it, and `Poll` has just read it.

In `Storage` an action is an SQL transaction, and `pc` says which comes next. An
insertion prunes and reindexes inside its own (`Commit`), then `maintain` follows;
a deletion, a clear and `expire` delete in one (`Delete`, `Clear`, `Expire`) and
rebuild the index in another (`RebuildIndex`); `maintain` is a loop of a deletion
(`Maintain`) and a rebuild (`Shrink`). `Fail` and `Stop` may come between any two.

In `Login` an action of the writer is a call to the Secret Service or to the file
system, after which the process may die: `Take`, `Load`, `Create`, `Open`,
`Schema`, `Ready`, and `Delete` and `Erase` for a reset. Handlers of the GTK
thread are whole (their halves are in `Engine`). A failing `Create` or `Delete`
may have had its effect: the D-Bus call has a timeout.

In `Transfer` the server's answer to a conversion is two notes, the property's and
the selection's, and the property holds what was written last. The X11 thread's
`Handle` takes one note; `Read`, `ReadTargets`, `ReadBytes` and `NextTarget` are
`read_property` and `next`, in their order of checks.

Abstractions: an item, a copy or a published content is a name; a target, a key
and a screen saver is a model value; in `Engine` a database is its set of rows and
settings are a version number; a search returns every row (filters and pages are
left out); in `Storage` an item has a size, a day and a pin, and the file after a
VACUUM is a constant and the items' sizes; in `Content` the bytes of a
representation are what `prepare` finds out about them (a secret, a web address,
broken); `eligible` and `accepts` read the gate in one go. `Status`, `Error` and
`Manager` messages only change labels and are left out, as are the `Search` and
`Restore` arms of the writer, which nothing sends (`ui.rs` 385-391).

History variables: `sealed` (the generation set by the last `lock_history`),
`readyAt` (the generation of the Unlock that opened history), `stored`,
`barrier`; in `Preservation` `accepted`, `own`, `heard`, `seen` and
`judged` (what was `seen` when a publication was let through); in `Login` `told`
(savers that have said anything); in `Transfer` `raw` (captures passed on) and
`crossed` (a conversion reached, or an answer came from, another owner than the
one whose offer was being fetched). No guard of an action of the program reads
them.

**Bounds.** `MaxEpoch` bounds the invalidations inputs cause, `MaxQueue` the
messages waiting when an input arrives, `MaxSerial` the searches, `MaxCopies` and
`MaxClaims` the changes of the selection's owner. Inputs stop at the bounds; the
threads always run on. Two or three epochs suffice for an operation started
before a lock, the lock, and an operation after it; two queued messages for one
overtaken by the other; two copies for one overtaking the other or being dropped
for it. `engine_session` has no items, for no lock depends on them; `engine_shelf`
has one, which tells a stale shelf from a current one.

- `storage`: three ids (a pinned row, an old row and a new one), contents of sizes
  2 and 3, a clock of three days that moves both ways, and limits of which one
  is roomy, one keeps a single unpinned item, and one is too small for two items,
  so that each retention rule acts and pins alone can exceed the limit.
- `transfer`: two claims are the previous and the present owner; offers have two
  targets that are fetched, one that is not, and the hint, first or last; an item
  of two bytes is filled or exceeded by two answers or two chunks. Three
  claims with one chunk were checked once as well.
- `content`: three representations are enough for a text with its link, rich text
  and files, or one kind twice; all combinations of settings.
- `login`: both screen savers, two keys (the history's and another), two changes
  outside, two requests of the user and a crash: enough to reset, crash half way
  and reset or unlock again. The two keys are symmetric, and no liveness is checked there.

Definitions whose comment begins with "Mutant of" are small faults of the
definition they name: with the fault in place, the run loses the property, which
shows that the property depends on that code.

## 3. Runs

Passing runs:

| Run | Properties | What it shows |
| --- | --- | --- |
| `engine_session` | `TypeOK`, `ReadyHasWriter`, `StaleReadyPending`, `LockCloses`, `WriterReturns` | locks, unlocks, pauses, resets, stops and keyring losses in every order, with every failure; a Lock gets through and the writer always comes back from the reader |
| `engine_shelf` | `ShelfConverges`, `ShelfHidden`, `RestoreNotAcrossLock` | whatever searches were outdated or dropped, the shelf ends with the rows of the database; late answers neither fill a locked shelf nor reach the clipboard |
| `capture` | `CTypeOK`, `ApprovedIsStored`, `InOrder`, `RawDrains`, `NoCommitAcrossBarrier`, `CommitUnderCurrentSettings` | copies racing Clear, Settings, keyring loss, pauses, failures and stops; refinement of `LossyFifo`; the decoder never waits for the writer |
| `preservation` | `TypeOK`, `OffersOnlyAccepted`, `NoRecapture`, `AnsweredOnce`, `NoRevivalPastCheck`, `SavedBeforeAnswer` | two windows and everything that may happen to them, before and between the steps of a publication |
| `storage` | `TypeOK`, `RowsIndexed`, `KeepsHistory`, `DoneMeansGone`, `CaptureRetained`, `OldestFirst`, `WithinLimits`, `CommandsEnd` | every command, interrupted anywhere; refinement of `History`: pins leave only when asked for |
| `transfer` | `TypeOK`, `WithinItem`, `HintedNeverAsked`, `FiledAsGiven` | answers whole, in chunks, late, refused or given up |
| `content` | `ForbiddenAsAWhole`, `KeptByCategory` | every item of up to three representations under all settings, against a statement that knows no order of steps |
| `login` | `TypeOK`, `LockIsKnown`, `NoSecondKey`, `ReadyIsKept`, `ErasedMeansGone`, `QuietStaysQuiet` | first runs, unlocks and resets that fail, time out or are cut short, and start again |

Runs that find what the repository's own words exclude (quoted in
`PROJECT.json`, "findings"):

| Run | Property | What happens |
| --- | --- | --- |
| `engine_retry` | `ReadyIsReadable` | a cancelled Unlock / Retry closes the reader of open history; searches and restores go unanswered |
| `preservation_exit` | `DestroyedIsPreserved` | the publication overtakes its own generation and is dropped |
| `storage_index` | `NoTombstones` | a deletion interrupted before its rebuild leaves its words in the index; if it was the newest row, the next capture is refused |
| `transfer_tag` | `TaggedWithOwner` | an answer of the previous owner is filed as the present one's |

What the passing properties leave open belongs to what they say:

- `StaleReadyPending`: between the last check of an Unlock (`engine.rs` 299) and
  its store of `key_ready` (304) a lock may run; the gate is then open until the
  writer reaches the Lock, which is always under way.
- An Unlock that a pause cancels while it waits for the keyring is not tried
  again. `README.md` 52-54 says that history opens "automatically whenever the
  desktop keyring is unlocked"; the code sends an Unlock when it starts and when the
  screen is unlocked (`ui.rs` 1135, 1166), nothing repeats one that failed or was
  cancelled (`engine.rs` 287-289), and of the keyring's signals it listens for the
  one that locks (1179-1199). The models do the same; no property demands the words.
- After a reset the closed gate keeps the erased cards on display
  (`ShelfConverges` is about an open one).
- `NoRevivalPastCheck` is about what the X11 thread knows when `poll` compares the
  generations. Between that check (`ui.rs` 593) and `set_content` (500) it may read
  of a newer owner, or of a selection cleared, and store its generation
  (`x11.rs` 243-244): the publication then goes over it all the same, and brings
  back what is known to be replaced by the time of the claim. TLC finds this in
  a trace of fourteen states when the property is stated with `seen` for `judged`. Of a change
  at the server that the X11 thread has not read yet, nobody here knows.
- `NoRecapture` is about this program's own claims: `LocalOwner` may take another
  program's window for this one's, whose copies are then not looked at.
- `ApprovedIsStored` holds although a stored copy need not be approved: it may be
  pruned by maintenance or found cancelled. A pause or lock of the GTK thread
  between `insert_if`'s final look at the gate and its commit cancels a copy that
  is committed all the same; the barriers of `NoCommitAcrossBarrier` are requests
  of the writer itself, which cannot come between.
- `CaptureRetained` is about the capture's own transaction, not the maintenance
  after it, which may prune the new row. It excludes a clock that was set back, after which the new row is
  the oldest and retention takes it at once, and a copy of the newest item that
  no longer fits beside the pins, which only a new item's insertion checks.
- `FiledAsGiven` and `HintedNeverAsked` hold until owners overlap (`crossed`). Then
  a conversion may reach the next owner before its targets were looked at, and
  answers are no longer told apart; `transfer_tag` shows the consequence.
- `LockIsKnown` speaks of the time when every probe is over and every word heard.
  Before, one saver's early "off" opens the gate while the other has not answered.

**Fairness.** Each thread is a loop that does not stop by itself: the GTK main
loop finishes a handler it began and polls every 16 ms (`UiStep`), the writer and
the decoder and the reader take what is there (`Writer`, `Decoder`, `Reader`), and
the writer goes on with the command it is at (`Step` of `Storage`). The
screen-saver probes have a timeout of one second (`ProbesDone`). Weak fairness on
each of these is all that is assumed, and on `preservation_exit`'s X11 thread and
verdict of the capture path; nothing is assumed of users, applications or the
screen saver's signals. The writer being fair in
`WKey` is the keyring's timeout of a minute (`keyring.rs` 73-75). `Storage`'s `Step`
is each transaction that ends; one that fails ends the command as well.

## 4. Proofs

Every safety property of a passing run is also a theorem, for every value of the
constants: any windows, rows, sizes, savers, targets and representations, and any
bound; `ShelfConverges` alone has a condition (`Smooth`, below). The inductive invariants were checked by TLC on the runs' instances before
they were proved. The properties that stay with TLC are the four of liveness (below).

**`EngineProofs`**

- `TypeCorrect`: one lemma per thread.
- `OpenHistoryHasWriter`, `StaleOpeningEnds`, `LockedShelfEmpty` and
  `NoRestoreAcrossLock` from the invariant `SafetyInv`. None of the properties is
  inductive alone. `ReadyHasWriter` needs `StoppedClosed` (a stopped writer has
  lowered `key_ready`). `StaleReadyPending` needs `ConfirmPending`: an Unlock
  between its last check and its store may be outdated by a lock, and then that
  Lock is already queued or about to be sent. For both, `Lock` leaves the queue
  only by `WLock`, which lowers `key_ready`.
- `AnswerIsDue`: the writer blocks on the reader's answer, so this is the hazard of
  everyone waiting. While it waits its question is in the channel of a reader that
  runs, and no Stop is before it, whatever fails. The invariant is `Dialogue`: one
  question at a time, Open only at `reader_open`, Stop only from a stopped writer, an
  answer only after its question. It is the safety half of `WriterReturns`.
- `ShelfEndsCurrent`: `ShelfConverges`, from `ShelfInv`. A search carries a number,
  of which the last counts; the proof follows that one. Either history is about to
  be closed or opened anew (`Ahead`, `InUnlock`), or something on its way will make
  the shelf current (`InSight`): a `Changed` to be polled, the last search in the
  reader's queue, or its page, which then holds what the database holds. The theorem
  assumes `Smooth`: no pause among the inputs, and no failure but the clipboard's.
  Both are needed. A pause cancels an Unlock that nothing repeats (`engine_retry`
  shows what follows), and a failed operation announces no change. The run
  `engine_shelf`, which has neither, was widened once to every other input for this.

**`CaptureProofs`**, about the whole pipeline:

- `CaptureImplementsLossyFifo`: by `OrderInv`, the copies in hand, from history
  to the X server, are strictly increasing, each stage newer than the next.
- `BarriersHold`, `SettingsHold`: by `FreshInv`, a job whose epoch is the current
  one was begun after the last barrier and judged by the present settings; what is
  about to be committed is such a job, or was until a cancellation of another
  thread, which is no barrier.
- `CaptureTypeCorrect`, `ApprovalFollowsCommit`: by `ApprovedInv`, what the writer
  approves it has committed, and the commands to the X11 thread carry nothing else.
- `SessionHoldsInPipeline`: the session core's promises survive the composition.
  The steps the pipeline adds touch `wpc`, `history` and `responses`, and none of
  them ends the writer, opens history, takes a request or asks the reader
  (`CaptureAside`).

**`PreservationProofs`**, from an invariant of five parts besides the types:

- `Origin`: what is on its way to publication was accepted. Gives
  `OfferedWasAccepted`.
- `Numbered`: claims are numbered as they happen, and the note of a claim tells this
  program's own from others'. Gives `OwnIsNeverCaptured`, and with `Handling`
  `SavedIsPublished`: who is told its content was saved has it on the clipboard since.
- `Current`: one generation has one content, the last the X11 thread heard of that is
  not this program's; only the publication of a destroyed selection is a generation
  ahead.
- `Handling`: the publication under way stays the head of its queue; until it is
  claimed its content is `judged`, which by `Current` was `seen` at the check, and
  afterwards what it saves is on the clipboard. Gives `PublishesWhatWasChecked`.
- `Once`: a SAVE_TARGETS is in one place of one queue. Gives `AnswerIsOnly`.

**`TransferProofs`**: `Inv` is `Sound`, which holds however owners overlap, and
`Apart`, which holds until they do. `HeldWithinLimit` and `TypeCorrect` need only
`Sound`. For `HintKeepsItsOffer` and `AnswersStayPaired`, `Apart` says in which of
five phases a conversion is, from its request to its answer or its last chunk, and
that the notes of it come before those of later owners: the code pairs an answer with
the target it asked for last and has nothing else to tell them apart by.

**`ContentProofs`**: `NothingForbiddenIsKept` and `KeptIsWhatIsWanted`, for items of
any number of representations in any order. The model's passes over an item are
shown to select the sets the statement speaks of. The first attempt failed on `Kind`,
where two guards of a CASE were true at once and the prover, unlike TLC, takes none
of them first; it is an IF now, in the order in which `content.rs` has the last word.

**`StorageProofs`**

- `TypeCorrect`, `StoredIsFound` and `DeletionIsComplete` from `Inv`. `RowsIndexed`
  alone is inductive for what deletes, but an insertion that keeps the old index
  needs its domains typed (`Typed`), and `DoneMeansGone` needs `Tidy`: between an
  insertion's commit and its end the index has no orphans, because the commit
  rebuilds it when it finds one and maintenance after each deletion.
- `Implements`: each step is one of `History` or a stutter. `CommitEffect` is what
  it rests on: whatever the three retention rules compute, what they delete is
  not pinned.
- `TakenIsOldest`, `CaptureIsKept`: the order of rows is total, and each rule's set
  is closed under "older" (`StaleIsOldest`, `SurplusIsOldest`); sums of sizes grow
  with the set they are over, so that the newest row, which is the last to be taken,
  fits whenever it fits beside the pins (`CommitRetains`).
- `EndsWithinLimits`: once a command has pruned, nothing is stale until it ends
  (`Fresh`), for its clock and settings stay and deleting makes no row stale; and the
  last question of an insertion comes when the file fits (`Fits`).
- `CommandsWearOut`: each step of a running command ends it or lowers `Left`, a
  natural number, and the loop of maintenance always finds its row. It is what
  `CommandsEnd` rests on besides fairness.

**`LoginProofs`**, for any number of screen savers and keys:

- `TypeCorrect`, and from `Inv`, which has three parts, `NoKeyBesideHistory`,
  `OpenHistoryIsKept`, `ResetIsComplete` and `BackgroundIsQuiet`. `Custody` follows
  key and files through the steps of the writer: a key is created only where
  none was found and no file existed when the request began, which stays true
  because the writer alone touches the files. `Told` connects them with
  `key_ready` and the last report. `Asked` connects a step with the request it
  serves.
- `LockIsTheSavers` from `Heard`: what the lock watch holds of a saver is its last
  word, unless that is still on its way; `pending` counts the probes it has not
  heard; and once none is left `locked` is what it holds.

**Induction.** The library's induction theorems take an operator as a parameter, which
the installed provers cannot use. `DataLemmas` does without: `SetInduction` and
`SubsetInduction` are about the set of the numbers, or of the subsets of a finite set,
for which a statement holds, so they are used at a set. With them it proves what
`SelectIn` (a recursive function) selects and keeps the order of, and that a
sum over a finite set exists, is the same in whichever order it is taken, and grows
with the set.

**Assumptions.** `EngineAssumption`, `CaptureAssumption`, `PreservationAssumption`,
`TransferAssumption`, `ContentAssumption`, `StorageAssumption` and `LoginAssumption`
say that the bounds are numbers, that the names for "nothing" and for this program are
not windows, requests, transfers, properties, items, jobs or keys, that the hint is
no target that is fetched, that sizes and limits are numbers, that limits of zero
items or days do not occur (`settings.rs` bounds them), and that the screen savers
are finitely many and at least one (`ui.rs` names them).

**Only model-checked**: `LockCloses`, `WriterReturns`, `RawDrains` and `CommandsEnd`,
which are liveness under fairness and out of the prover's reach, as is ENABLED. Of
`WriterReturns` and `CommandsEnd` the safety half is proved (`AnswerIsDue`,
`CommandsWearOut`). No module has a RECURSIVE operator. The four runs that
expect a violation state what is not so, and nothing is proved about them.

## 5. Not modelled, and the plan

Not modelled: the patterns for secrets and exclusions, previews, thumbnails and
digests; the search expression; settings files, widgets, paging, focus, window
placement, tray, command line, packaging. These are pure functions over strings
and images, or input and output. The write-ahead log is not modelled either:
`maintain` and `rebuild_index` truncate it (`storage.rs` 288, 298, 308, 427) and do
not look whether the reader's connection blocked that, in which case the file they
measure is not yet what the rows take. In `Storage` it is, so `WithinLimits` is about
a reader that is idle when the file is measured. The hazards no property covers have their
reason in `PROJECT.json`.

Next:

1. `Transfer` as a refinement of the one-step transfer of `Preservation`, while
   owners do not overlap; `Apart` is what the step simulation needs.
2. `Login`'s lock watch: what is true of `locked` before every probe is over.
3. `ShelfConverges` with pauses, once it is stated for the Unlock that is not
   repeated.
4. Liveness of `Preservation`: which requests of SAVE_TARGETS are answered.
