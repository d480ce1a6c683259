------------------------------- MODULE Engine -------------------------------
(***************************************************************************)
(* The session core of ClipLedge: the GTK thread's handlers that change    *)
(* the privacy gate or talk to the workers (src/ui.rs), the writer thread  *)
(* that owns the encrypted database and the reader thread that answers     *)
(* searches and restores (src/engine.rs).                                  *)
(*                                                                         *)
(* The threads share the gate and talk over unbounded channels: requests   *)
(* (GTK -> writer), reads (GTK and writer -> reader), a one-shot ack       *)
(* (reader -> writer) and responses (workers -> GTK).  A handler that      *)
(* stores several atomics is cut where another thread can tell: ui and wpc *)
(* are the two program counters, the reader's handlers are one step each.  *)
(*                                                                         *)
(* Response::Status and Error only move labels and are left out.           *)
(***************************************************************************)
EXTENDS Gate, Sequences

CONSTANTS
  Items,        \* rows the history may hold
  NoItem,       \* nothing restored yet
  X11,          \* whether the session is a native X11 session
  Inputs,       \* the kinds of input the GTK thread receives
  Failures,     \* what may fail: "keyring", "storage", "reader", "clipboard"
  MaxEpoch,     \* inputs stop once this many invalidations happened
  MaxQueue,     \* inputs stop while this many messages wait in the channels
  MaxSerial     \* inputs that refresh the shelf stop after this many

ASSUME EngineAssumption ==
  /\ X11 \in BOOLEAN
  /\ NoItem \notin Items
  /\ {MaxEpoch, MaxQueue, MaxSerial} \subseteq Nat

VARIABLES
  ui,            \* what the GTK thread still has to do in its handler
  initializing,  \* a screen-lock probe is outstanding
  serial,        \* number of the last search issued
  shelf,         \* items on display
  clip,          \* the last restore put on the clipboard, and its generation
  requests,      \* Engine.tx: GTK thread -> writer
  wpc,           \* what the writer still has to do for its request
  opening,       \* generation read by the Unlock in progress
  wdb,           \* the writer holds an open database
  settings,      \* version of the shared settings
  history,       \* rows of the database file
  reads,         \* Engine.reader: -> reader
  rdb,           \* the reader's connection
  ack,           \* the reader's answer to Open or Close
  responses,     \* Engine.rx: writer and reader -> GTK thread
  sealed,        \* history variable: generation set by the last lock_history
  readyAt        \* history variable: generation of the Unlock that set key_ready

uiVars     == <<ui, initializing, serial, shelf, clip, sealed>>
writerVars == <<wpc, opening, wdb, settings, readyAt>>
readerVars == <<rdb, ack>>
vars == <<gateVars, uiVars, requests, writerVars, history, reads, readerVars,
          responses>>

Requests == {"Unlock", "Lock", "Reset", "Settings", "Clear", "Delete", "Pin",
             "Touch", "Stop"}
Reads == [op : {"Open", "Close", "Stop"}]
           \cup [op : {"Search"}, tag : Nat]
           \cup [op : {"Restore"}, tag : Nat, item : Items]
Responses == [op : {"Items"}, tag : Nat, items : SUBSET Items]
               \cup [op : {"Restore"}, tag : Nat, item : Items]
               \cup [op : {"Changed"}]

UiSteps == {"idle", "pause", "lock_screen", "unlock_screen", "lock_history",
            "lock_epoch", "send_lock", "send_unlock", "stop_pause", "send_stop"}
WriterSteps == {"idle", "key", "open", "reader_open", "confirm", "cancelling",
                "settings", "closing", "resetting", "failing", "insert",
                "commit", "approve", "stopped"}

Init ==
  /\ paused = FALSE /\ locked = TRUE /\ key_ready = FALSE
  /\ capacity = TRUE /\ backend = X11 /\ epoch = 0
  /\ ui = "idle" /\ initializing = TRUE /\ serial = 0 /\ shelf = {}
  /\ clip = [item |-> NoItem, tag |-> 0]
  /\ requests = <<>> /\ reads = <<>> /\ responses = <<>>
  /\ wpc = "idle" /\ opening = 0 /\ wdb = FALSE /\ settings = 0
  /\ history \in SUBSET Items
  /\ rdb = "closed" /\ ack = "none"
  /\ sealed = 0 /\ readyAt = 0
-----------------------------------------------------------------------------
(***************************************************************************)
(* The GTK thread.                                                         *)
(***************************************************************************)
\* A send on a channel whose receiver is gone is lost.
Send(request) ==
  requests' = IF wpc = "stopped" THEN requests ELSE Append(requests, request)
Read(read) == reads' = IF rdb = "stopped" THEN reads ELSE Append(reads, read)

\* Bound of the runs: inputs leave the channels time to drain.
Room == Len(requests) + Len(reads) + Len(responses) < MaxQueue

\* The next event of the GTK main loop: one handler at a time, within bounds.
Handle(input) ==
  /\ ui = "idle"
  /\ input \in Inputs
  /\ epoch < MaxEpoch
  /\ Room

UiThen(next) == ui' = next /\ UNCHANGED <<initializing, serial, shelf, clip, sealed>>

NoWorker == UNCHANGED <<writerVars, history, readerVars, responses>>

\* ui.rs pause(value): the flag, then the epoch.
Pause(value) ==
  /\ Handle("Pause")
  /\ paused' = value
  /\ UiThen("pause")
  /\ UNCHANGED <<locked, key_ready, capacity, backend, epoch, requests, reads>>
  /\ NoWorker

\* ActiveChanged from a screen saver: the flag, the epoch, then lock or unlock.
ScreenSignal(active) ==
  /\ Handle("Screen")
  /\ locked' = active
  /\ UiThen(IF active THEN "lock_screen" ELSE "unlock_screen")
  /\ UNCHANGED <<paused, key_ready, capacity, backend, epoch, requests, reads>>
  /\ NoWorker

\* The second answer to GetActive; it leaves the epoch alone.
ProbesDone(active) ==
  /\ ui = "idle" /\ "Probes" \in Inputs /\ initializing
  /\ locked' = active
  /\ initializing' = FALSE
  /\ ui' = IF active THEN "lock_history" ELSE "send_unlock"
  /\ UNCHANGED <<paused, key_ready, capacity, backend, epoch, serial, shelf,
                 clip, sealed, requests, reads>>
  /\ NoWorker

\* Secret Service locked its collection or left the bus.
KeyringLost ==
  /\ Handle("Keyring")
  /\ UiThen("lock_history")
  /\ UNCHANGED <<gateVars, requests, reads>>
  /\ NoWorker

\* The epoch bump of pause and of the ActiveChanged handler.
UiInvalidate ==
  /\ \/ ui = "pause" /\ UiThen("idle")
     \/ ui = "lock_screen" /\ UiThen("lock_history")
     \/ ui = "unlock_screen" /\ UiThen("send_unlock")
  /\ invalidate
  /\ UNCHANGED <<paused, locked, key_ready, capacity, backend, requests, reads>>
  /\ NoWorker

\* lock_history: key_ready, then the epoch and the display, then the request.
LockHistory ==
  /\ ui = "lock_history"
  /\ key_ready' = FALSE
  /\ UiThen("lock_epoch")
  /\ UNCHANGED <<paused, locked, capacity, backend, epoch, requests, reads>>
  /\ NoWorker

LockEpoch ==
  /\ ui = "lock_epoch"
  /\ invalidate
  /\ sealed' = epoch'
  /\ shelf' = {}
  /\ ui' = "send_lock"
  /\ UNCHANGED <<paused, locked, key_ready, capacity, backend, initializing,
                 serial, clip, requests, reads>>
  /\ NoWorker

UiSend ==
  /\ \/ ui = "send_lock" /\ Send("Lock")
     \/ ui = "send_unlock" /\ Send("Unlock")
     \/ ui = "send_stop" /\ Send("Stop")
  /\ UiThen("idle")
  /\ UNCHANGED <<gateVars, reads>>
  /\ NoWorker

\* stop(): the epoch, then paused, then Stop for the writer.
Stop ==
  /\ Handle("Stop")
  /\ invalidate
  /\ UiThen("stop_pause")
  /\ UNCHANGED <<paused, locked, key_ready, capacity, backend, requests, reads>>
  /\ NoWorker
StopPause ==
  /\ ui = "stop_pause"
  /\ paused' = TRUE
  /\ UiThen("send_stop")
  /\ UNCHANGED <<locked, key_ready, capacity, backend, epoch, requests, reads>>
  /\ NoWorker

\* Requests a click or a key sends and nothing more; an item is needed to
\* delete or pin one.
UiRequest(request) ==
  /\ Handle(request)
  /\ request \in {"Delete", "Pin"} => shelf # {}
  /\ serial < MaxSerial
  /\ Send(request)
  /\ UNCHANGED <<gateVars, uiVars, reads>>
  /\ NoWorker

\* refresh(): a new serial outdates the answers still on their way.
search == serial' = serial + 1 /\ Read([op |-> "Search", tag |-> serial'])
Refresh ==
  /\ ui = "idle" /\ "Search" \in Inputs
  /\ serial < MaxSerial /\ Room
  /\ search
  /\ UNCHANGED <<gateVars, ui, initializing, shelf, clip, sealed, requests>>
  /\ NoWorker

\* Engine::restore: to the reader with its generation, and Touch to the writer.
Restore(item) ==
  /\ Handle("Restore")
  /\ key_ready /\ ~locked
  /\ Read([op |-> "Restore", tag |-> epoch, item |-> item])
  /\ Send("Touch")
  /\ UNCHANGED <<gateVars, uiVars>>
  /\ NoWorker

\* Mutant of ShowItems: a page is shown whatever the gate says by then.
ShowItemsLocked(r) ==
  /\ r.op = "Items"
  /\ shelf' = IF r.tag = serial THEN r.items ELSE shelf
  /\ UNCHANGED <<serial, clip, reads>>

\* poll(): show a page that is still wanted, publish a restore still allowed,
\* search again after a change.
ShowItems(r) ==
  /\ r.op = "Items"
  /\ shelf' = IF r.tag = serial /\ key_ready /\ ~locked THEN r.items ELSE shelf
  /\ UNCHANGED <<serial, clip, reads>>

\* Mutant of PublishRestore: the generation is not compared again.
PublishAnyRestore(r) ==
  /\ r.op = "Restore"
  /\ clip' = IF key_ready /\ ~locked THEN [item |-> r.item, tag |-> r.tag] ELSE clip
  /\ UNCHANGED <<serial, shelf, reads>>

PublishRestore(r) ==
  /\ r.op = "Restore"
  /\ LET allowed == r.tag = epoch /\ key_ready /\ ~locked
         new == [item |-> r.item, tag |-> r.tag]
     IN  clip' \in (IF allowed THEN {new} ELSE {clip})
                     \cup (IF "clipboard" \in Failures THEN {clip} ELSE {})
  /\ UNCHANGED <<serial, shelf, reads>>
FollowChange(r) ==
  /\ r.op = "Changed"
  /\ search
  /\ UNCHANGED <<shelf, clip>>
Poll ==
  /\ ui = "idle" /\ responses # <<>>
  /\ responses' = Tail(responses)
  /\ LET r == Head(responses)
     IN  ShowItems(r) \/ PublishRestore(r) \/ FollowChange(r)
  /\ UNCHANGED <<gateVars, ui, initializing, sealed, requests, writerVars,
                 history, readerVars>>

\* poll(): the X11 thread reported an error and is gone.
BackendFails ==
  /\ ui = "idle" /\ "Backend" \in Inputs /\ backend
  /\ backend' = FALSE
  /\ UNCHANGED <<paused, locked, key_ready, capacity, epoch, uiVars, requests,
                 reads>>
  /\ NoWorker

\* A handler that began runs on, and responses are polled every 16 ms.
UiStep == UiInvalidate \/ LockHistory \/ LockEpoch \/ UiSend \/ StopPause \/ Poll
UiInput ==
  \/ \E b \in BOOLEAN : Pause(b) \/ ScreenSignal(b) \/ ProbesDone(b)
  \/ KeyringLost \/ Stop \/ BackendFails \/ Refresh
  \/ \E r \in {"Unlock", "Reset", "Settings", "Clear", "Delete", "Pin"} :
       UiRequest(r)
  \/ \E i \in shelf : Restore(i)
-----------------------------------------------------------------------------
(***************************************************************************)
(* The writer thread.                                                      *)
(***************************************************************************)
Take(request) ==
  /\ wpc = "idle" /\ requests # <<>> /\ Head(requests) = request
  /\ requests' = Tail(requests)

\* How a call of the database may end: well, or with a storage-* error.  Other
\* errors end a request without any effect on the gate.
DatabaseEnds == {"idle"} \cup (IF "storage" \in Failures THEN {"failing"} ELSE {})
MayFail(what) == what \in Failures

Answer(response) == responses' = Append(responses, response)
Changed == Answer([op |-> "Changed"])

\* The check an Unlock repeats after each wait.
cancelled == locked \/ epoch # opening

\* Ask the reader and wait for its answer.
Ask(op) == reads' = Append(reads, [op |-> op]) /\ ack' = "none" /\ UNCHANGED rdb

WStop ==
  /\ Take("Stop")
  /\ key_ready' = FALSE /\ wdb' = FALSE
  /\ reads' = Append(reads, [op |-> "Stop"])
  /\ wpc' = "stopped"
  /\ UNCHANGED <<paused, locked, capacity, backend, epoch, uiVars, opening,
                 settings, readyAt, history, readerVars, responses>>

\* Mutant of WLock: key_ready is left to lock_history, which cleared it before.
WLockTrustsUi ==
  /\ \/ Take("Lock") /\ wpc' = "closing"
     \/ Take("Reset") /\ wpc' = "resetting"
  /\ invalidate
  /\ wdb' = FALSE
  /\ Ask("Close")
  /\ UNCHANGED <<paused, locked, key_ready, capacity, backend, uiVars, opening,
                 settings, readyAt, history, responses>>

\* Lock and Reset close both connections before they go on.
WLock ==
  /\ \/ Take("Lock") /\ wpc' = "closing"
     \/ Take("Reset") /\ wpc' = "resetting"
  /\ key_ready' = FALSE
  /\ invalidate
  /\ wdb' = FALSE
  /\ Ask("Close")
  /\ UNCHANGED <<paused, locked, capacity, backend, uiVars, opening, settings,
                 readyAt, history, responses>>

\* close_reader returned: Lock and a cancelled Unlock end, Reset erases.
WClosed ==
  /\ wpc \in {"closing", "resetting", "cancelling"} /\ ack = "ok"
  /\ ack' = "none"
  /\ wpc' = "idle"
  /\ \/ wpc = "closing" /\ Changed /\ UNCHANGED history
     \/ wpc = "resetting" /\ Changed /\ history' = {}
     \/ /\ wpc = "resetting" /\ MayFail("keyring")
        /\ history' \in {history, {}}
        /\ UNCHANGED responses
     \/ wpc = "cancelling" /\ UNCHANGED <<history, responses>>
  /\ UNCHANGED <<gateVars, uiVars, requests, opening, wdb, settings, readyAt,
                 reads, rdb>>

WUnlock ==
  /\ Take("Unlock")
  /\ IF locked THEN wpc' = "idle" /\ opening' = opening
               ELSE wpc' = "key"  /\ opening' = epoch
  /\ UNCHANGED <<gateVars, uiVars, wdb, settings, readyAt, history, reads,
                 readerVars, responses>>

\* The keyring answered, perhaps a minute later.
WKey ==
  /\ wpc = "key"
  /\ \/ wpc' = (IF cancelled THEN "idle" ELSE "open")
     \/ MayFail("keyring") /\ wpc' = "idle"
  /\ UNCHANGED <<gateVars, uiVars, requests, opening, wdb, settings, readyAt,
                 history, reads, readerVars, responses>>

\* Storage::open, expire and count, then the reader's own connection.
WOpen ==
  /\ wpc = "open"
  /\ history' \in SUBSET history
  /\ \/ wpc' = "reader_open" /\ Ask("Open")
     \/ MayFail("storage") /\ wpc' \in {"failing", "idle"} /\ UNCHANGED <<reads, readerVars>>
  /\ UNCHANGED <<gateVars, uiVars, requests, opening, wdb, settings, readyAt,
                 responses>>

WCheck ==
  /\ wpc = "reader_open" /\ ack # "none"
  /\ IF ack = "ok" /\ cancelled
       THEN Ask("Close") /\ wpc' = "cancelling"
       ELSE /\ wpc' = IF ack = "failed" THEN "failing" ELSE "confirm"
            /\ ack' = "none"
            /\ UNCHANGED <<reads, rdb>>
  /\ UNCHANGED <<gateVars, uiVars, requests, opening, wdb, settings, readyAt,
                 history, responses>>

WReady ==
  /\ wpc = "confirm"
  /\ wdb' = TRUE /\ key_ready' = TRUE /\ capacity' = TRUE
  /\ readyAt' = opening
  /\ wpc' = "idle"
  /\ Changed
  /\ UNCHANGED <<paused, locked, backend, epoch, uiVars, requests, opening,
                 settings, history, reads, readerVars>>

\* The new settings are visible to the decoder before the epoch moves.
WSettings ==
  /\ Take("Settings")
  /\ settings' = settings + 1
  /\ wpc' = "settings"
  /\ UNCHANGED <<gateVars, uiVars, opening, wdb, readyAt, history, reads,
                 readerVars, responses>>
WApplySettings ==
  /\ wpc = "settings"
  /\ invalidate
  /\ capacity' = TRUE
  /\ IF wdb THEN history' \in SUBSET history /\ wpc' \in DatabaseEnds
            ELSE history' = history /\ wpc' = "idle"
  /\ \/ wpc' = "idle" /\ Changed
     \/ wdb /\ MayFail("storage") /\ UNCHANGED responses
  /\ UNCHANGED <<paused, locked, key_ready, backend, uiVars, requests, opening,
                 wdb, settings, readyAt, reads, readerVars>>

\* Touch is dropped, Pin refused, when no database is open.
WMark ==
  /\ Take("Touch") \/ Take("Pin")
  /\ wpc' \in (IF wdb THEN DatabaseEnds ELSE {"idle"})
  /\ IF wdb /\ wpc' = "idle" /\ Head(requests) = "Pin"
       THEN Changed
       ELSE UNCHANGED responses
  /\ UNCHANGED <<gateVars, uiVars, opening, wdb, settings, readyAt, history,
                 reads, readerVars>>

\* Mutant of DatabaseAnswers: the deletion is not announced.
DatabaseAnswersQuietly ==
  /\ capacity' = (capacity \/ (wdb /\ wpc' = "idle"))
  /\ UNCHANGED responses

\* A deletion that worked lets capture go on and is announced.
DatabaseAnswers ==
  IF wdb /\ wpc' = "idle" THEN capacity' = TRUE /\ Changed
                         ELSE UNCHANGED <<capacity, responses>>

Refused == wpc' = "idle" /\ UNCHANGED <<history, capacity, responses>>

\* Rows go first, the index is rebuilt after: a failure may follow either.  A
\* pinned item asks for confirmation.
WDelete ==
  /\ Take("Delete")
  /\ \/ /\ wpc' \in (IF wdb THEN DatabaseEnds ELSE {"idle"})
        /\ IF wdb THEN \E i \in Items : history' = history \ {i}
                  ELSE UNCHANGED history
        /\ DatabaseAnswers
     \/ Refused
  /\ UNCHANGED <<paused, locked, key_ready, backend, epoch, uiVars, opening, wdb,
                 settings, readyAt, reads, readerVars>>

WClear ==
  /\ Take("Clear")
  /\ invalidate
  /\ \/ /\ wpc' \in (IF wdb THEN DatabaseEnds ELSE {"idle"})
        /\ IF wdb THEN history' \in SUBSET history ELSE UNCHANGED history
        /\ DatabaseAnswers
     \/ MayFail("storage") /\ Refused
  /\ UNCHANGED <<paused, locked, key_ready, backend, uiVars, opening, wdb,
                 settings, readyAt, reads, readerVars>>

\* A storage-* error stops capture until a later success.
WFails ==
  /\ wpc = "failing"
  /\ capacity' = FALSE
  /\ invalidate
  /\ wpc' = "idle"
  /\ UNCHANGED <<paused, locked, key_ready, backend, uiVars, requests, opening,
                 wdb, settings, readyAt, history, reads, readerVars, responses>>

Writer ==
  \/ WStop \/ WLock \/ WClosed \/ WUnlock \/ WKey \/ WOpen \/ WCheck \/ WReady
  \/ WSettings \/ WApplySettings \/ WMark \/ WDelete \/ WClear \/ WFails
-----------------------------------------------------------------------------
(***************************************************************************)
(* The reader thread: one step for each request.                           *)
(***************************************************************************)
NextRead(op) == rdb # "stopped" /\ reads # <<>> /\ Head(reads).op = op

\* Mutant of ROpen: an error returns early, before the answer.
ROpenSilent ==
  /\ NextRead("Open")
  /\ \/ rdb' = "open" /\ ack' = "ok"
     \/ MayFail("reader") /\ UNCHANGED readerVars
  /\ UNCHANGED responses

ROpen ==
  /\ NextRead("Open")
  /\ \/ rdb' = "open" /\ ack' = "ok"
     \/ MayFail("reader") /\ rdb' = rdb /\ ack' = "failed"
  /\ UNCHANGED responses

\* Mutant of RClose: the connection is kept for later.
RCloseKeepsReader ==
  /\ NextRead("Close")
  /\ ack' = "ok"
  /\ UNCHANGED <<rdb, responses>>

RClose ==
  /\ NextRead("Close")
  /\ rdb' = "closed" /\ ack' = "ok"
  /\ UNCHANGED responses
RStop ==
  /\ NextRead("Stop")
  /\ rdb' = "stopped"
  /\ UNCHANGED <<ack, responses>>

\* A closed gate answers with an empty page, a missing connection not at all.
RSearch ==
  /\ NextRead("Search")
  /\ LET page(items) == [op |-> "Items", tag |-> Head(reads).tag, items |-> items]
     IN  IF ~key_ready \/ locked THEN Answer(page({}))
         ELSE IF rdb = "open" THEN Answer(page(history))
         ELSE UNCHANGED responses
  /\ UNCHANGED readerVars
RRestore ==
  /\ NextRead("Restore")
  /\ LET r == Head(reads)
     IN  IF /\ key_ready /\ epoch = r.tag /\ ~locked
            /\ rdb = "open" /\ r.item \in history
           THEN Answer(r)
           ELSE UNCHANGED responses
  /\ UNCHANGED readerVars

Reader ==
  /\ ROpen \/ RClose \/ RStop \/ RSearch \/ RRestore
  /\ reads' = Tail(reads)
  /\ UNCHANGED <<gateVars, uiVars, requests, writerVars, history>>
-----------------------------------------------------------------------------
\* Nothing is left to do: the threads wait for input.
AtRestState ==
  /\ ui = "idle" /\ responses = <<>>
  /\ wpc = "stopped" \/ (wpc = "idle" /\ requests = <<>>)
  /\ rdb = "stopped" \/ reads = <<>>
AtRest == AtRestState /\ UNCHANGED vars

Next == UiInput \/ UiStep \/ Writer \/ Reader \/ AtRest

\* Each thread keeps running; the probes have a timeout of one second.
Fairness ==
  /\ WF_vars(UiStep)
  /\ WF_vars(\E b \in BOOLEAN : ProbesDone(b))
  /\ WF_vars(Writer)
  /\ WF_vars(Reader)

Spec == Init /\ [][Next]_vars
FairSpec == Spec /\ Fairness
-----------------------------------------------------------------------------
(***************************************************************************)
(* What the session core promises.                                         *)
(***************************************************************************)
\* Every variable keeps its type, and lock_history's generation is one the
\* epoch really reached.
TypeOK ==
  /\ GateTypeOK
  /\ ui \in UiSteps /\ initializing \in BOOLEAN
  /\ serial \in Nat /\ shelf \subseteq Items
  /\ clip \in [item : Items \cup {NoItem}, tag : Nat]
  /\ requests \in Seq(Requests) /\ reads \in Seq(Reads)
  /\ responses \in Seq(Responses)
  /\ wpc \in WriterSteps /\ opening \in Nat
  /\ wdb \in BOOLEAN /\ settings \in Nat
  /\ history \subseteq Items
  /\ rdb \in {"closed", "open", "stopped"} /\ ack \in {"none", "ok", "failed"}
  /\ sealed \in Nat /\ readyAt \in Nat /\ sealed <= epoch

\* While the gate says that history is open the writer holds a database: a
\* capture or a Pin that passes the gate finds one (engine.rs 303-305, 382).
ReadyHasWriter == key_ready => wdb

LockPending ==
  ui = "send_lock" \/ \E i \in DOMAIN requests : requests[i] = "Lock"

\* An Unlock older than the last lock_history may raise key_ready again (it
\* checks, then stores), but then the Lock that undoes it is already on its way
\* to the writer: a stale opening never outlives the queue (engine.rs 299-304,
\* ui.rs 1223-1238).
StaleReadyPending == key_ready /\ readyAt < sealed => LockPending

\* Once the handler that locked the session is through, no item is on display
\* for as long as the session stays locked, whatever answers are still on their
\* way (ui.rs 541-553, 1223-1238).
ShelfHidden ==
  locked /\ ui \notin {"lock_screen", "lock_history", "lock_epoch"} => shelf = {}

\* Content asked for before a lock is not put on the clipboard after it, even
\* when history has been opened again meanwhile, and never while locked
\* (ui.rs 571-574, 478; engine.rs 146-149, 201-203).
RestoreNotAcrossLock ==
  [][clip' # clip => ~locked /\ clip'.tag >= sealed]_vars

\* When every queue is drained and history is open, the shelf shows what the
\* database holds, whichever searches were outdated, answered while the gate was
\* closed, or dropped on the way (ui.rs 397-406, 541-554; engine.rs 171-199).
\* Without failures: a failed operation announces no change.
ShelfConverges ==
  AtRestState /\ key_ready /\ ~locked => shelf = history

\* A Lock that reached the writer closes both connections: the writer is never
\* kept from it by the reader or by an Unlock (engine.rs 220-225, 249-254).
LockCloses ==
  (\E i \in DOMAIN requests : requests[i] = "Lock") ~> (~wdb /\ rdb # "open")

\* The writer waits for the reader's ack inside a request; it always gets it
\* and comes back for the next request (engine.rs 220-225, 294-298).
WriterReturns == wpc # "idle" ~> wpc \in {"idle", "stopped"}

\* engine.rs 144: a restore goes through the independent reader, even while the
\* writer works.  A cancelled Unlock / Retry closes the reader of a history that
\* stays open for the gate and for the writer.
ReadyIsReadable == wpc = "idle" /\ key_ready => rdb # "closed"
=============================================================================
