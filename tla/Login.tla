-------------------------------- MODULE Login -------------------------------
(***************************************************************************)
(* How ClipLedge comes to a history it may open: the lock state of two      *)
(* screen savers (watch_lock, src/ui.rs), the key in the Secret Service    *)
(* (src/keyring.rs), the files of the history, and the writer's Unlock and *)
(* Reset (src/engine.rs), over crashes at any point.                       *)
(*                                                                         *)
(* The requests and the interleavings of one session are in Engine, which  *)
(* takes the keyring and the files as something that answers or fails.     *)
(* Here a handler of the GTK thread is one step.                           *)
(***************************************************************************)
EXTENDS Gate, Sequences, FiniteSets

CONSTANTS
  Savers,       \* screen-saver services
  Keys,         \* encryption keys
  NoKey,        \* no database, or no key in hand
  MaxChanges,   \* changes of a screen saver or of the keyring
  MaxAsks,      \* requests of the user
  MaxCrashes

ASSUME LoginAssumption ==
  /\ IsFiniteSet(Savers) /\ Savers # {} /\ "keyring" \notin Savers
  /\ NoKey \notin Keys /\ "new" \notin Keys /\ NoKey # "new"
  /\ MaxChanges \in Nat /\ MaxAsks \in Nat /\ MaxCrashes \in Nat

VARIABLES
  active,      \* whether each screen saver is on
  probed,      \* savers whose GetActive call is under way
  told,        \* history variable: savers that have said anything to this process
  mail,        \* what each service has sent to the GTK thread
  states,      \* watch_lock: what each saver last said
  pending,     \* watch_lock: probes not yet over
  requests,    \* GTK thread -> writer
  wpc,         \* what the writer does
  job,         \* the request it is at
  status,      \* what it reported last
  ring,        \* Secret Service: ClipLedge's keys
  ringLocked,  \* whether their collection is locked
  db,          \* history.db: no file, a new one, or one encrypted with a key
  wal,         \* whether history.db-wal (or -shm) exists
  bounds       \* changes, requests and crashes so far

outside == <<active, probed, told, mail>>
watch   == <<states, pending>>
writer  == <<requests, wpc, job, status>>
durable == <<ring, ringLocked, db, wal>>
vars == <<gateVars, outside, watch, writer, durable, bounds>>

Quiet == "quiet"  \* Request::Unlock(false)
Ask   == "ask"    \* Request::Unlock(true)

Idle == [op |-> "none", epoch |-> 0, existing |-> FALSE, key |-> NoKey, prompted |-> FALSE]
Job(op, e, ex) == [op |-> op, epoch |-> e, existing |-> ex, key |-> NoKey, prompted |-> FALSE]

Services == Savers \cup {"keyring"}
Notes    == [op : {"signal", "reply", "gone"}, says : {"on", "off", "nothing"}]
Requests == {Quiet, Ask, "Lock", "Reset"}
Jobs     == [op : {"none", Quiet, Ask, "Reset"}, epoch : Nat, existing : BOOLEAN,
             key : Keys \cup {NoKey}, prompted : BOOLEAN]
Counts   == [changes : Nat, asks : Nat, crashes : Nat]

TypeOK ==
  /\ GateTypeOK
  /\ active \in [Savers -> BOOLEAN]
  /\ probed \subseteq Savers /\ told \subseteq Savers
  /\ mail \in [Services -> Seq(Notes)]
  /\ states \in [Savers -> BOOLEAN] /\ pending \in Nat
  /\ requests \in Seq(Requests)
  /\ wpc \in {"idle", "load", "create", "open", "schema", "ready", "delete", "erase"}
  /\ job \in Jobs
  /\ status \in {"none", "ready", "locked", "reset", "error"}
  /\ ring \subseteq Keys /\ ringLocked \in BOOLEAN
  /\ db \in Keys \cup {NoKey, "new"} /\ wal \in BOOLEAN
  /\ bounds \in Counts

\* The first start, or a later one.
Init ==
  /\ paused = FALSE /\ locked = TRUE /\ key_ready = FALSE
  /\ capacity = TRUE /\ backend = TRUE /\ epoch = 0
  /\ active \in [Savers -> BOOLEAN] /\ probed = Savers /\ told = {}
  /\ mail = [s \in Services |-> << >>]
  /\ states = [s \in Savers |-> FALSE] /\ pending = Cardinality(Savers)
  /\ requests = << >> /\ wpc = "idle" /\ job = Idle /\ status = "none"
  /\ ringLocked \in BOOLEAN
  /\ \/ ring = {} /\ db = NoKey /\ wal = FALSE
     \/ \E k \in Keys : ring = {k} /\ db = k /\ wal = TRUE
  /\ bounds = [changes |-> 0, asks |-> 0, crashes |-> 0]
-----------------------------------------------------------------------------
(***************************************************************************)
(* Screen savers and the Secret Service.                                   *)
(***************************************************************************)
Send(s, m) == mail' = [mail EXCEPT ![s] = Append(@, m)]
Word(on)   == IF on THEN "on" ELSE "off"
Change     == bounds.changes < MaxChanges /\ bounds' = [bounds EXCEPT !.changes = @ + 1]

\* A saver goes on or off and says so.
Activate(s) ==
  /\ Change
  /\ active' = [active EXCEPT ![s] = ~@]
  /\ Send(s, [op |-> "signal", says |-> Word(~active[s])])
  /\ told' = told \cup {s}
  /\ UNCHANGED <<gateVars, probed, watch, writer, durable>>

\* It answers GetActive, or does not exist, or takes more than a second.
Reply(s) ==
  /\ s \in probed /\ probed' = probed \ {s}
  /\ \/ /\ Send(s, [op |-> "reply", says |-> Word(active[s])])
        /\ told' = told \cup {s}
     \/ /\ Send(s, [op |-> "reply", says |-> "nothing"])
        /\ UNCHANGED told
  /\ UNCHANGED <<gateVars, active, watch, writer, durable, bounds>>

\* The collection is locked, or the service goes away; or it is unlocked again.
KeyringLocks ==
  /\ Change /\ ~ringLocked /\ ringLocked' = TRUE
  /\ Send("keyring", [op |-> "gone", says |-> "nothing"])
  /\ UNCHANGED <<gateVars, active, probed, told, watch, writer, ring, db, wal>>
KeyringUnlocks ==
  /\ Change /\ ringLocked /\ ringLocked' = FALSE
  /\ UNCHANGED <<gateVars, outside, watch, writer, ring, db, wal>>
-----------------------------------------------------------------------------
(***************************************************************************)
(* The GTK thread.                                                         *)
(***************************************************************************)
Put(r) == requests' = Append(requests, r)

\* Mutant of AnyLocked: the last word counts, whoever said it.
LastWord(s, st) == st[s]

\* Whether any saver is on, after a word of s.
AnyLocked(s, st) == \E x \in DOMAIN st : st[x]

\* lock_history, and n invalidations of its caller.
LockHistory(n) ==
  /\ key_ready' = FALSE /\ epoch' = epoch + n + 1
  /\ Put("Lock")

\* ActiveChanged.
OnSignal(s, m) ==
  /\ states' = [states EXCEPT ![s] = m.says = "on"]
  /\ locked' = AnyLocked(s, states')
  /\ IF locked' THEN LockHistory(1)
     ELSE epoch' = epoch + 1 /\ Put(Quiet) /\ UNCHANGED key_ready
  /\ UNCHANGED pending

\* A probe is over; the last one decides.
OnReply(s, m) ==
  /\ states' = IF m.says = "nothing" THEN states ELSE [states EXCEPT ![s] = m.says = "on"]
  /\ pending' = IF pending = 0 THEN 0 ELSE pending - 1
  /\ IF pending' = 0
     THEN /\ locked' = AnyLocked(s, states')
          /\ IF locked' THEN LockHistory(0) ELSE Put(Quiet) /\ UNCHANGED <<key_ready, epoch>>
     ELSE UNCHANGED <<locked, key_ready, epoch, requests>>

Hear(s) ==
  /\ mail[s] # << >>
  /\ mail' = [mail EXCEPT ![s] = Tail(@)]
  /\ LET m == Head(mail[s])
     IN  \/ m.op = "signal" /\ OnSignal(s, m)
         \/ m.op = "reply" /\ OnReply(s, m)
         \/ m.op = "gone" /\ LockHistory(0) /\ UNCHANGED <<locked, watch>>
  /\ UNCHANGED <<paused, capacity, backend, active, probed, told, wpc, job, status, durable, bounds>>

\* The user asks to unlock, or to reset.
UserAsks(r) ==
  /\ bounds.asks < MaxAsks /\ bounds' = [bounds EXCEPT !.asks = @ + 1]
  /\ Put(r)
  /\ UNCHANGED <<gateVars, outside, watch, wpc, job, status, durable>>
-----------------------------------------------------------------------------
(***************************************************************************)
(* The writer.                                                             *)
(***************************************************************************)
WriterOnly == UNCHANGED <<paused, locked, capacity, backend, outside, watch, bounds>>
SameGate   == UNCHANGED <<key_ready, epoch>>

\* The request ends.
End(what) ==
  /\ wpc' = "idle" /\ job' = Idle /\ status' = what /\ UNCHANGED requests

\* Mutant of CloseHistory: the gate still says that history is open.
CloseQuietly == invalidate /\ UNCHANGED key_ready

\* What Lock and Reset begin with; the connections close too.
CloseHistory == key_ready' = FALSE /\ invalidate

Go(pc, j) == wpc' = pc /\ job' = j /\ UNCHANGED <<requests, status>>

Take ==
  /\ wpc = "idle" /\ requests # << >>
  /\ requests' = Tail(requests)
  /\ LET r == Head(requests)
     IN  \/ /\ r = "Lock"
            /\ CloseHistory /\ status' = "locked"
            /\ UNCHANGED <<wpc, job>>
         \/ /\ r = "Reset"
            /\ CloseHistory
            /\ wpc' = "delete" /\ job' = Job("Reset", 0, FALSE)
            /\ UNCHANGED status
         \/ /\ r \in {Quiet, Ask} /\ locked
            /\ status' = "error" /\ UNCHANGED <<key_ready, epoch, wpc, job>>
         \/ /\ r \in {Quiet, Ask} /\ ~locked
            /\ wpc' = "load" /\ job' = Job(r, epoch, db # NoKey)
            /\ UNCHANGED <<key_ready, epoch, status>>
  /\ UNCHANGED durable
  /\ WriterOnly

\* Mutant of MayPrompt: a prompt is always in order.
PromptAlways(op) == TRUE

MayPrompt(op) == op # Quiet

\* unlock (keyring.rs): a locked collection is unlocked by a prompt, which the user may
\* dismiss, and only for a request that may show one.
Unlocked(prompted) ==
  IF ringLocked THEN prompted /\ MayPrompt(job.op) /\ ringLocked' = FALSE
                ELSE ~prompted /\ UNCHANGED ringLocked

\* Mutant of Creatable: a missing key is made up for.
CreatableAnyway == job.op = Ask

\* A key is created for the user's first history only.
Creatable == ~job.existing /\ job.op = Ask

\* load: the one key is found, and read; or there is none, and one may be created.
\* Any call may fail, and a second key is refused.
Load ==
  /\ wpc = "load"
  /\ \/ End("error") /\ (UNCHANGED ringLocked \/ Unlocked(TRUE))
     \/ \E k \in Keys, p \in BOOLEAN :
          /\ ring = {k} /\ Unlocked(p)
          /\ Go("open", [job EXCEPT !.key = k, !.prompted = p])
     \/ \E p \in BOOLEAN :
          /\ ring = {} /\ Creatable /\ Unlocked(p)
          /\ Go("create", [job EXCEPT !.prompted = p])
  /\ UNCHANGED <<ring, db, wal>>
  /\ SameGate /\ WriterOnly

\* CreateItem and the readback.  A call that timed out may have created the key.
Create ==
  /\ wpc = "create"
  /\ \E k \in Keys \ ring :
       \/ End("error") /\ UNCHANGED ring
       \/ End("error") /\ ring' = ring \cup {k}
       \/ Go("open", [job EXCEPT !.key = k]) /\ ring' = ring \cup {k}
  /\ UNCHANGED <<ringLocked, db, wal>>
  /\ SameGate /\ WriterOnly

Outdated == locked \/ epoch # job.epoch

\* Storage::open creates the file, unless the request is outdated or open fails...
Open ==
  /\ wpc = "open"
  /\ \/ End("error") /\ UNCHANGED db
     \/ ~Outdated /\ Go("schema", job) /\ db' = IF db = NoKey THEN "new" ELSE db
  /\ UNCHANGED <<ring, ringLocked, wal>>
  /\ SameGate /\ WriterOnly

\* ... and writes its first pages, or checks that the key is the file's.  SQLite drops
\* what it finds of a log next to a new file.
Schema ==
  /\ wpc = "schema"
  /\ \/ End("error") /\ UNCHANGED <<db, wal>>
     \/ /\ db \in {"new", job.key}
        /\ db' = job.key /\ wal' = TRUE
        /\ Go("ready", job)
  /\ UNCHANGED <<ring, ringLocked>>
  /\ SameGate /\ WriterOnly

\* Retention has run and the reader is open too, or one of them failed: the last look
\* at the gate.
Ready ==
  /\ wpc = "ready"
  /\ \/ End("error") /\ UNCHANGED key_ready
     \/ ~Outdated /\ End("ready") /\ key_ready' = TRUE
  /\ UNCHANGED <<epoch, durable>>
  /\ WriterOnly

\* delete_key: every key is deleted; a call that fails may have deleted its key.
Delete ==
  /\ wpc = "delete"
  /\ \/ End("error") /\ UNCHANGED ring /\ (UNCHANGED ringLocked \/ Unlocked(TRUE))
     \/ /\ ring # {} /\ \E p \in BOOLEAN : Unlocked(p)
        /\ \E k \in ring :
             /\ ring' = ring \ {k}
             /\ End("error") \/ Go("delete", job)
     \/ ring = {} /\ Go("erase", job) /\ UNCHANGED <<ring, ringLocked>>
  /\ UNCHANGED <<db, wal>>
  /\ SameGate /\ WriterOnly

\* Mutant of AllErased: a missing database is taken for the end.
DatabaseErased == db = NoKey

AllErased == db = NoKey /\ ~wal

\* The files, the database first.
Erase ==
  /\ wpc = "erase"
  /\ \/ AllErased /\ End("reset") /\ UNCHANGED <<db, wal>>
     \/ ~AllErased /\ End("error") /\ UNCHANGED <<db, wal>>
     \/ db # NoKey /\ db' = NoKey /\ Go("erase", job) /\ UNCHANGED wal
     \/ db = NoKey /\ wal /\ wal' = FALSE /\ Go("erase", job) /\ UNCHANGED db
  /\ UNCHANGED <<ring, ringLocked>>
  /\ SameGate /\ WriterOnly

Writer == Take \/ Load \/ Create \/ Open \/ Schema \/ Ready \/ Delete \/ Erase

\* The program dies and is started again.
Crash ==
  /\ bounds.crashes < MaxCrashes /\ bounds' = [bounds EXCEPT !.crashes = @ + 1]
  /\ paused' = FALSE /\ locked' = TRUE /\ key_ready' = FALSE
  /\ capacity' = TRUE /\ backend' = TRUE /\ epoch' = 0
  /\ probed' = Savers /\ told' = {}
  /\ mail' = [s \in Services |-> << >>]
  /\ states' = [s \in Savers |-> FALSE] /\ pending' = Cardinality(Savers)
  /\ requests' = << >> /\ wpc' = "idle" /\ job' = Idle /\ status' = "none"
  /\ UNCHANGED <<active, durable>>

Next ==
  \/ \E s \in Savers : Activate(s) \/ Reply(s)
  \/ KeyringLocks \/ KeyringUnlocks
  \/ \E s \in Services : Hear(s)
  \/ \E r \in {Ask, "Reset"} : UserAsks(r)
  \/ Writer
  \/ Crash

Spec == Init /\ [][Next]_vars
-----------------------------------------------------------------------------
(***************************************************************************)
(* Properties.                                                             *)
(***************************************************************************)
\* Once every probe is over and every word is heard, the gate is locked exactly if some
\* saver is on, whichever spoke last; one whose probe failed counts as off until it
\* speaks (ui.rs:1126-1169).
LockIsKnown ==
  (pending = 0 /\ \A s \in DOMAIN mail : mail[s] = << >>) =>
     (locked <=> \E s \in Savers : active[s] /\ s \in told)

\* A key other than the history's never appears while the history exists, although
\* resets and creations may stop or fail half way (keyring.rs:131-137, privacy.md:6-7).
NoSecondKey ==
  /\ \A a, b \in ring : a = b
  /\ db \in Keys => ring \subseteq {db}

\* History that may be captured to or read can be opened again: its key is in the
\* keyring (privacy.md:4-6).
ReadyIsKept == key_ready => db \in Keys /\ db \in ring

\* A reset that is reported leaves neither key nor file, whatever an earlier one
\* that failed or was cut short had left (engine.rs:255-268).
ErasedMeansGone == status = "reset" /\ wpc = "idle" => ring = {} /\ db = NoKey /\ ~wal

\* An Unlock that the user did not ask for shows no prompt and creates no key
\* (keyring.rs:90).
QuietStaysQuiet ==
  [][wpc # "idle" /\ job.op = Quiet => ring' = ring /\ ~job'.prompted]_vars
=============================================================================
