------------------------------ MODULE Capture -------------------------------
(***************************************************************************)
(* The capture pipeline of ClipLedge, on top of its session core: the X11  *)
(* thread fetches what the new selection owner offers                      *)
(* (src/clipboard/x11.rs), one decoder prepares it (src/engine.rs          *)
(* 100-117), and the writer commits it between two requests and returns it *)
(* to the X11 thread as approved (src/engine.rs 380-407, src/storage.rs    *)
(* 171-275).                                                               *)
(*                                                                         *)
(* Both queues are sync_channel(1) written with try_send: a slot that is   *)
(* full loses what comes next.  A copy is named by the ownership           *)
(* generation that announced it; its content plays no part.                *)
(***************************************************************************)
EXTENDS Engine, FiniteSets

CONSTANTS
  NoJob,     \* an empty slot
  StopX11,   \* Command::Stop
  MaxCopies  \* changes of the selection owner

ASSUME CaptureAssumption ==
  /\ MaxCopies \in Nat
  /\ NoJob \notin [copy : Nat, epoch : Nat]
  /\ NoJob \notin [copy : Nat, epoch : Nat, cfg : Nat]

VARIABLES
  copies,     \* Backend.generation: changes of the selection owner so far
  xpc,        \* what the X11 thread is doing
  transfer,   \* Backend.transfer: the offer being fetched
  approved,   \* Backend.approved: the copy that may be preserved
  raw,        \* slot X11 thread -> decoder
  decoding,   \* the decoder's job, with the settings version it read
  prepared,   \* slot decoder -> writer
  inserting,  \* the writer's job
  commands,   \* clip_tx: -> X11 thread
  stored,     \* history variable: copies committed to history
  barrier     \* history variable: last copy begun when the writer last handled
              \* Clear, Lock, Reset, Settings or a storage error

x11Vars     == <<copies, xpc, transfer, approved>>
captureVars == <<x11Vars, raw, decoding, prepared, inserting, commands, stored,
                 barrier>>
allVars == <<vars, captureVars>>

RawJobs == [copy : Nat, epoch : Nat]
Jobs    == [copy : Nat, epoch : Nat, cfg : Nat]

CInit ==
  /\ Init
  /\ copies = 0
  /\ xpc = IF X11 THEN "idle" ELSE "dead"
  /\ transfer = NoJob /\ approved = NoJob /\ raw = NoJob
  /\ decoding = NoJob /\ prepared = NoJob /\ inserting = NoJob
  /\ commands = <<>>
  /\ stored = {} /\ barrier = 0
-----------------------------------------------------------------------------
(***************************************************************************)
(* The X11 thread.                                                         *)
(***************************************************************************)
NoX11Effect == UNCHANGED <<vars, decoding, prepared, inserting, stored, barrier>>

\* Mutant of Offer: what was approved of the last owner is kept.
OfferKeepsApproved(foreign) ==
  /\ xpc = "idle" /\ copies < MaxCopies
  /\ copies' = copies + 1
  /\ transfer' = NoJob
  /\ xpc' = IF foreign /\ eligible THEN "begin" ELSE "idle"
  /\ UNCHANGED <<approved, raw, commands>>
  /\ NoX11Effect

\* XfixesSelectionNotify: what is known of the last owner is forgotten; a
\* foreign owner (not None, not this program) is looked at if the gate is open.
Offer(foreign) ==
  /\ xpc = "idle" /\ copies < MaxCopies
  /\ copies' = copies + 1
  /\ transfer' = NoJob /\ approved' = NoJob
  /\ xpc' = IF foreign /\ eligible THEN "begin" ELSE "idle"
  /\ UNCHANGED <<raw, commands>>
  /\ NoX11Effect

\* Mutant of BeginTransfer: begin runs before the generation is counted.
BeginUncounted ==
  /\ xpc = "begin"
  /\ transfer' \in {[copy |-> copies - 1, epoch |-> epoch], NoJob}
  /\ xpc' = "idle"
  /\ UNCHANGED <<copies, approved, raw, commands>>
  /\ NoX11Effect

\* begin: the epoch is read after the round trips that identify the owner; an
\* owner that turns out to be this program is not fetched.
BeginTransfer ==
  /\ xpc = "begin"
  /\ transfer' \in {[copy |-> copies, epoch |-> epoch], NoJob}
  /\ xpc' = "idle"
  /\ UNCHANGED <<copies, approved, raw, commands>>
  /\ NoX11Effect

\* next, after the last target.
Complete ==
  /\ xpc = "idle" /\ transfer # NoJob
  /\ raw' = IF accepts(transfer.epoch) /\ raw = NoJob THEN transfer ELSE raw
  /\ transfer' = NoJob
  /\ UNCHANGED <<copies, xpc, approved, commands>>
  /\ NoX11Effect

\* A sensitive hint, an oversized or malformed property, no progress in time.
AbortTransfer ==
  /\ xpc = "idle" /\ transfer # NoJob
  /\ transfer' = NoJob
  /\ UNCHANGED <<copies, xpc, approved, raw, commands>>
  /\ NoX11Effect

\* The loop forgets everything while the gate is closed.
Sweep ==
  /\ xpc = "idle" /\ ~eligible
  /\ <<transfer, approved>> # <<NoJob, NoJob>>
  /\ transfer' = NoJob /\ approved' = NoJob
  /\ UNCHANGED <<copies, xpc, raw, commands>>
  /\ NoX11Effect

XCommand ==
  /\ xpc = "idle" /\ commands # <<>>
  /\ commands' = Tail(commands)
  /\ LET c == Head(commands)
     IN  \/ c = StopX11 /\ xpc' = "dead" /\ UNCHANGED approved
         \/ /\ c # StopX11
            /\ approved' = IF c.copy = copies /\ accepts(c.epoch) THEN c ELSE approved
            /\ UNCHANGED xpc
  /\ UNCHANGED <<copies, transfer, raw>>
  /\ NoX11Effect

\* The connection to the X server is lost.
XDies ==
  /\ xpc \in {"idle", "begin"} /\ "Backend" \in Inputs
  /\ xpc' = "dead"
  /\ UNCHANGED <<copies, transfer, approved, raw, commands>>
  /\ NoX11Effect

XStep == BeginTransfer \/ Complete \/ AbortTransfer \/ Sweep \/ XCommand
-----------------------------------------------------------------------------
(***************************************************************************)
(* The decoder thread.                                                     *)
(***************************************************************************)
NoDecoderEffect ==
  UNCHANGED <<vars, x11Vars, inserting, commands, stored, barrier>>

\* Mutant of DTake: a job of another epoch is put back into the slot.
DTakePutsBack ==
  /\ raw # NoJob /\ decoding = NoJob
  /\ IF accepts(raw.epoch)
       THEN /\ raw' = NoJob
            /\ decoding' = [copy |-> raw.copy, epoch |-> raw.epoch, cfg |-> settings]
       ELSE UNCHANGED <<raw, decoding>>
  /\ UNCHANGED prepared
  /\ NoDecoderEffect

DTake ==
  /\ raw # NoJob /\ decoding = NoJob
  /\ raw' = NoJob
  /\ decoding' = IF accepts(raw.epoch)
                   THEN [copy |-> raw.copy, epoch |-> raw.epoch, cfg |-> settings]
                   ELSE NoJob
  /\ UNCHANGED prepared
  /\ NoDecoderEffect

\* prepare rejects the content, or the result is passed on if there is room.
DSend ==
  /\ decoding # NoJob
  /\ decoding' = NoJob
  /\ prepared' \in
       (IF accepts(decoding.epoch) /\ prepared = NoJob THEN {decoding, NoJob}
                                                       ELSE {prepared})
  /\ UNCHANGED raw
  /\ NoDecoderEffect

Decoder == DTake \/ DSend
-----------------------------------------------------------------------------
(***************************************************************************)
(* The writer's capture steps, between two requests.                       *)
(***************************************************************************)
WriterOnly ==
  UNCHANGED <<paused, locked, key_ready, capacity, backend, epoch, uiVars,
              requests, opening, wdb, settings, readyAt, reads, readerVars,
              x11Vars, raw, decoding, barrier>>

\* Requests are drained first; then one prepared job is taken.
WTake ==
  /\ wpc = "idle" /\ requests = <<>> /\ prepared # NoJob
  /\ prepared' = NoJob
  /\ IF accepts(prepared.epoch) /\ wdb
       THEN wpc' = "insert" /\ inserting' = prepared
       ELSE UNCHANGED <<wpc, inserting>>
  /\ UNCHANGED <<history, responses, commands, stored>>
  /\ WriterOnly

\* insert_if up to its last look at the gate.
WInsert ==
  /\ wpc = "insert"
  /\ \/ accepts(inserting.epoch) /\ wpc' = "commit" /\ UNCHANGED inserting
     \/ ~accepts(inserting.epoch) /\ wpc' = "idle" /\ inserting' = NoJob
     \/ MayFail("storage") /\ wpc' = "failing" /\ inserting' = NoJob
  /\ UNCHANGED <<prepared, history, responses, commands, stored>>
  /\ WriterOnly

\* The transaction commits: the row, less what retention prunes.  Maintenance
\* after the commit may still fail, or find that the row did not survive it.
WCommit ==
  /\ wpc = "commit"
  /\ \/ /\ stored' = stored \cup {inserting.copy}
        /\ history' \in {h \in SUBSET Items : Cardinality(h \ history) <= 1}
        /\ \/ wpc' = "approve" /\ UNCHANGED inserting
           \/ MayFail("storage") /\ wpc' = "failing" /\ inserting' = NoJob
     \/ /\ MayFail("storage") /\ wpc' = "failing" /\ inserting' = NoJob
        /\ UNCHANGED <<stored, history>>
  /\ UNCHANGED <<prepared, responses, commands>>
  /\ WriterOnly

WApprove ==
  /\ wpc = "approve"
  /\ IF accepts(inserting.epoch)
       THEN /\ commands' = IF xpc = "dead" THEN commands
                                           ELSE Append(commands, inserting)
            /\ Changed
       ELSE UNCHANGED <<commands, responses>>
  /\ wpc' = "idle" /\ inserting' = NoJob
  /\ UNCHANGED <<prepared, history, stored>>
  /\ WriterOnly

WCapture == WTake \/ WInsert \/ WCommit \/ WApprove
-----------------------------------------------------------------------------
\* Copies whose transfer has read its epoch.
lastBegun == IF xpc = "begin" THEN copies - 1 ELSE copies

\* The session core's steps.  The GTK thread learns of a dead X11 thread, the
\* writer's Stop is passed on to a live one, and its invalidations are barriers.
SessionUi ==
  /\ UiInput \/ UiStep
  /\ backend' # backend => xpc = "dead"
  /\ UNCHANGED captureVars
SessionWriter ==
  /\ Writer
  /\ commands' = IF wpc' = "stopped" /\ xpc # "dead"
                   THEN Append(commands, StopX11) ELSE commands
  /\ barrier' = IF epoch' # epoch THEN lastBegun ELSE barrier
  /\ UNCHANGED <<x11Vars, raw, decoding, prepared, inserting, stored>>
SessionReader == Reader /\ UNCHANGED captureVars

CAtRest ==
  /\ AtRestState
  /\ raw = NoJob /\ decoding = NoJob
  /\ xpc = "dead" \/ (xpc = "idle" /\ transfer = NoJob /\ commands = <<>>)
  /\ prepared = NoJob \/ wpc = "stopped"
  /\ UNCHANGED allVars

CNext ==
  \/ SessionUi \/ SessionWriter \/ SessionReader
  \/ \E foreign \in BOOLEAN : Offer(foreign)
  \/ XStep \/ XDies
  \/ Decoder
  \/ WCapture
  \/ CAtRest

CFairness ==
  /\ WF_allVars(SessionUi /\ UiStep)
  /\ WF_allVars(SessionWriter \/ WCapture)
  /\ WF_allVars(SessionReader)
  /\ WF_allVars(Decoder)

CSpec == CInit /\ [][CNext]_allVars
CFairSpec == CSpec /\ CFairness
-----------------------------------------------------------------------------
(***************************************************************************)
(* What the capture pipeline promises.                                     *)
(***************************************************************************)
\* Every slot holds a job of its kind or nothing, and the writer holds a job
\* exactly while it works on one.
CTypeOK ==
  /\ TypeOK
  /\ copies \in Nat /\ xpc \in {"idle", "begin", "dead"}
  /\ {transfer, raw} \subseteq RawJobs \cup {NoJob}
  /\ {approved, decoding, prepared, inserting} \subseteq Jobs \cup {NoJob}
  /\ commands \in Seq(Jobs \cup {StopX11})
  /\ stored \subseteq Nat /\ barrier \in Nat
  /\ inserting # NoJob <=> wpc \in {"insert", "commit", "approve"}

\* Copies reach history in the order they were made and at most once, whatever
\* is dropped or cancelled on the way (LossyFifo).
Fifo == INSTANCE LossyFifo WITH begun <- copies, delivered <- stored
InOrder == Fifo!Spec

\* What was begun before the writer handled Clear, Lock, Reset, new settings or
\* a storage error never reaches history after it (engine.rs 249-252, 314-315,
\* 361, 373-376, 381-384; storage.rs 258).
NoCommitAcrossBarrier ==
  [][stored' # stored => inserting.copy > barrier]_allVars

\* What reaches history was judged by the settings in force: exclusions and
\* categories changed while the decoder worked are never evaded (engine.rs
\* 105-107, 313-315, 381).
CommitUnderCurrentSettings ==
  [][stored' # stored => inserting.cfg = settings]_allVars

\* What the X11 thread may preserve when its owner goes away is in history, and
\* is what the present owner offers (x11.rs 175-183, 243-247; engine.rs 385-393).
ApprovedIsStored == approved # NoJob => approved.copy \in stored /\ approved.copy = copies

\* The decoder never waits for the writer, not even while the keyring prompts
\* or after the writer has stopped: the slot of the X11 thread gets free again
\* (engine.rs 100-117).
RawDrains == raw # NoJob ~> raw = NoJob
=============================================================================
