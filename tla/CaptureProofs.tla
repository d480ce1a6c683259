---------------------------- MODULE CaptureProofs ---------------------------
(***************************************************************************)
(* Theorems about the capture pipeline, for any inputs, failures, bounds   *)
(* and number of copies.                                                   *)
(***************************************************************************)
EXTENDS Capture, EngineProofs

USE DEF allVars, vars, gateVars, uiVars, writerVars, readerVars, captureVars,
        x11Vars, NoWorker, NoX11Effect, NoDecoderEffect, WriterOnly
-----------------------------------------------------------------------------
(***************************************************************************)
(* What the pipeline needs to know of the session core's steps.            *)
(***************************************************************************)
CaptureStages == {"insert", "commit", "approve"}

LEMMA UiEpoch ==
  ASSUME UiInput \/ UiStep
  PROVE  epoch' \in {epoch, epoch + 1} /\ UNCHANGED <<settings, wpc>>
  <1> USE DEF UiThen, Handle, invalidate
  <1>1. ASSUME NEW b \in BOOLEAN, Pause(b) \/ ScreenSignal(b) \/ ProbesDone(b)
        PROVE  epoch' \in {epoch, epoch + 1} /\ UNCHANGED <<settings, wpc>>
    BY <1>1 DEF Pause, ScreenSignal, ProbesDone
  <1>2. CASE KeyringLost \/ Stop \/ BackendFails \/ Refresh \/ StopPause \/ Poll
    BY <1>2 DEF KeyringLost, Stop, BackendFails, Refresh, StopPause, Poll
  <1>3. CASE UiInvalidate \/ LockHistory \/ LockEpoch \/ UiSend
    BY <1>3 DEF UiInvalidate, LockHistory, LockEpoch, UiSend
  <1>4. ASSUME NEW r, UiRequest(r)
        PROVE  epoch' \in {epoch, epoch + 1} /\ UNCHANGED <<settings, wpc>>
    BY <1>4 DEF UiRequest
  <1>5. ASSUME NEW i, Restore(i)
        PROVE  epoch' \in {epoch, epoch + 1} /\ UNCHANGED <<settings, wpc>>
    BY <1>5 DEF Restore
  <1> QED
    BY <1>1, <1>2, <1>3, <1>4, <1>5 DEF UiInput, UiStep

\* New settings are followed by an invalidation before the next request.
LEMMA WriterEpoch ==
  ASSUME Writer
  PROVE  /\ epoch' \in {epoch, epoch + 1}
         /\ settings' = settings \/ (settings' = settings + 1 /\ wpc' = "settings")
         /\ wpc = "settings" => epoch' = epoch + 1 /\ settings' = settings
         /\ wpc \notin CaptureStages /\ wpc' \notin CaptureStages
  <1> USE DEF CaptureStages, Take, DatabaseEnds, invalidate
  <1>1. CASE WStop \/ WLock \/ WUnlock \/ WSettings
    BY <1>1 DEF WStop, WLock, WUnlock, WSettings
  <1>2. CASE WMark \/ WDelete \/ WClear
    BY <1>2 DEF WMark, WDelete, WClear, Refused
  <1>3. CASE WClosed \/ WKey \/ WOpen \/ WCheck \/ WReady
    BY <1>3 DEF WClosed, WKey, WOpen, WCheck, WReady
  <1>4. CASE WApplySettings \/ WFails
    BY <1>4 DEF WApplySettings, WFails
  <1> QED
    BY <1>1, <1>2, <1>3, <1>4 DEF Writer
-----------------------------------------------------------------------------
(***************************************************************************)
(* Order.  The copies in the pipeline, from the clipboard to history, are  *)
(* in decreasing age: each place holds at most one, younger than whatever  *)
(* is further on.                                                          *)
(***************************************************************************)
Copy(job) == IF job = NoJob THEN {} ELSE {job.copy}

Fetching  == Copy(transfer) \cup (IF xpc = "begin" THEN {copies} ELSE {})
Inserting == IF wpc \in {"insert", "commit"} THEN {inserting.copy} ELSE {}

Before(older, younger) == \A m \in older : \A n \in younger : m < n

OrderInv ==
  /\ copies \in Nat
  /\ Fetching \subseteq {copies} \cap 1..copies
  /\ UNION {Copy(raw), Copy(decoding), Copy(prepared), Inserting, stored}
       \subseteq 1..copies
  /\ Before(Copy(raw), Fetching)
  /\ Before(Copy(decoding), Copy(raw) \cup Fetching)
  /\ Before(Copy(prepared), Copy(decoding) \cup Copy(raw) \cup Fetching)
  /\ Before(Inserting, Copy(prepared) \cup Copy(decoding) \cup Copy(raw) \cup Fetching)
  /\ Before(stored, Inserting \cup Copy(prepared) \cup Copy(decoding) \cup Copy(raw)
                      \cup Fetching)

LEMMA InitOrder == CInit => OrderInv
  BY DEF CInit, Init, OrderInv, Copy, Fetching, Inserting, Before

\* The X11 thread numbers the copies and feeds the first slot.
LEMMA X11Order ==
  ASSUME OrderInv, (\E foreign \in BOOLEAN : Offer(foreign)) \/ XStep \/ XDies
  PROVE  OrderInv'
  <1> USE DEF OrderInv, Copy, Fetching, Inserting, Before
  <1>1. ASSUME NEW foreign \in BOOLEAN, Offer(foreign) PROVE OrderInv'
    BY <1>1 DEF Offer
  <1>2. CASE BeginTransfer
    BY <1>2, CaptureAssumption DEF BeginTransfer
  <1>3. CASE Complete
    BY <1>3 DEF Complete
  <1>4. CASE AbortTransfer \/ Sweep
    BY <1>4 DEF AbortTransfer, Sweep
  <1>5. CASE XCommand
    BY <1>5 DEF XCommand
  <1>6. CASE XDies
    BY <1>6 DEF XDies
  <1> QED
    BY <1>1, <1>2, <1>3, <1>4, <1>5, <1>6 DEF XStep

LEMMA DecoderOrder ==
  ASSUME OrderInv, Decoder
  PROVE  OrderInv'
  <1> USE DEF OrderInv, Copy, Fetching, Inserting, Before
  <1>1. CASE DTake
    BY <1>1 DEF DTake
  <1>2. CASE DSend
    BY <1>2 DEF DSend
  <1> QED
    BY <1>1, <1>2 DEF Decoder

LEMMA WCaptureOrder ==
  ASSUME OrderInv, WCapture
  PROVE  OrderInv'
  <1> USE DEF OrderInv, Copy, Fetching, Inserting, Before
  <1>1. CASE WTake
    BY <1>1 DEF WTake
  <1>2. CASE WInsert
    BY <1>2 DEF WInsert
  <1>3. CASE WCommit
    BY <1>3 DEF WCommit
  <1>4. CASE WApprove
    BY <1>4 DEF WApprove
  <1> QED
    BY <1>1, <1>2, <1>3, <1>4 DEF WCapture

LEMMA SessionOrder ==
  ASSUME OrderInv, SessionUi \/ SessionWriter \/ SessionReader
  PROVE  OrderInv'
  <1> USE DEF OrderInv, Copy, Fetching, Inserting, Before
  <1>1. CASE SessionUi
    BY <1>1, UiEpoch DEF SessionUi
  <1>2. CASE SessionWriter
    <2>1. Inserting' = {}
      BY <1>2, WriterEpoch DEF SessionWriter, CaptureStages
    <2> QED
      BY <1>2, <2>1 DEF SessionWriter
  <1>3. CASE SessionReader
    BY <1>3 DEF SessionReader, Reader
  <1> QED
    BY <1>1, <1>2, <1>3

LEMMA StepOrder == OrderInv /\ [CNext]_allVars => OrderInv'
  <1> SUFFICES ASSUME OrderInv, [CNext]_allVars PROVE OrderInv'
    OBVIOUS
  <1>1. CASE CAtRest \/ UNCHANGED allVars
    BY SMTT(30), <1>1 DEF CAtRest, OrderInv, Copy, Fetching, Inserting, Before
  <1> QED
    BY <1>1, X11Order, DecoderOrder, WCaptureOrder, SessionOrder DEF CNext

LEMMA Ordered == CSpec => []OrderInv
  BY InitOrder, StepOrder, PTL DEF CSpec

\* A commit delivers a copy younger than all delivered before; an owner change
\* begins one; every other step is a stutter of LossyFifo.
LEMMA StepFifo == OrderInv /\ [CNext]_allVars => [Fifo!Next]_<<copies, stored>>
  <1> SUFFICES ASSUME OrderInv, CNext, UNCHANGED <<copies, stored>> => FALSE
               PROVE  Fifo!Next
    BY DEF allVars
  <1>1. ASSUME NEW foreign \in BOOLEAN, Offer(foreign) PROVE Fifo!Next
    BY <1>1 DEF Offer, Fifo!Next, Fifo!Begin
  <1>2. CASE WCommit
    <2>1. stored' = stored \cup {inserting.copy} /\ UNCHANGED copies
      BY <1>2 DEF WCommit
    <2>2. inserting.copy \in 1..copies /\ \A d \in stored : d < inserting.copy
      BY <1>2 DEF WCommit, OrderInv, Inserting, Before
    <2> QED
      BY <2>1, <2>2 DEF Fifo!Next, Fifo!Deliver
  <1>3. CASE XStep \/ XDies
    BY <1>3 DEF XStep, XDies, BeginTransfer, Complete, AbortTransfer, Sweep, XCommand
  <1>4. CASE Decoder \/ WTake \/ WInsert \/ WApprove
    BY <1>4 DEF Decoder, DTake, DSend, WTake, WInsert, WApprove
  <1>5. CASE SessionUi \/ SessionWriter \/ SessionReader \/ CAtRest
    BY <1>5 DEF SessionUi, SessionWriter, SessionReader, CAtRest
  <1> QED
    BY <1>1, <1>2, <1>3, <1>4, <1>5 DEF CNext, WCapture

\* The pipeline implements LossyFifo: whatever threads, slots and cancellations
\* do, copies reach history in the order they were made, each at most once.
THEOREM CaptureImplementsLossyFifo == CSpec => InOrder
  <1>1. CInit => Fifo!Init
    BY DEF CInit, Fifo!Init
  <1> QED
    BY <1>1, Ordered, StepFifo, PTL DEF CSpec, InOrder, Fifo!Spec
-----------------------------------------------------------------------------
(***************************************************************************)
(* Freshness.  A job of the present epoch was begun after the last         *)
(* barrier and was prepared under the settings in force, except while the  *)
(* writer is between writing new settings and moving the epoch; a job past *)
(* its final check stays so, because the writer itself is the only one to  *)
(* raise a barrier or to change the settings.                              *)
(***************************************************************************)
Fresh(job) ==
  job # NoJob =>
    /\ job.copy \in Nat /\ job.epoch \in Nat
    /\ job.epoch <= epoch
    /\ job.epoch = epoch => job.copy > barrier

Prepared(job) ==
  /\ Fresh(job)
  /\ job # NoJob /\ job.epoch = epoch /\ wpc # "settings" => job.cfg = settings

FreshInv ==
  /\ epoch \in Nat /\ copies \in Nat /\ barrier \in Nat
  /\ xpc = "begin" => copies > 0
  /\ barrier <= lastBegun
  /\ Fresh(transfer) /\ Fresh(raw)
  /\ transfer # NoJob => xpc # "begin"
  /\ Prepared(decoding) /\ Prepared(prepared)
  /\ wpc = "insert" => Prepared(inserting) /\ inserting # NoJob
  /\ wpc = "commit" => inserting.copy > barrier /\ inserting.cfg = settings

LEMMA InitFresh == CInit => FreshInv
  BY DEF CInit, Init, FreshInv, Fresh, Prepared, lastBegun

LEMMA X11Fresh ==
  ASSUME FreshInv, (\E foreign \in BOOLEAN : Offer(foreign)) \/ XStep \/ XDies
  PROVE  FreshInv'
  <1> USE DEF FreshInv, Fresh, Prepared, lastBegun
  <1>1. ASSUME NEW foreign \in BOOLEAN, Offer(foreign) PROVE FreshInv'
    BY <1>1 DEF Offer
  <1>2. CASE BeginTransfer
    BY <1>2 DEF BeginTransfer
  <1>3. CASE Complete
    BY <1>3 DEF Complete
  <1>4. CASE AbortTransfer \/ Sweep
    BY <1>4 DEF AbortTransfer, Sweep
  <1>5. CASE XCommand
    BY <1>5 DEF XCommand
  <1>6. CASE XDies
    BY <1>6 DEF XDies
  <1> QED
    BY <1>1, <1>2, <1>3, <1>4, <1>5, <1>6 DEF XStep

LEMMA DecoderFresh ==
  ASSUME FreshInv, Decoder
  PROVE  FreshInv'
  <1> USE DEF FreshInv, Fresh, Prepared, lastBegun
  <1>1. CASE DTake
    BY <1>1 DEF DTake, accepts
  <1>2. CASE DSend
    BY <1>2 DEF DSend
  <1> QED
    BY <1>1, <1>2 DEF Decoder

LEMMA WCaptureFresh ==
  ASSUME FreshInv, WCapture
  PROVE  FreshInv'
  <1> USE DEF FreshInv, Fresh, Prepared, lastBegun
  <1>1. CASE WTake
    BY <1>1 DEF WTake
  <1>2. CASE WInsert
    BY <1>2 DEF WInsert, accepts
  <1>3. CASE WCommit
    BY <1>3 DEF WCommit
  <1>4. CASE WApprove
    BY <1>4 DEF WApprove
  <1> QED
    BY <1>1, <1>2, <1>3, <1>4 DEF WCapture

LEMMA SessionFresh ==
  ASSUME FreshInv, SessionUi \/ SessionWriter \/ SessionReader
  PROVE  FreshInv'
  <1> USE DEF FreshInv, Fresh, Prepared, lastBegun
  <1>1. CASE SessionUi
    BY <1>1, UiEpoch DEF SessionUi
  <1>2. CASE SessionWriter
    <2>1. /\ epoch' \in {epoch, epoch + 1}
          /\ settings' = settings \/ wpc' = "settings"
          /\ wpc = "settings" => epoch' = epoch + 1
          /\ wpc' \notin {"insert", "commit"}
      BY <1>2, WriterEpoch DEF SessionWriter, CaptureStages
    <2>2. barrier' = IF epoch' # epoch THEN lastBegun ELSE barrier
      BY <1>2 DEF SessionWriter
    <2> QED
      BY <1>2, <2>1, <2>2 DEF SessionWriter
  <1>3. CASE SessionReader
    BY <1>3 DEF SessionReader, Reader
  <1> QED
    BY <1>1, <1>2, <1>3

LEMMA StepFresh == FreshInv /\ [CNext]_allVars => FreshInv'
  <1> SUFFICES ASSUME FreshInv, [CNext]_allVars PROVE FreshInv'
    OBVIOUS
  <1>1. CASE CAtRest \/ UNCHANGED allVars
    BY SMTT(30), <1>1 DEF CAtRest, FreshInv, Fresh, Prepared, lastBegun
  <1> QED
    BY <1>1, X11Fresh, DecoderFresh, WCaptureFresh, SessionFresh DEF CNext

LEMMA AlwaysFresh == CSpec => []FreshInv
  BY InitFresh, StepFresh, PTL DEF CSpec

\* Only the commit adds to history.
LEMMA CommitStores ==
  ASSUME [CNext]_allVars, stored' # stored
  PROVE  WCommit
  <1>1. XStep \/ XDies \/ (\E foreign \in BOOLEAN : Offer(foreign)) => stored' = stored
    BY DEF XStep, XDies, Offer, BeginTransfer, Complete, AbortTransfer, Sweep, XCommand
  <1>2. Decoder \/ WTake \/ WInsert \/ WApprove => stored' = stored
    BY DEF Decoder, DTake, DSend, WTake, WInsert, WApprove
  <1>3. SessionUi \/ SessionWriter \/ SessionReader \/ CAtRest => stored' = stored
    BY DEF SessionUi, SessionWriter, SessionReader, CAtRest
  <1> QED
    BY <1>1, <1>2, <1>3 DEF CNext, WCapture

\* What was begun before the writer handled Clear, Lock, Reset, new settings or a
\* storage error never reaches history after it.
THEOREM BarriersHold == CSpec => NoCommitAcrossBarrier
  <1>1. FreshInv /\ [CNext]_allVars
          => [stored' # stored => inserting.copy > barrier]_allVars
    BY CommitStores DEF FreshInv, WCommit
  <1> QED
    BY <1>1, AlwaysFresh, PTL DEF CSpec, NoCommitAcrossBarrier

\* What reaches history was judged by the settings in force at the commit.
THEOREM SettingsHold == CSpec => CommitUnderCurrentSettings
  <1>1. FreshInv /\ [CNext]_allVars
          => [stored' # stored => inserting.cfg = settings]_allVars
    BY CommitStores DEF FreshInv, WCommit
  <1> QED
    BY <1>1, AlwaysFresh, PTL DEF CSpec, CommitUnderCurrentSettings
-----------------------------------------------------------------------------
(***************************************************************************)
(* Types, and the session core inside the pipeline.  The session's         *)
(* invariant is kept by the steps the pipeline adds: they touch wpc,       *)
(* history and responses, and none of them ends the writer, opens history  *)
(* or takes a request.                                                     *)
(***************************************************************************)
CaptureTypes ==
  /\ copies \in Nat /\ xpc \in {"idle", "begin", "dead"}
  /\ transfer \in RawJobs \cup {NoJob} /\ raw \in RawJobs \cup {NoJob}
  /\ approved \in Jobs \cup {NoJob} /\ decoding \in Jobs \cup {NoJob}
  /\ prepared \in Jobs \cup {NoJob} /\ inserting \in Jobs \cup {NoJob}
  /\ commands \in Seq(Jobs \cup {StopX11})
  /\ stored \subseteq Nat /\ barrier \in Nat
  /\ inserting # NoJob <=> wpc \in CaptureStages

\* The writer approves what it has committed, and the way to the X11 thread
\* keeps it.
ApprovedInv ==
  /\ ApprovedIsStored
  /\ \A i \in DOMAIN commands : commands[i] # StopX11 => commands[i].copy \in stored
  /\ wpc = "approve" => inserting.copy \in stored

LEMMA CTypeOKIs == CTypeOK <=> TypeOK /\ CaptureTypes
  BY DEF CTypeOK, CaptureTypes, CaptureStages

LEMMA InitCapture == CInit => SafetyInv /\ CaptureTypes /\ ApprovedInv
  <1> SUFFICES ASSUME CInit PROVE SafetyInv /\ CaptureTypes /\ ApprovedInv
    OBVIOUS
  <1>1. SafetyInv
    BY InitSafety DEF CInit
  <1>2. commands \in Seq(Jobs \cup {StopX11}) /\ DOMAIN commands = {}
    BY EmptySeq DEF CInit
  <1>3. CaptureTypes
    BY <1>2 DEF CInit, Init, CaptureTypes, CaptureStages
  <1>4. ApprovedInv
    BY <1>2 DEF CInit, Init, ApprovedInv, ApprovedIsStored
  <1> QED
    BY <1>1, <1>3, <1>4

\* A step that leaves wpc alone, or moves it among the states of a running writer,
\* and touches none of the session's other variables keeps the session's invariant.
LEMMA SessionUntouched ==
  ASSUME SafetyInv, UNCHANGED <<gateVars, uiVars, requests, opening, wdb, settings,
                                readyAt, reads, readerVars>>,
         history' \subseteq Items, responses' \in Seq(Responses),
         wpc' = wpc \/ wpc' \in {"idle", "insert", "commit", "approve", "failing"}
  PROVE  SafetyInv'
  <1>1. TypeOK'
    BY DEF SafetyInv, TypeOK, GateTypeOK, WriterSteps
  <1>2. StoppedClosed' /\ ConfirmPending'
    BY DEF SafetyInv, StoppedClosed, ConfirmPending, LockPending
  <1>3. ReadyHasWriter' /\ StaleReadyPending' /\ ShelfHidden'
    BY DEF SafetyInv, ReadyHasWriter, StaleReadyPending, LockPending, ShelfHidden
  <1> QED
    BY <1>1, <1>2, <1>3 DEF SafetyInv

LEMMA X11Types ==
  ASSUME CaptureTypes, (\E foreign \in BOOLEAN : Offer(foreign)) \/ XStep \/ XDies,
         epoch \in Nat
  PROVE  CaptureTypes'
  <1> USE DEF CaptureTypes
  <1>1. ASSUME NEW foreign \in BOOLEAN, Offer(foreign) PROVE CaptureTypes'
    BY <1>1 DEF Offer
  <1>2. CASE BeginTransfer
    BY <1>2 DEF BeginTransfer, RawJobs
  <1>3. CASE Complete
    BY <1>3 DEF Complete
  <1>4. CASE AbortTransfer \/ Sweep
    BY <1>4 DEF AbortTransfer, Sweep
  <1>5. CASE XCommand
    <2>1. Head(commands) \in Jobs \cup {StopX11} /\ commands' \in Seq(Jobs \cup {StopX11})
      BY <1>5, HeadTailProperties DEF XCommand
    <2> QED
      BY <1>5, <2>1 DEF XCommand
  <1>6. CASE XDies
    BY <1>6 DEF XDies
  <1> QED
    BY <1>1, <1>2, <1>3, <1>4, <1>5, <1>6 DEF XStep

LEMMA DecoderTypes ==
  ASSUME CaptureTypes, Decoder, settings \in Nat
  PROVE  CaptureTypes'
  <1> USE DEF CaptureTypes
  <1>1. CASE DTake
    BY <1>1 DEF DTake, RawJobs, Jobs
  <1>2. CASE DSend
    BY <1>2 DEF DSend
  <1> QED
    BY <1>1, <1>2 DEF Decoder

LEMMA WCaptureTypes ==
  ASSUME CaptureTypes, WCapture
  PROVE  CaptureTypes'
  <1> USE DEF CaptureTypes, CaptureStages
  <1>1. CASE WTake
    BY <1>1 DEF WTake
  <1>2. CASE WInsert
    BY <1>2 DEF WInsert
  <1>3. CASE WCommit
    <2>1. inserting \in Jobs /\ inserting.copy \in Nat
      BY <1>3 DEF WCommit, Jobs
    <2> QED
      BY <1>3, <2>1 DEF WCommit
  <1>4. CASE WApprove
    <2>1. inserting \in Jobs
      BY <1>4 DEF WApprove
    <2>2. commands' \in Seq(Jobs \cup {StopX11})
      BY <1>4, <2>1, AppendProperties DEF WApprove
    <2> QED
      BY <1>4, <2>2 DEF WApprove
  <1> QED
    BY <1>1, <1>2, <1>3, <1>4 DEF WCapture

LEMMA SessionTypes ==
  ASSUME CaptureTypes, FreshInv, SessionUi \/ SessionWriter \/ SessionReader
  PROVE  CaptureTypes'
  <1> USE DEF CaptureTypes
  <1>1. CASE SessionUi
    BY <1>1, UiEpoch DEF SessionUi
  <1>2. CASE SessionWriter
    <2>1. wpc \notin CaptureStages /\ wpc' \notin CaptureStages
      BY <1>2, WriterEpoch DEF SessionWriter
    <2>2. commands' \in Seq(Jobs \cup {StopX11})
      BY <1>2, AppendProperties DEF SessionWriter
    <2>3. barrier' \in Nat
      BY <1>2 DEF SessionWriter, lastBegun, FreshInv
    <2> QED
      BY <1>2, <2>1, <2>2, <2>3 DEF SessionWriter
  <1>3. CASE SessionReader
    BY <1>3 DEF SessionReader, Reader
  <1> QED
    BY <1>1, <1>2, <1>3

LEMMA SessionSafety ==
  ASSUME SafetyInv, SessionUi \/ SessionWriter \/ SessionReader
  PROVE  SafetyInv'
  <1>1. Next
    BY DEF SessionUi, SessionWriter, SessionReader, Next
  <1> QED
    BY <1>1, StepSafety

LEMMA WCaptureSafety ==
  ASSUME SafetyInv, WCapture
  PROVE  SafetyInv'
  <1>1. history \subseteq Items /\ responses \in Seq(Responses)
    BY DEF SafetyInv, TypeOK
  <1>2. CASE WTake
    BY <1>1, <1>2, SessionUntouched DEF WTake
  <1>3. CASE WInsert
    BY <1>1, <1>3, SessionUntouched DEF WInsert
  <1>4. CASE WCommit
    BY <1>1, <1>4, SessionUntouched DEF WCommit
  <1>5. CASE WApprove
    <2>1. responses' \in Seq(Responses)
      BY <1>1, <1>5, ChangedType DEF WApprove
    <2> QED
      BY <1>1, <1>5, <2>1, SessionUntouched DEF WApprove
  <1> QED
    BY <1>2, <1>3, <1>4, <1>5 DEF WCapture

LEMMA StepSession == SafetyInv /\ [CNext]_allVars => SafetyInv'
  <1> SUFFICES ASSUME SafetyInv, [CNext]_allVars PROVE SafetyInv'
    OBVIOUS
  <1>1. CASE UNCHANGED vars
    BY <1>1, StepSafety
  <1>2. XStep \/ XDies \/ Decoder \/ CAtRest => UNCHANGED vars
    BY DEF XStep, XDies, BeginTransfer, Complete, AbortTransfer, Sweep, XCommand,
           Decoder, DTake, DSend, CAtRest
  <1>3. ASSUME NEW foreign \in BOOLEAN, Offer(foreign) PROVE UNCHANGED vars
    BY <1>3 DEF Offer
  <1>4. CASE UNCHANGED allVars
    BY <1>1, <1>4
  <1> QED
    BY <1>1, <1>2, <1>3, <1>4, SessionSafety, WCaptureSafety DEF CNext

LEMMA StepCaptureTypes ==
  SafetyInv /\ FreshInv /\ CaptureTypes /\ [CNext]_allVars => CaptureTypes'
  <1> SUFFICES ASSUME SafetyInv, FreshInv, CaptureTypes, [CNext]_allVars
               PROVE  CaptureTypes'
    OBVIOUS
  <1>1. epoch \in Nat /\ settings \in Nat
    BY DEF SafetyInv, TypeOK, GateTypeOK
  <1>2. CASE CAtRest \/ UNCHANGED allVars
    BY <1>2 DEF CAtRest, CaptureTypes
  <1> QED
    BY <1>1, <1>2, X11Types, DecoderTypes, WCaptureTypes, SessionTypes DEF CNext

\* One step of the pipeline keeps what approval rests on.
LEMMA StepApproved ==
  CaptureTypes /\ ApprovedInv /\ [CNext]_allVars => ApprovedInv'
  <1> SUFFICES ASSUME CaptureTypes, ApprovedInv, [CNext]_allVars PROVE ApprovedInv'
    OBVIOUS
  <1> USE DEF ApprovedInv, ApprovedIsStored
  <1>1. ASSUME NEW foreign \in BOOLEAN, Offer(foreign) PROVE ApprovedInv'
    BY <1>1 DEF Offer
  <1>2. CASE BeginTransfer \/ Complete \/ AbortTransfer \/ Sweep \/ XDies
    BY <1>2 DEF BeginTransfer, Complete, AbortTransfer, Sweep, XDies
  <1>3. CASE XCommand
    <2>1. /\ 1 \in DOMAIN commands /\ Head(commands) = commands[1]
          /\ \A i \in DOMAIN Tail(commands) :
               i + 1 \in DOMAIN commands /\ Tail(commands)[i] = commands[i + 1]
      BY <1>3, HeadTailProperties, LenProperties DEF XCommand, CaptureTypes
    <2> QED
      BY <1>3, <2>1 DEF XCommand
  <1>4. CASE Decoder \/ WTake \/ WInsert
    BY <1>4 DEF Decoder, DTake, DSend, WTake, WInsert
  <1>5. CASE WCommit
    BY SMTT(30), <1>5 DEF WCommit
  <1>6. ASSUME NEW c \in Jobs \cup {StopX11}, commands' = Append(commands, c),
               c # StopX11 => c.copy \in stored, UNCHANGED <<approved, copies, stored>>,
               wpc' # "approve"
        PROVE  ApprovedInv'
    <2>1. /\ DOMAIN commands' = 1..(Len(commands) + 1) /\ DOMAIN commands = 1..Len(commands)
          /\ commands'[Len(commands) + 1] = c
          /\ \A i \in DOMAIN commands : commands'[i] = commands[i]
      BY <1>6, AppendProperties, LenProperties DEF CaptureTypes
    <2>2. Len(commands) \in Nat
      BY LenProperties DEF CaptureTypes
    <2>3. \A i \in DOMAIN commands' : i \in DOMAIN commands \/ i = Len(commands) + 1
      BY <2>1, <2>2
    <2> QED
      BY <1>6, <2>1, <2>3
  <1>7. CASE WApprove
    <2>1. inserting \in Jobs /\ inserting.copy \in stored
      BY <1>7 DEF WApprove, CaptureTypes, CaptureStages
    <2> QED
      BY <1>6, <1>7, <2>1 DEF WApprove
  <1>8. CASE SessionWriter
    <2>1. wpc' # "approve"
      BY <1>8, WriterEpoch DEF SessionWriter, CaptureStages
    <2> QED
      BY <1>6, <1>8, <2>1 DEF SessionWriter
  <1>9. CASE SessionUi \/ SessionReader
    BY <1>9, UiEpoch DEF SessionUi, SessionReader, Reader
  <1>10. CASE CAtRest \/ UNCHANGED allVars
    BY <1>10 DEF CAtRest
  <1> QED
    BY <1>1, <1>2, <1>3, <1>4, <1>5, <1>7, <1>8, <1>9, <1>10
    DEF CNext, XStep, WCapture

LEMMA CaptureInvariant == CSpec => [](SafetyInv /\ CaptureTypes /\ ApprovedInv)
  <1>1. SafetyInv /\ CaptureTypes /\ ApprovedInv /\ FreshInv /\ [CNext]_allVars
          => (SafetyInv /\ CaptureTypes /\ ApprovedInv)'
    BY StepSession, StepCaptureTypes, StepApproved
  <1> QED
    BY <1>1, InitCapture, AlwaysFresh, PTL DEF CSpec

\* Type correctness of the pipeline with the session core in it.
THEOREM CaptureTypeCorrect == CSpec => []CTypeOK
  <1>1. SafetyInv /\ CaptureTypes => CTypeOK
    BY CTypeOKIs DEF SafetyInv
  <1> QED
    BY <1>1, CaptureInvariant, PTL

\* What the X11 thread may publish when its owner is gone is in history, and is
\* the present owner's.
THEOREM ApprovalFollowsCommit == CSpec => []ApprovedIsStored
  <1>1. ApprovedInv => ApprovedIsStored
    BY DEF ApprovedInv
  <1> QED
    BY <1>1, CaptureInvariant, PTL

\* The steps of the capture path, as the session core sees them.
LEMMA CaptureAside ==
  ASSUME SafetyInv, [CNext]_allVars
  PROVE  \/ [Next]_vars
         \/ /\ UNCHANGED <<reads, rdb, ack, clip, key_ready>>
            /\ wpc \in {"idle", "insert", "commit", "approve"}
            /\ wpc' \in {"idle", "insert", "commit", "approve", "failing"}
  <1>1. CASE SessionUi \/ SessionWriter \/ SessionReader
    BY <1>1 DEF SessionUi, SessionWriter, SessionReader, Next
  <1>2. CASE WTake
    BY <1>2 DEF WTake
  <1>3. CASE WInsert
    BY <1>3 DEF WInsert
  <1>4. CASE WCommit
    BY <1>4 DEF WCommit
  <1>5. CASE WApprove
    BY <1>5 DEF WApprove, Changed
  <1>6. XStep \/ XDies \/ Decoder \/ CAtRest => UNCHANGED vars
    BY DEF XStep, XDies, BeginTransfer, Complete, AbortTransfer, Sweep, XCommand,
           Decoder, DTake, DSend, CAtRest
  <1>7. ASSUME NEW foreign \in BOOLEAN, Offer(foreign) PROVE UNCHANGED vars
    BY <1>7 DEF Offer
  <1> QED
    BY <1>1, <1>2, <1>3, <1>4, <1>5, <1>6, <1>7 DEF CNext, WCapture

LEMMA StepPipelineDialogue ==
  SafetyInv /\ Dialogue /\ [CNext]_allVars => Dialogue'
  <1> SUFFICES ASSUME SafetyInv, Dialogue, [CNext]_allVars PROVE Dialogue'
    OBVIOUS
  <1>1. CASE [Next]_vars
    BY <1>1, StepDialogue DEF SafetyInv
  <1>2. CASE /\ UNCHANGED <<reads, rdb, ack, clip, key_ready>>
             /\ wpc \in {"idle", "insert", "commit", "approve"}
             /\ wpc' \in {"idle", "insert", "commit", "approve", "failing"}
    BY <1>2, SilentDialogue DEF Waiting
  <1> QED
    BY <1>1, <1>2, CaptureAside

\* What the session core promises of locks, of open history and of the writer's questions
\* to the reader it also keeps while copies go through the writer.
THEOREM SessionHoldsInPipeline ==
  CSpec => /\ [](ReadyHasWriter /\ StaleReadyPending /\ ShelfHidden)
           /\ RestoreNotAcrossLock
           /\ [](Waiting => /\ rdb # "stopped"
                            /\ \E i \in DOMAIN reads : Asks(reads[i])
                            /\ \A i \in DOMAIN reads : reads[i].op # "Stop")
  <1>1. SafetyInv => ReadyHasWriter /\ StaleReadyPending /\ ShelfHidden
    BY DEF SafetyInv
  <1>2. SafetyInv /\ [CNext]_allVars => [clip' # clip => ~locked /\ clip'.tag >= sealed]_vars
    BY CaptureAside, ClipGuarded DEF SafetyInv
  <1>3. CInit => Dialogue
    BY InitDialogue DEF CInit
  <1>4. Dialogue => (Waiting => /\ rdb # "stopped"
                                /\ \E i \in DOMAIN reads : Asks(reads[i])
                                /\ \A i \in DOMAIN reads : reads[i].op # "Stop")
    BY DEF Dialogue, Waiting
  <1> QED
    BY <1>1, <1>2, <1>3, <1>4, StepPipelineDialogue, CaptureInvariant, PTL
    DEF CSpec, RestoreNotAcrossLock
=============================================================================
