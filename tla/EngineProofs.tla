---------------------------- MODULE EngineProofs ----------------------------
(***************************************************************************)
(* Theorems about the session core, for any number of rows, any choice of  *)
(* inputs and failures and any bounds.                                     *)
(***************************************************************************)
EXTENDS Engine, SequenceTheorems, TLAPS

\* The variables an action leaves alone.
USE DEF vars, gateVars, uiVars, writerVars, readerVars, NoWorker

\* A request sent or taken leaves a sequence of requests.
LEMMA SendType ==
  ASSUME requests \in Seq(Requests), NEW r \in Requests, Send(r)
  PROVE  requests' \in Seq(Requests)
  BY AppendProperties DEF Send

LEMMA TakeType ==
  ASSUME requests \in Seq(Requests), NEW r, Take(r)
  PROVE  requests' \in Seq(Requests) /\ r \in Requests
  BY HeadTailProperties DEF Take

LEMMA ReadType ==
  ASSUME reads \in Seq(Reads), NEW r \in Reads, Read(r)
  PROVE  reads' \in Seq(Reads)
  BY AppendProperties DEF Read

LEMMA AskType ==
  ASSUME reads \in Seq(Reads), NEW op \in {"Open", "Close", "Stop"}
  PROVE  Append(reads, [op |-> op]) \in Seq(Reads)
  <1>1. [op |-> op] \in Reads
    BY DEF Reads
  <1> QED
    BY <1>1, AppendProperties

LEMMA AnswerType ==
  ASSUME responses \in Seq(Responses), NEW a \in Responses, Answer(a)
  PROVE  responses' \in Seq(Responses)
  BY AppendProperties DEF Answer

LEMMA ChangedType ==
  ASSUME responses \in Seq(Responses), Changed
  PROVE  responses' \in Seq(Responses)
  <1>1. [op |-> "Changed"] \in Responses
    BY DEF Responses
  <1> QED
    BY <1>1, AnswerType DEF Changed

\* Two parts of TypeOK that go to different provers.
FlagsType ==
  /\ paused \in BOOLEAN /\ locked \in BOOLEAN /\ key_ready \in BOOLEAN
  /\ capacity \in BOOLEAN /\ backend \in BOOLEAN /\ wdb \in BOOLEAN
EpochType == epoch \in Nat /\ sealed \in Nat /\ sealed <= epoch
LEMMA InvalidateType ==
  ASSUME EpochType, invalidate, sealed' = sealed
  PROVE  EpochType'
  BY DEF EpochType, invalidate

\* Every action of the GTK thread keeps the types.
LEMMA UiType ==
  ASSUME TypeOK, UiInput \/ UiStep
  PROVE  TypeOK'
  <1> USE DEF TypeOK, GateTypeOK, UiSteps, UiThen, Handle, invalidate
  <1>1. ASSUME NEW b \in BOOLEAN, Pause(b) PROVE TypeOK'
    BY <1>1 DEF Pause
  <1>2. ASSUME NEW b \in BOOLEAN, ScreenSignal(b) PROVE TypeOK'
    BY <1>2 DEF ScreenSignal
  <1>3. ASSUME NEW b \in BOOLEAN, ProbesDone(b) PROVE TypeOK'
    BY ZenonT(30), <1>3 DEF ProbesDone
  <1>4. CASE KeyringLost
    BY <1>4 DEF KeyringLost
  <1>5. CASE Stop
    BY <1>5 DEF Stop
  <1>6. CASE BackendFails
    BY ZenonT(30), <1>6 DEF BackendFails
  <1>7. CASE Refresh
    <2>1. [op |-> "Search", tag |-> serial'] \in Reads
      BY <1>7 DEF Refresh, search, Reads
    <2>2. reads' \in Seq(Reads)
      BY <1>7, <2>1, ReadType DEF Refresh, search
    <2> QED
      BY <1>7, <2>2 DEF Refresh, search
  <1>8. ASSUME NEW r \in {"Unlock", "Reset", "Settings", "Clear", "Delete", "Pin"},
               UiRequest(r)
        PROVE  TypeOK'
    <2>1. r \in Requests
      BY DEF Requests
    <2>2. requests' \in Seq(Requests)
      BY <1>8, <2>1, SendType DEF UiRequest
    <2> QED
      BY <1>8, <2>2 DEF UiRequest
  <1>9. ASSUME NEW i \in shelf, Restore(i) PROVE TypeOK'
    <2>1. [op |-> "Restore", tag |-> epoch, item |-> i] \in Reads
      BY DEF Reads
    <2>2. reads' \in Seq(Reads)
      BY <1>9, <2>1, ReadType DEF Restore
    <2>3. "Touch" \in Requests
      BY DEF Requests
    <2>4. requests' \in Seq(Requests)
      BY <1>9, <2>3, SendType DEF Restore
    <2> QED
      BY <1>9, <2>2, <2>4 DEF Restore
  <1>10. CASE UiInvalidate
    BY <1>10 DEF UiInvalidate
  <1>11. CASE LockHistory
    BY ZenonT(30), <1>11 DEF LockHistory
  <1>12. CASE LockEpoch
    BY <1>12 DEF LockEpoch
  <1>13. CASE UiSend
    <2>1. PICK r \in {"Lock", "Unlock", "Stop"} : Send(r)
      BY <1>13 DEF UiSend
    <2>2. r \in Requests
      BY DEF Requests
    <2>3. requests' \in Seq(Requests)
      BY <2>1, <2>2, SendType
    <2> QED
      BY <1>13, <2>3 DEF UiSend
  <1>14. CASE StopPause
    BY <1>14 DEF StopPause
  <1>15. CASE Poll
    <2> DEFINE r == Head(responses)
    <2>1. /\ r \in Responses
          /\ responses' \in Seq(Responses)
      BY <1>15, HeadTailProperties DEF Poll
    <2>2. CASE ShowItems(r)
      BY <1>15, <2>1, <2>2 DEF Poll, ShowItems, Responses
    <2>3. CASE PublishRestore(r)
      <3>1. [item |-> r.item, tag |-> r.tag] \in [item : Items \cup {NoItem}, tag : Nat]
        BY <2>1, <2>3 DEF PublishRestore, Responses
      <3> QED
        BY <1>15, <2>1, <2>3, <3>1 DEF Poll, PublishRestore
    <2>4. CASE FollowChange(r)
      <3>1. [op |-> "Search", tag |-> serial'] \in Reads
        BY <2>4 DEF FollowChange, search, Reads
      <3>2. reads' \in Seq(Reads)
        BY <2>4, <3>1, ReadType DEF FollowChange, search
      <3> QED
        BY <1>15, <2>1, <2>4, <3>2 DEF Poll, FollowChange, search
    <2> QED
      BY <1>15, <2>2, <2>3, <2>4 DEF Poll
  <1> QED
    BY <1>1, <1>2, <1>3, <1>4, <1>5, <1>6, <1>7, <1>8, <1>9, <1>10, <1>11,
       <1>12, <1>13, <1>14, <1>15 DEF UiInput, UiStep

\* Every action of the writer keeps the types.
LEMMA WriterType ==
  ASSUME TypeOK, Writer
  PROVE  TypeOK'
  <1> USE DEF TypeOK, GateTypeOK, WriterSteps, DatabaseEnds, MayFail, invalidate
  <1>1. CASE WStop
    <2>1. requests' \in Seq(Requests)
      BY <1>1, TakeType DEF WStop
    <2>2. reads' \in Seq(Reads)
      BY <1>1, AskType DEF WStop
    <2> QED
      BY ZenonT(30), <1>1, <2>1, <2>2 DEF WStop
  <1>2. CASE WLock
    <2>1. requests' \in Seq(Requests)
      BY <1>2, TakeType DEF WLock
    <2>2. reads' \in Seq(Reads)
      BY <1>2, AskType DEF WLock, Ask
    <2>3. EpochType'
      BY <1>2, InvalidateType DEF WLock, EpochType
    <2>4. FlagsType'
      BY <1>2 DEF WLock, FlagsType
    <2> QED
      BY <1>2, <2>1, <2>2, <2>3, <2>4 DEF WLock, Ask, EpochType, FlagsType
  <1>3. CASE WClosed
    <2>1. responses' \in Seq(Responses)
      BY <1>3, ChangedType DEF WClosed
    <2> QED
      BY <1>3, <2>1 DEF WClosed
  <1>4. CASE WUnlock
    BY <1>4, TakeType DEF WUnlock
  <1>5. CASE WKey
    BY <1>5 DEF WKey
  <1>6. CASE WOpen
    <2>1. reads' \in Seq(Reads)
      BY <1>6, AskType DEF WOpen, Ask
    <2> QED
      BY <1>6, <2>1 DEF WOpen, Ask
  <1>7. CASE WCheck
    <2>1. reads' \in Seq(Reads)
      BY <1>7, AskType DEF WCheck, Ask
    <2> QED
      BY <1>7, <2>1 DEF WCheck, Ask
  <1>8. CASE WReady
    <2>1. responses' \in Seq(Responses)
      BY <1>8, ChangedType DEF WReady
    <2> QED
      BY <1>8, <2>1 DEF WReady
  <1>9. CASE WSettings
    <2>1. requests' \in Seq(Requests)
      BY <1>9, TakeType DEF WSettings
    <2> QED
      BY <1>9, <2>1 DEF WSettings
  <1>10. CASE WApplySettings
    <2>1. responses' \in Seq(Responses)
      BY <1>10, ChangedType DEF WApplySettings
    <2> QED
      BY <1>10, <2>1 DEF WApplySettings
  <1>11. CASE WMark
    <2>1. requests' \in Seq(Requests)
      BY <1>11, TakeType DEF WMark
    <2>2. responses' \in Seq(Responses)
      BY <1>11, ChangedType DEF WMark
    <2> QED
      BY <1>11, <2>1, <2>2 DEF WMark
  <1>12. CASE WDelete
    <2>1. requests' \in Seq(Requests)
      BY <1>12, TakeType DEF Refused, WDelete
    <2>2. responses' \in Seq(Responses)
      BY <1>12, ChangedType DEF Refused, WDelete, DatabaseAnswers
    <2>3. history' \subseteq Items
      BY <1>12 DEF Refused, WDelete
    <2>4. FlagsType'
      BY <1>12 DEF Refused, WDelete, DatabaseAnswers, FlagsType
    <2>5. wpc' \in WriterSteps
      BY <1>12 DEF Refused, WDelete
    <2> QED
      BY <1>12, <2>1, <2>2, <2>3, <2>4, <2>5 DEF Refused, WDelete, FlagsType
  <1>13. CASE WClear
    <2>1. requests' \in Seq(Requests)
      BY <1>13, TakeType DEF Refused, WClear
    <2>2. responses' \in Seq(Responses)
      BY <1>13, ChangedType DEF Refused, WClear, DatabaseAnswers
    <2>3. EpochType' /\ history' \subseteq Items /\ wpc' \in WriterSteps
      BY <1>13, InvalidateType DEF Refused, WClear, EpochType
    <2>4. FlagsType'
      BY <1>13 DEF Refused, WClear, DatabaseAnswers, FlagsType
    <2> QED
      BY <1>13, <2>1, <2>2, <2>3, <2>4
         DEF Refused, WClear, DatabaseAnswers, EpochType, FlagsType
  <1>14. CASE WFails
    <2>1. EpochType'
      BY <1>14, InvalidateType DEF WFails, EpochType
    <2>2. FlagsType'
      BY <1>14 DEF WFails, FlagsType
    <2> QED
      BY <1>14, <2>1, <2>2 DEF WFails, EpochType, FlagsType
  <1> QED
    BY <1>1, <1>2, <1>3, <1>4, <1>5, <1>6, <1>7, <1>8, <1>9, <1>10, <1>11,
       <1>12, <1>13, <1>14 DEF Writer

\* Every step of the reader keeps the types.
LEMMA ReaderType ==
  ASSUME TypeOK, Reader
  PROVE  TypeOK'
  <1> USE DEF TypeOK, GateTypeOK
  <1> DEFINE r == Head(reads)
  <1>1. reads # <<>> /\ r \in Reads /\ reads' \in Seq(Reads)
    BY HeadTailProperties DEF Reader, NextRead, ROpen, RClose, RStop, RSearch, RRestore
  <1>2. /\ rdb' \in {"closed", "open", "stopped"}
        /\ ack' \in {"none", "ok", "failed"}
    BY DEF Reader, ROpen, RClose, RStop, RSearch, RRestore
  <1>3. responses' \in Seq(Responses)
    <2>1. CASE ROpen \/ RClose \/ RStop
      BY <2>1 DEF ROpen, RClose, RStop
    <2>2. CASE RSearch
      <3>1. r.tag \in Nat
        BY <1>1, <2>2 DEF RSearch, NextRead, Reads
      <3>2. \A items \in SUBSET Items :
              [op |-> "Items", tag |-> r.tag, items |-> items] \in Responses
        BY <3>1 DEF Responses
      <3>3. CASE UNCHANGED responses
        BY <3>3
      <3>4. CASE Answer([op |-> "Items", tag |-> r.tag, items |-> {}])
        BY <3>2, <3>4, AnswerType
      <3>5. CASE Answer([op |-> "Items", tag |-> r.tag, items |-> history])
        BY <3>2, <3>5, AnswerType
      <3> QED
        BY <2>2, <3>3, <3>4, <3>5 DEF RSearch
    <2>3. CASE RRestore
      <3>1. r \in Responses
        BY <1>1, <2>3 DEF RRestore, NextRead, Reads, Responses
      <3>2. CASE UNCHANGED responses
        BY <3>2
      <3>3. CASE Answer(r)
        BY <3>1, <3>3, AnswerType
      <3> QED
        BY <2>3, <3>2, <3>3 DEF RRestore
    <2> QED
      BY <2>1, <2>2, <2>3 DEF Reader
  <1> QED
    BY <1>1, <1>2, <1>3 DEF Reader

LEMMA InitType == Init => TypeOK
  <1> SUFFICES ASSUME Init PROVE TypeOK
    OBVIOUS
  <1>1. GateTypeOK
    BY EngineAssumption DEF Init, GateTypeOK
  <1>2. requests \in Seq(Requests) /\ reads \in Seq(Reads) /\ responses \in Seq(Responses)
    BY EmptySeq DEF Init
  <1>3. clip \in [item : Items \cup {NoItem}, tag : Nat]
    BY DEF Init
  <1>4. /\ ui \in UiSteps /\ wpc \in WriterSteps
        /\ rdb \in {"closed", "open", "stopped"} /\ ack \in {"none", "ok", "failed"}
    BY DEF Init, UiSteps, WriterSteps
  <1>5. initializing \in BOOLEAN /\ wdb \in BOOLEAN
    BY DEF Init
  <1> QED
    BY <1>1, <1>2, <1>3, <1>4, <1>5 DEF Init, TypeOK

LEMMA StepType == TypeOK /\ [Next]_vars => TypeOK'
  <1>1. CASE UNCHANGED vars
    BY <1>1 DEF TypeOK, GateTypeOK
  <1>2. CASE AtRest
    BY <1>2 DEF AtRest, TypeOK, GateTypeOK
  <1> QED
    BY <1>1, <1>2, UiType, WriterType, ReaderType DEF Next

\* Type correctness of the session core.
THEOREM TypeCorrect == Spec => []TypeOK
  BY InitType, StepType, PTL DEF Spec
-----------------------------------------------------------------------------
(***************************************************************************)
(* Safety.  StaleReadyPending is not inductive by itself: the writer's     *)
(* store of key_ready comes a step after its last check, so the invariant  *)
(* must also say that a lock which came in between is on its way.          *)
(***************************************************************************)
LockQueued == \E i \in DOMAIN requests : requests[i] = "Lock"

ConfirmPending == wpc = "confirm" /\ opening < sealed => LockPending
StoppedClosed  == wpc = "stopped" => ~key_ready

SafetyInv ==
  /\ TypeOK
  /\ ReadyHasWriter
  /\ StoppedClosed
  /\ StaleReadyPending
  /\ ConfirmPending
  /\ ShelfHidden

\* What a queue keeps of a Lock when something is appended or taken.
LEMMA AppendKeepsLock ==
  ASSUME requests \in Seq(Requests), NEW r \in Requests, LockQueued \/ r = "Lock",
         requests' = Append(requests, r)
  PROVE  LockQueued'
  <1>1. /\ Len(requests) \in Nat
        /\ DOMAIN requests = 1 .. Len(requests)
        /\ requests' \in Seq(Requests)
        /\ DOMAIN requests' = 1 .. Len(requests')
    BY LenProperties, AppendProperties
  <1>2. CASE LockQueued
    <2>1. PICK i \in DOMAIN requests : requests[i] = "Lock"
      BY <1>2 DEF LockQueued
    <2>2. i \in DOMAIN requests' /\ requests'[i] = "Lock"
      BY <1>1, <2>1, AppendProperties
    <2> QED
      BY <2>2 DEF LockQueued
  <1>3. CASE r = "Lock"
    <2>1. /\ Len(requests) + 1 \in DOMAIN requests'
          /\ requests'[Len(requests) + 1] = "Lock"
      BY <1>1, <1>3, AppendProperties
    <2> QED
      BY <2>1 DEF LockQueued
  <1> QED
    BY <1>2, <1>3

LEMMA TakeKeepsLock ==
  ASSUME requests \in Seq(Requests), NEW r, Take(r), r # "Lock", LockQueued
  PROVE  LockQueued'
  <1>1. /\ requests # <<>>
        /\ Head(requests) # "Lock"
        /\ requests' = Tail(requests)
    BY DEF Take
  <1>2. PICK i \in DOMAIN requests : requests[i] = "Lock"
    BY DEF LockQueued
  <1>3. /\ Len(requests) \in Nat
        /\ DOMAIN requests = 1 .. Len(requests)
        /\ Head(requests) = requests[1]
    BY <1>1, LenProperties
  <1>4. i # 1
    BY <1>1, <1>2, <1>3
  <1>5. /\ requests' \in Seq(Requests)
        /\ DOMAIN requests' = 1 .. Len(requests')
        /\ Len(requests') = Len(requests) - 1
        /\ \A j \in 1 .. Len(requests') : requests'[j] = requests[j + 1]
    BY <1>1, HeadTailProperties, LenProperties
  <1>6. i - 1 \in 1 .. Len(requests')
    BY <1>2, <1>3, <1>4, <1>5
  <1>7. requests'[i - 1] = "Lock"
    BY <1>2, <1>3, <1>5, <1>6
  <1> QED
    BY <1>5, <1>6, <1>7 DEF LockQueued

LEMMA LockPendingIs == LockPending <=> (ui = "send_lock" \/ LockQueued)
  BY DEF LockPending, LockQueued

\* What the GTK thread sends never removes a Lock from the queue.
LEMMA SendKeepsLock ==
  ASSUME requests \in Seq(Requests), NEW r \in Requests, Send(r),
         LockQueued \/ r = "Lock", wpc # "stopped"
  PROVE  LockQueued'
  BY AppendKeepsLock DEF Send

\* The GTK thread never takes a pending lock back.
LEMMA UiKeepsLock ==
  ASSUME TypeOK, UiInput \/ UiStep, LockPending, wpc # "stopped"
  PROVE  LockPending'
  <1> USE DEF TypeOK, UiThen, Handle
  <1>1. CASE requests' = requests /\ (ui = "send_lock" => ui' = "send_lock")
    <2>1. LockQueued => LockQueued'
      BY <1>1 DEF LockQueued
    <2> QED
      BY <1>1, <2>1, LockPendingIs DEF LockPending, LockQueued
  <1>2. ASSUME NEW r \in {"Unlock", "Reset", "Settings", "Clear", "Delete", "Pin"},
               UiRequest(r)
        PROVE  LockPending'
    <2>1. LockQueued /\ r \in Requests
      BY <1>2, LockPendingIs DEF UiRequest, Requests
    <2>2. LockQueued'
      BY <1>2, <2>1, SendKeepsLock DEF UiRequest
    <2> QED
      BY <2>2 DEF LockPending, LockQueued
  <1>3. ASSUME NEW i \in shelf, Restore(i) PROVE LockPending'
    <2>1. LockQueued /\ "Touch" \in Requests
      BY <1>3, LockPendingIs DEF Restore, Requests
    <2>2. LockQueued'
      BY <1>3, <2>1, SendKeepsLock DEF Restore
    <2> QED
      BY <2>2 DEF LockPending, LockQueued
  <1>4. CASE UiSend
    <2>1. {"Lock", "Unlock", "Stop"} \subseteq Requests
      BY DEF Requests
    <2>2. CASE ui = "send_lock"
      BY <1>4, <2>1, <2>2, SendKeepsLock DEF UiSend, LockPending, LockQueued
    <2>3. CASE ui # "send_lock"
      <3>1. LockQueued
        BY <2>3, LockPendingIs
      <3>2. LockQueued'
        BY <1>4, <2>1, <2>3, <3>1, SendKeepsLock DEF UiSend
      <3> QED
        BY <3>2 DEF LockPending, LockQueued
    <2> QED
      BY <2>2, <2>3
  <1>5. ASSUME NEW b \in BOOLEAN, Pause(b) \/ ScreenSignal(b) \/ ProbesDone(b)
        PROVE  LockPending'
    BY <1>1, <1>5 DEF Pause, ScreenSignal, ProbesDone
  <1>6. CASE KeyringLost \/ Stop \/ BackendFails \/ Refresh \/ StopPause \/ Poll
    BY <1>1, <1>6 DEF KeyringLost, Stop, BackendFails, Refresh, StopPause, Poll
  <1>7. CASE UiInvalidate \/ LockHistory \/ LockEpoch
    BY <1>1, <1>7 DEF UiInvalidate, LockHistory, LockEpoch
  <1> QED
    BY <1>2, <1>3, <1>4, <1>5, <1>6, <1>7 DEF UiInput, UiStep

LEMMA UiSafety ==
  ASSUME SafetyInv, UiInput \/ UiStep
  PROVE  SafetyInv'
  <1> USE DEF UiThen, Handle
  <1>1. TypeOK'
    BY UiType DEF SafetyInv
  <1>2. /\ UNCHANGED <<wdb, wpc, opening, readyAt>>
        /\ key_ready' => key_ready
        /\ sealed' = sealed \/ ui' = "send_lock"
    <2>1. ASSUME NEW b \in BOOLEAN, Pause(b) \/ ScreenSignal(b) \/ ProbesDone(b)
          PROVE  <1>2!:
      BY <2>1 DEF Pause, ScreenSignal, ProbesDone
    <2>2. CASE KeyringLost \/ Stop \/ BackendFails \/ Refresh \/ StopPause \/ Poll
      BY <2>2 DEF KeyringLost, Stop, BackendFails, Refresh, StopPause, Poll
    <2>3. CASE UiInvalidate \/ LockHistory \/ LockEpoch \/ UiSend
      BY <2>3 DEF UiInvalidate, LockHistory, LockEpoch, UiSend
    <2>4. ASSUME NEW r, UiRequest(r) PROVE <1>2!:
      BY <2>4 DEF UiRequest
    <2>5. ASSUME NEW i, Restore(i) PROVE <1>2!:
      BY <2>5 DEF Restore
    <2> QED
      BY <2>1, <2>2, <2>3, <2>4, <2>5 DEF UiInput, UiStep
  <1>3. LockPending /\ wpc # "stopped" => LockPending'
    BY UiKeepsLock DEF SafetyInv
  <1>4. ReadyHasWriter' /\ StoppedClosed'
    BY <1>2 DEF SafetyInv, ReadyHasWriter, StoppedClosed
  <1>5. StaleReadyPending' /\ ConfirmPending'
    BY <1>2, <1>3
       DEF SafetyInv, StaleReadyPending, ConfirmPending, StoppedClosed, LockPending
  <1>6. ShelfHidden'
    <2> USE DEF SafetyInv, ShelfHidden
    <2>1. ASSUME NEW b \in BOOLEAN, Pause(b) \/ ScreenSignal(b) \/ ProbesDone(b)
          PROVE  ShelfHidden'
      BY <2>1 DEF Pause, ScreenSignal, ProbesDone
    <2>2. CASE KeyringLost \/ Stop \/ BackendFails \/ Refresh \/ StopPause
      BY <2>2 DEF KeyringLost, Stop, BackendFails, Refresh, StopPause
    <2>3. CASE UiInvalidate \/ LockHistory \/ LockEpoch \/ UiSend
      BY <2>3 DEF UiInvalidate, LockHistory, LockEpoch, UiSend
    <2>4. ASSUME NEW r, UiRequest(r) PROVE ShelfHidden'
      BY <2>4 DEF UiRequest
    <2>5. ASSUME NEW i, Restore(i) PROVE ShelfHidden'
      BY <2>5 DEF Restore
    <2>6. CASE Poll
      BY <2>6 DEF Poll, ShowItems, PublishRestore, FollowChange
    <2> QED
      BY <2>1, <2>2, <2>3, <2>4, <2>5, <2>6 DEF UiInput, UiStep
  <1> QED
    BY <1>1, <1>4, <1>5, <1>6 DEF SafetyInv

\* A request other than Lock, taken by the writer, keeps a pending lock pending.
LEMMA WriterKeepsLock ==
  ASSUME TypeOK, Writer, ~WLock, LockPending
  PROVE  LockPending'
  <1>1. CASE ui = "send_lock"
    <2>1. ui' = ui
      BY DEF Writer, WStop, WLock, WClosed, WUnlock, WKey, WOpen, WCheck, WReady,
             WSettings, WApplySettings, WMark, WDelete, WClear, WFails
    <2> QED
      BY <1>1, <2>1 DEF LockPending
  <1>2. CASE LockQueued
    <2>1. CASE requests' = requests
      BY <1>2, <2>1 DEF LockQueued, LockPending
    <2>2. ASSUME NEW r, Take(r), r # "Lock" PROVE LockPending'
      BY <1>2, <2>2, TakeKeepsLock DEF TypeOK, LockPending, LockQueued
    <2>3. CASE WStop \/ WUnlock \/ WSettings \/ WMark \/ WDelete \/ WClear
      BY <2>2, <2>3 DEF WStop, WUnlock, WSettings, WMark, WDelete, WClear
    <2>4. CASE WClosed \/ WKey \/ WOpen \/ WCheck \/ WReady \/ WApplySettings \/ WFails
      BY <2>1, <2>4 DEF WClosed, WKey, WOpen, WCheck, WReady, WApplySettings, WFails
    <2> QED
      BY <2>3, <2>4 DEF Writer
  <1> QED
    BY <1>1, <1>2, LockPendingIs

LEMMA WriterSafety ==
  ASSUME SafetyInv, Writer
  PROVE  SafetyInv'
  <1>1. TypeOK'
    BY WriterType DEF SafetyInv
  <1>2. UNCHANGED <<ui, shelf, locked, sealed>>
    BY DEF Writer, WStop, WLock, WClosed, WUnlock, WKey, WOpen, WCheck, WReady,
           WSettings, WApplySettings, WMark, WDelete, WClear, WFails
  <1>3. ShelfHidden'
    BY <1>2 DEF SafetyInv, ShelfHidden
  <1>4. CASE WStop \/ WLock
    BY <1>1, <1>3, <1>4
       DEF SafetyInv, WStop, WLock, ReadyHasWriter, StoppedClosed,
           StaleReadyPending, ConfirmPending
  <1>5. CASE WReady
    <2>1. LockPending => LockPending'
      BY <1>5, WriterKeepsLock DEF SafetyInv, Writer, WReady, WLock, Take
    <2> QED
      BY <1>1, <1>2, <1>3, <1>5, <2>1
         DEF SafetyInv, WReady, ReadyHasWriter, StoppedClosed, StaleReadyPending,
             ConfirmPending
  <1>6. CASE WCheck
    <2>1. LockPending => LockPending'
      BY <1>6, WriterKeepsLock DEF SafetyInv, Writer, WCheck, WLock, Take
    <2>2. /\ UNCHANGED <<key_ready, wdb, readyAt, opening, epoch>>
          /\ wpc' = "confirm" => epoch = opening
          /\ wpc' # "stopped"
      <3>1. CASE ack = "ok" /\ cancelled
        BY <1>6, <3>1 DEF WCheck
      <3>2. CASE ack # "ok" \/ ~cancelled
        <4>1. ack = "failed" \/ ~cancelled
          BY <1>6, <3>2 DEF WCheck, SafetyInv, TypeOK
        <4> QED
          BY <1>6, <3>2, <4>1 DEF WCheck, cancelled
      <3> QED
        BY <3>1, <3>2
    <2>3. epoch = opening => ~(opening < sealed)
      BY DEF SafetyInv, TypeOK, GateTypeOK
    <2> QED
      BY <1>1, <1>2, <1>3, <2>1, <2>2, <2>3
         DEF SafetyInv, ReadyHasWriter, StoppedClosed, StaleReadyPending,
             ConfirmPending
  <1>7. CASE \/ WClosed \/ WUnlock \/ WKey \/ WOpen \/ WSettings
             \/ WApplySettings \/ WMark \/ WDelete \/ WClear \/ WFails
    <2>1. UNCHANGED <<key_ready, wdb, readyAt>> /\ wpc' \notin {"confirm", "stopped"}
      BY <1>7
         DEF WClosed, WUnlock, WKey, WOpen, WSettings, WApplySettings, WMark,
             WDelete, WClear, WFails, DatabaseEnds, Take, Refused
    <2>2. ~WLock
      BY <1>7
         DEF WLock, WClosed, WUnlock, WKey, WOpen, WSettings, WApplySettings, WMark,
             WDelete, WClear, WFails, Take
    <2>3. LockPending => LockPending'
      BY <2>2, WriterKeepsLock DEF SafetyInv
    <2> QED
      BY <1>1, <1>2, <1>3, <2>1, <2>3
         DEF SafetyInv, ReadyHasWriter, StoppedClosed, StaleReadyPending,
             ConfirmPending
  <1> QED
    BY <1>4, <1>5, <1>6, <1>7 DEF Writer

LEMMA StepSafety == SafetyInv /\ [Next]_vars => SafetyInv'
  <1> SUFFICES ASSUME SafetyInv, [Next]_vars PROVE SafetyInv'
    OBVIOUS
  <1>1. TypeOK'
    BY StepType DEF SafetyInv
  <1>2. ASSUME UNCHANGED <<gateVars, ui, shelf, sealed, requests, writerVars>>
        PROVE  SafetyInv'
    BY <1>1, <1>2
       DEF SafetyInv, ReadyHasWriter, StoppedClosed, StaleReadyPending,
           ConfirmPending, ShelfHidden, LockPending
  <1>3. CASE Reader \/ AtRest \/ UNCHANGED vars
    BY <1>2, <1>3 DEF Reader, AtRest
  <1> QED
    BY <1>3, UiSafety, WriterSafety DEF Next

LEMMA InitSafety == Init => SafetyInv
  BY InitType
     DEF Init, SafetyInv, ReadyHasWriter, StoppedClosed, StaleReadyPending,
         ConfirmPending, ShelfHidden

LEMMA SafetyInvariant == Spec => []SafetyInv
  BY InitSafety, StepSafety, PTL DEF Spec

\* While the gate says that history is open, the writer holds a database.
THEOREM OpenHistoryHasWriter == Spec => []ReadyHasWriter
  <1>1. SafetyInv => ReadyHasWriter
    BY DEF SafetyInv
  <1> QED
    BY <1>1, SafetyInvariant, PTL

\* An opening older than the last lock_history has the Lock that ends it behind
\* it in the queue.
THEOREM StaleOpeningEnds == Spec => []StaleReadyPending
  <1>1. SafetyInv => StaleReadyPending
    BY DEF SafetyInv
  <1> QED
    BY <1>1, SafetyInvariant, PTL

\* A locked session shows no item once its lock handler is through.
THEOREM LockedShelfEmpty == Spec => []ShelfHidden
  <1>1. SafetyInv => ShelfHidden
    BY DEF SafetyInv
  <1> QED
    BY <1>1, SafetyInvariant, PTL

LEMMA ClipGuarded ==
  TypeOK /\ [Next]_vars => [clip' # clip => ~locked /\ clip'.tag >= sealed]_vars
  <1> SUFFICES ASSUME TypeOK, Next, clip' # clip
               PROVE  ~locked /\ clip'.tag >= sealed
    OBVIOUS
  <1>1. UiInput => clip' = clip
    BY DEF UiInput, Pause, ScreenSignal, ProbesDone, KeyringLost, Stop, BackendFails,
           Refresh, UiRequest, Restore, UiThen
  <1>2. UiInvalidate \/ LockHistory \/ LockEpoch \/ UiSend \/ StopPause => clip' = clip
    BY DEF UiInvalidate, LockHistory, LockEpoch, UiSend, StopPause, UiThen
  <1>3. Writer => clip' = clip
    BY DEF Writer, WStop, WLock, WClosed, WUnlock, WKey, WOpen, WCheck, WReady,
           WSettings, WApplySettings, WMark, WDelete, WClear, WFails
  <1>4. Reader \/ AtRest => clip' = clip
    BY DEF Reader, AtRest
  <1>5. Poll
    BY <1>1, <1>2, <1>3, <1>4 DEF Next, UiStep
  <1>6. PublishRestore(Head(responses))
    BY <1>5 DEF Poll, ShowItems, FollowChange
  <1>7. ~locked /\ clip'.tag = epoch
    BY <1>6 DEF PublishRestore
  <1> QED
    BY <1>7 DEF TypeOK, GateTypeOK

\* A restore asked for before a lock never reaches the clipboard after it.
THEOREM NoRestoreAcrossLock == Spec => RestoreNotAcrossLock
  BY ClipGuarded, TypeCorrect, PTL DEF Spec, RestoreNotAcrossLock
-----------------------------------------------------------------------------
(***************************************************************************)
(* The writer and the reader: whatever fails, the writer asks the reader   *)
(* one thing at a time, and its question cannot get lost.                  *)
(***************************************************************************)
Asks(read) == read.op \in {"Open", "Close"}

\* The writer is in close_reader or at reader_open, before the answer.
Waiting == wpc \in {"reader_open", "closing", "resetting", "cancelling"} /\ ack = "none"

Dialogue ==
  /\ \A i \in DOMAIN reads :
       /\ reads[i].op = "Open" => wpc = "reader_open" /\ ack = "none"
       /\ reads[i].op = "Close" => wpc \in {"closing", "resetting", "cancelling"} /\ ack = "none"
       /\ reads[i].op = "Stop" => wpc = "stopped"
  /\ \A i, j \in DOMAIN reads : Asks(reads[i]) /\ Asks(reads[j]) => i = j
  /\ Waiting => \E i \in DOMAIN reads : Asks(reads[i])
  /\ wpc = "reader_open" /\ ack = "ok" => rdb = "open"
  /\ wpc = "confirm" => rdb = "open"
  /\ rdb = "stopped" => wpc = "stopped"
  /\ wpc \in {"closing", "resetting", "stopped"} => ~key_ready

\* A message at the end of a channel, and one taken from it.
LEMMA AppendAt ==
  ASSUME NEW T, NEW s \in Seq(T), NEW e \in T
  PROVE  /\ Len(s) \in Nat /\ DOMAIN s = 1..Len(s)
         /\ DOMAIN Append(s, e) = 1..(Len(s) + 1)
         /\ \A i \in DOMAIN s : i \in DOMAIN Append(s, e) /\ Append(s, e)[i] = s[i]
         /\ Len(s) + 1 \in DOMAIN Append(s, e) /\ Append(s, e)[Len(s) + 1] = e
         /\ \A i \in DOMAIN Append(s, e) : i \in DOMAIN s \/ i = Len(s) + 1
  <1>1. Len(s) \in Nat /\ DOMAIN s = 1..Len(s)
    BY LenProperties
  <1>2. /\ Append(s, e) \in Seq(T) /\ Len(Append(s, e)) = Len(s) + 1
        /\ \A i \in 1..Len(s) : Append(s, e)[i] = s[i]
        /\ Append(s, e)[Len(s) + 1] = e
    BY AppendProperties
  <1>3. DOMAIN Append(s, e) = 1..(Len(s) + 1)
    BY <1>2, LenProperties
  <1> QED
    BY <1>1, <1>2, <1>3

LEMMA TailAt ==
  ASSUME NEW T, NEW s \in Seq(T), s # <<>>
  PROVE  /\ 1 \in DOMAIN s /\ Head(s) = s[1] /\ Head(s) \in T
         /\ \A i \in DOMAIN Tail(s) : i \in Nat /\ i + 1 \in DOMAIN s /\ Tail(s)[i] = s[i + 1]
         /\ \A i \in DOMAIN s : i = 1 \/ (i - 1 \in DOMAIN Tail(s) /\ Tail(s)[i - 1] = s[i])
         /\ DOMAIN s \subseteq Nat
  <1>1. /\ Len(s) \in Nat /\ DOMAIN s = 1..Len(s) /\ Head(s) = s[1] /\ Head(s) \in T
        /\ Len(s) # 0
    BY LenProperties, HeadTailProperties, EmptySeq
  <1>2. /\ Tail(s) \in Seq(T) /\ Len(Tail(s)) = Len(s) - 1
        /\ \A i \in 1..Len(Tail(s)) : Tail(s)[i] = s[i + 1]
    BY HeadTailProperties
  <1>3. DOMAIN Tail(s) = 1..(Len(s) - 1)
    BY <1>2, LenProperties
  <1> QED
    BY <1>1, <1>2, <1>3

LEMMA AskAt ==
  ASSUME TypeOK, NEW o \in {"Open", "Close", "Stop"}, reads' = Append(reads, [op |-> o])
  PROVE  /\ \A i \in DOMAIN reads : i \in DOMAIN reads' /\ reads'[i] = reads[i]
         /\ \A i \in DOMAIN reads' :
              \/ i \in DOMAIN reads /\ reads'[i] = reads[i]
              \/ i = Len(reads) + 1 /\ reads'[i].op = o
  <1> DEFINE e == [op |-> o]
  <1>1. e \in Reads /\ e.op = o /\ reads \in Seq(Reads) /\ reads' = Append(reads, e)
    BY DEF Reads, TypeOK
  <1> HIDE DEF e
  <1> QED
    BY <1>1, AppendAt

\* Nothing is asked, and nothing was.
LEMMA SilentDialogue ==
  ASSUME Dialogue, ~Waiting, wpc # "stopped", reads' = reads, rdb' = rdb,
         wpc' \notin {"reader_open", "closing", "resetting", "cancelling", "stopped"},
         wpc' = "confirm" => rdb = "open"
  PROVE  Dialogue'
  BY DEF Dialogue, Waiting, Asks

\* Something is asked, of a reader that runs.
LEMMA AskDialogue ==
  ASSUME TypeOK, Dialogue, ~Waiting, wpc # "stopped", rdb' = rdb,
         NEW o \in {"Open", "Close", "Stop"}, reads' = Append(reads, [op |-> o]),
         o = "Open" => wpc' = "reader_open" /\ ack' = "none",
         o = "Close" => wpc' \in {"closing", "resetting", "cancelling"} /\ ack' = "none",
         o = "Stop" => wpc' = "stopped",
         wpc' \in {"closing", "resetting", "stopped"} => ~key_ready'
  PROVE  Dialogue'
  <1>1. \A i \in DOMAIN reads : reads[i].op \notin {"Open", "Close", "Stop"}
    BY DEF Dialogue, Waiting
  <1>2. /\ \A i \in DOMAIN reads' :
             \/ i \in DOMAIN reads /\ reads'[i] = reads[i]
             \/ i = Len(reads) + 1 /\ reads'[i].op = o
        /\ Len(reads) + 1 \in DOMAIN reads' /\ reads'[Len(reads) + 1].op = o
    BY AskAt
  <1> QED
    BY <1>1, <1>2 DEF Dialogue, Waiting, Asks

LEMMA UiDialogue ==
  ASSUME TypeOK, Dialogue, UiInput \/ UiStep
  PROVE  Dialogue'
  <1> USE DEF UiThen, Handle
  <1>1. UNCHANGED <<wpc, ack, rdb>> /\ (key_ready' => key_ready)
    <2>1. CASE UiInput
      <3>1. ASSUME NEW b \in BOOLEAN, Pause(b) \/ ScreenSignal(b) \/ ProbesDone(b)
            PROVE  UNCHANGED <<wpc, ack, rdb>> /\ key_ready' = key_ready
        BY <3>1 DEF Pause, ScreenSignal, ProbesDone
      <3>2. KeyringLost \/ Stop \/ BackendFails \/ Refresh
              => UNCHANGED <<wpc, ack, rdb>> /\ key_ready' = key_ready
        BY DEF KeyringLost, Stop, BackendFails, Refresh
      <3>3. ASSUME NEW r, UiRequest(r)
            PROVE  UNCHANGED <<wpc, ack, rdb>> /\ key_ready' = key_ready
        BY <3>3 DEF UiRequest
      <3>4. ASSUME NEW i, Restore(i)
            PROVE  UNCHANGED <<wpc, ack, rdb>> /\ key_ready' = key_ready
        BY <3>4 DEF Restore
      <3> QED
        BY <2>1, <3>1, <3>2, <3>3, <3>4 DEF UiInput
    <2>2. CASE UiInvalidate \/ LockHistory \/ LockEpoch \/ UiSend \/ StopPause
      BY <2>2 DEF UiInvalidate, LockHistory, LockEpoch, UiSend, StopPause
    <2>3. CASE Poll
      BY <2>3 DEF Poll, ShowItems, PublishRestore, FollowChange
    <2> QED
      BY <2>1, <2>2, <2>3 DEF UiStep
  <1>2. CASE reads' = reads
    BY <1>1, <1>2 DEF Dialogue, Waiting, Asks
  <1>3. ASSUME NEW e \in Reads, e.op \in {"Search", "Restore"}, reads' = Append(reads, e)
        PROVE  Dialogue'
    <2>1. reads \in Seq(Reads)
      BY DEF TypeOK
    <2>2. /\ \A i \in DOMAIN reads : i \in DOMAIN reads' /\ reads'[i] = reads[i]
          /\ \A i \in DOMAIN reads' :
               \/ i \in DOMAIN reads /\ reads'[i] = reads[i]
               \/ reads'[i] = e
      BY <1>3, <2>1, AppendAt
    <2> QED
      BY <1>1, <1>3, <2>2 DEF Dialogue, Waiting, Asks
  <1>4. ASSUME search PROVE Dialogue'
    <2>1. /\ [op |-> "Search", tag |-> serial'] \in Reads
          /\ [op |-> "Search", tag |-> serial'].op \in {"Search", "Restore"}
      BY <1>4 DEF search, Reads, TypeOK
    <2> QED
      BY <1>2, <1>3, <1>4, <2>1 DEF search, Read
  <1>5. ASSUME NEW i \in shelf, Restore(i) PROVE Dialogue'
    <2>1. /\ [op |-> "Restore", tag |-> epoch, item |-> i] \in Reads
          /\ [op |-> "Restore", tag |-> epoch, item |-> i].op \in {"Search", "Restore"}
      BY DEF Reads, TypeOK, GateTypeOK
    <2> QED
      BY <1>2, <1>3, <1>5, <2>1 DEF Restore, Read
  <1>6. CASE Poll
    BY <1>2, <1>4, <1>6 DEF Poll, ShowItems, PublishRestore, FollowChange
  <1>7. CASE \/ \E b \in BOOLEAN : Pause(b) \/ ScreenSignal(b) \/ ProbesDone(b)
             \/ KeyringLost \/ Stop \/ BackendFails \/ Refresh
             \/ \E r \in {"Unlock", "Reset", "Settings", "Clear", "Delete", "Pin"} :
                  UiRequest(r)
    BY <1>2, <1>4, <1>7
       DEF Pause, ScreenSignal, ProbesDone, KeyringLost, Stop, BackendFails, Refresh, UiRequest
  <1>8. CASE UiInvalidate \/ LockHistory \/ LockEpoch \/ UiSend \/ StopPause
    BY <1>2, <1>8 DEF UiInvalidate, LockHistory, LockEpoch, UiSend, StopPause
  <1> QED
    BY <1>5, <1>6, <1>7, <1>8 DEF UiInput, UiStep

LEMMA WriterDialogue ==
  ASSUME TypeOK, Dialogue, Writer
  PROVE  Dialogue'
  <1> USE DEF DatabaseEnds, Refused
  <1>1. CASE WStop
    BY <1>1, AskDialogue DEF WStop, Take, Waiting
  <1>2. CASE WLock
    BY <1>2, AskDialogue DEF WLock, Take, Ask, Waiting
  <1>3. CASE WOpen
    <2>1. wpc = "open" /\ rdb' = rdb
      BY <1>3 DEF WOpen, Ask
    <2>2. \/ wpc' = "reader_open" /\ reads' = Append(reads, [op |-> "Open"]) /\ ack' = "none"
          \/ wpc' \in {"failing", "idle"} /\ reads' = reads
      BY <1>3 DEF WOpen, Ask
    <2> QED
      BY <2>1, <2>2, AskDialogue, SilentDialogue DEF Waiting
  <1>4. CASE WCheck
    <2>1. wpc = "reader_open" /\ ack # "none" /\ rdb' = rdb /\ ack \in {"ok", "failed"}
      BY <1>4 DEF WCheck, Ask, TypeOK
    <2>2. \/ wpc' = "cancelling" /\ reads' = Append(reads, [op |-> "Close"]) /\ ack' = "none"
          \/ wpc' = "failing" /\ reads' = reads
          \/ wpc' = "confirm" /\ reads' = reads /\ ack = "ok"
      BY <1>4, <2>1 DEF WCheck, Ask
    <2>3. ack = "ok" => rdb = "open"
      BY <2>1 DEF Dialogue
    <2> QED
      BY <2>1, <2>2, <2>3, AskDialogue, SilentDialogue DEF Waiting
  <1>5. CASE WClosed
    BY <1>5, SilentDialogue DEF WClosed, Waiting
  <1>6. CASE WReady
    BY <1>6, SilentDialogue DEF WReady, Waiting
  <1>7. CASE WUnlock \/ WKey \/ WSettings \/ WApplySettings \/ WMark \/ WFails
    BY <1>7, SilentDialogue
       DEF WUnlock, WKey, WSettings, WApplySettings, WMark, WFails, Take, Waiting
  <1>8. CASE WDelete \/ WClear
    BY <1>8, SilentDialogue DEF WDelete, WClear, Take, Waiting
  <1> QED
    BY <1>1, <1>2, <1>3, <1>4, <1>5, <1>6, <1>7, <1>8 DEF Writer

LEMMA ReaderDialogue ==
  ASSUME TypeOK, Dialogue, Reader
  PROVE  Dialogue'
  <1>1. /\ reads # <<>> /\ reads' = Tail(reads) /\ rdb # "stopped" /\ reads \in Seq(Reads)
        /\ UNCHANGED <<wpc, key_ready>>
    BY DEF Reader, NextRead, ROpen, RClose, RStop, RSearch, RRestore, TypeOK
  <1>2. /\ Head(reads) = reads[1] /\ 1 \in DOMAIN reads
        /\ \A i \in DOMAIN reads' :
             i \in Nat /\ i + 1 \in DOMAIN reads /\ reads'[i] = reads[i + 1]
        /\ \A i \in DOMAIN reads :
             i = 1 \/ (i - 1 \in DOMAIN reads' /\ reads'[i - 1] = reads[i])
    BY <1>1, TailAt
  <1>3. \A i, j \in DOMAIN reads' : Asks(reads'[i]) /\ Asks(reads'[j]) => i = j
    <2>1. \A i, j \in Nat : i + 1 = j + 1 => i = j
      OBVIOUS
    <2> QED
      BY <1>2, <2>1 DEF Dialogue
  <1>4. ASSUME Head(reads).op \in {"Open", "Close"}, ack' # "none", rdb' # "stopped",
               wpc = "reader_open" /\ ack' = "ok" => rdb' = "open"
        PROVE  Dialogue'
    <2>1. wpc \in {"reader_open", "closing", "resetting", "cancelling"}
      BY <1>2, <1>4 DEF Dialogue
    <2>2. \A i \in DOMAIN reads' : ~Asks(reads'[i]) /\ reads'[i].op # "Stop"
      <3>1. \A i \in DOMAIN reads' : i + 1 # 1
        <4>1. Tail(reads) \in Seq(Reads)
          BY <1>1, HeadTailProperties
        <4>2. DOMAIN reads' = 1..Len(reads') /\ Len(reads') \in Nat
          BY <1>1, <4>1, LenProperties
        <4> QED
          BY <4>2
      <3> QED
        BY <1>2, <1>4, <2>1, <3>1 DEF Dialogue, Asks
    <2> QED
      BY <1>1, <1>3, <1>4, <2>1, <2>2 DEF Dialogue, Waiting, Asks
  <1>5. CASE ROpen
    BY <1>4, <1>5 DEF ROpen, NextRead, Dialogue
  <1>6. CASE RClose
    <2>1. wpc # "reader_open"
      BY <1>2, <1>6 DEF RClose, NextRead, Dialogue
    <2> QED
      BY <1>4, <1>6, <2>1 DEF RClose, NextRead
  <1>7. CASE RStop
    <2>1. wpc = "stopped" /\ rdb' = "stopped" /\ ack' = ack
      BY <1>2, <1>7 DEF RStop, NextRead, Dialogue
    <2> QED
      BY <1>1, <1>2, <1>3, <2>1 DEF Dialogue, Waiting
  <1>8. CASE RSearch \/ RRestore
    <2>1. UNCHANGED <<rdb, ack>> /\ ~Asks(Head(reads))
      BY <1>8 DEF RSearch, RRestore, NextRead, Asks
    <2>2. Waiting' => \E i \in DOMAIN reads' : Asks(reads'[i])
      BY <1>1, <1>2, <2>1 DEF Dialogue, Waiting
    <2> QED
      BY <1>1, <1>2, <1>3, <2>1, <2>2 DEF Dialogue
  <1> QED
    BY <1>5, <1>6, <1>7, <1>8 DEF Reader

LEMMA InitDialogue == Init => Dialogue
  <1>1. Init => DOMAIN reads = {}
    BY DEF Init
  <1> QED
    BY <1>1 DEF Init, Dialogue, Waiting

LEMMA StepDialogue == TypeOK /\ Dialogue /\ [Next]_vars => Dialogue'
  <1> SUFFICES ASSUME TypeOK, Dialogue, [Next]_vars PROVE Dialogue'
    OBVIOUS
  <1>1. CASE AtRest \/ UNCHANGED vars
    BY <1>1 DEF AtRest, Dialogue, Waiting, Asks
  <1> QED
    BY <1>1, UiDialogue, WriterDialogue, ReaderDialogue DEF Next

\* The writer never waits for an answer that cannot come: while it waits its question is
\* in the channel of a reader that runs, with nothing before it that would stop it.
THEOREM AnswerIsDue ==
  Spec => [](Waiting => /\ rdb # "stopped"
                        /\ \E i \in DOMAIN reads : Asks(reads[i])
                        /\ \A i \in DOMAIN reads : reads[i].op # "Stop")
  <1>1. Dialogue => (Waiting => /\ rdb # "stopped"
                                /\ \E i \in DOMAIN reads : Asks(reads[i])
                                /\ \A i \in DOMAIN reads : reads[i].op # "Stop")
    BY DEF Dialogue, Waiting
  <1> QED
    BY <1>1, InitDialogue, StepDialogue, TypeCorrect, PTL DEF Spec
-----------------------------------------------------------------------------
(***************************************************************************)
(* The shelf follows the history, in a session in which no operation fails *)
(* and the user does not pause: a pause cancels an Unlock that nothing     *)
(* repeats, and a failed operation announces no change.                    *)
(***************************************************************************)
Smooth == "Pause" \notin Inputs /\ Failures \subseteq {"clipboard"}

Finds(read, n) == read.op = "Search" /\ read.tag = n
Pages(answer, n) == answer.op = "Items" /\ answer.tag = n

\* The writer carries out an Unlock.
InUnlock == wpc \in {"key", "open", "reader_open", "confirm"}

\* The writer will get a request that closes history, or one that opens it anew.
Ahead == ui # "idle" \/ \E i \in DOMAIN requests : requests[i] \in {"Lock", "Unlock", "Stop"}

Undisturbed == ui # "pause" /\ wpc # "failing" /\ ack # "failed"

\* The last search is asked once, and not answered before.
Counted ==
  /\ \A i \in DOMAIN reads : reads[i].op = "Search" => reads[i].tag <= serial
  /\ \A i \in DOMAIN responses : responses[i].op = "Items" => responses[i].tag <= serial
  /\ \A i, j \in DOMAIN reads : Finds(reads[i], serial) /\ Finds(reads[j], serial) => i = j
  /\ \A i \in DOMAIN reads, j \in DOMAIN responses :
       ~(Finds(reads[i], serial) /\ Pages(responses[j], serial))

\* An Unlock is outdated only by what brings another request.
Followed == InUnlock /\ epoch # opening => Ahead
Cancelled == wpc = "cancelling" /\ key_ready /\ ~locked => Ahead

\* The shelf shows the history, or a page of it or a search for it is on the way.
InSight ==
  /\ rdb = "open"
  /\ \/ \E i \in DOMAIN responses : responses[i].op = "Changed"
     \/ \E i \in DOMAIN reads : Finds(reads[i], serial)
     \/ /\ \A i \in DOMAIN responses :
             Pages(responses[i], serial) => responses[i].items = history
        /\ shelf = history \/ \E i \in DOMAIN responses : Pages(responses[i], serial)
ShelfFollows == key_ready /\ ~locked => Ahead \/ InUnlock \/ InSight

Converging == Undisturbed /\ Counted /\ Followed /\ Cancelled /\ ShelfFollows
ShelfInv   == TypeOK /\ Dialogue /\ Converging

\* What lies ahead stays there while the writer takes something else.
LEMMA AheadGrows ==
  ASSUME TypeOK, NEW r \in Requests, Send(r), wpc # "stopped"
  PROVE  /\ (\E i \in DOMAIN requests : requests[i] \in {"Lock", "Unlock", "Stop"})
              => (\E i \in DOMAIN requests' : requests'[i] \in {"Lock", "Unlock", "Stop"})
         /\ r \in {"Lock", "Unlock", "Stop"}
              => (\E i \in DOMAIN requests' : requests'[i] \in {"Lock", "Unlock", "Stop"})
  <1>1. requests' = Append(requests, r) /\ requests \in Seq(Requests)
    BY DEF Send, TypeOK
  <1> QED
    BY <1>1, AppendAt

LEMMA AheadStays ==
  ASSUME TypeOK, NEW r, Take(r), r \notin {"Lock", "Unlock", "Stop"}, ui' = ui, Ahead
  PROVE  Ahead'
  <1>1. /\ requests # <<>> /\ Head(requests) = r /\ requests' = Tail(requests)
        /\ requests \in Seq(Requests)
    BY DEF Take, TypeOK
  <1>2. /\ Head(requests) = requests[1]
        /\ \A i \in DOMAIN requests :
             i = 1 \/ (i - 1 \in DOMAIN requests' /\ requests'[i - 1] = requests[i])
    BY <1>1, TailAt
  <1> QED
    BY <1>1, <1>2 DEF Ahead

\* The GTK thread changes the gate, and a request follows.
LEMMA GateStep ==
  ASSUME ShelfInv, Ahead', ui' # "pause", key_ready' => key_ready,
         UNCHANGED <<reads, responses, serial, wpc, ack, rdb>>
  PROVE  Converging'
  <1>1. Undisturbed' /\ Counted'
    BY DEF ShelfInv, Converging, Undisturbed, Counted, Finds, Pages
  <1>2. Followed' /\ Cancelled' /\ ShelfFollows'
    BY DEF Followed, Cancelled, ShelfFollows
  <1> QED
    BY <1>1, <1>2 DEF Converging

\* A request is sent that changes nothing yet.
LEMMA IdleStep ==
  ASSUME ShelfInv, wpc = "stopped" \/ (Ahead => Ahead'), ui' # "pause",
         UNCHANGED <<responses, serial, shelf, history, wpc, ack, rdb, key_ready, locked,
                     epoch, opening, reads>>
  PROVE  Converging'
  <1>1. Undisturbed' /\ Counted'
    BY DEF ShelfInv, Converging, Undisturbed, Counted, Finds, Pages
  <1>2. Followed' /\ Cancelled'
    BY DEF ShelfInv, Converging, Followed, Cancelled, InUnlock
  <1>3. InSight => InSight'
    BY DEF InSight, Finds, Pages
  <1>4. ShelfFollows'
    BY <1>3 DEF ShelfInv, Converging, ShelfFollows, InUnlock, Dialogue
  <1> QED
    BY <1>1, <1>2, <1>4 DEF Converging

\* A restore is sent.
LEMMA RestoreStep ==
  ASSUME ShelfInv, NEW i \in shelf, Restore(i)
  PROVE  Converging'
  <1> DEFINE e == [op |-> "Restore", tag |-> epoch, item |-> i]
  <1>1. e \in Reads /\ reads \in Seq(Reads) /\ e.op = "Restore" /\ "Touch" \in Requests
    BY DEF ShelfInv, TypeOK, GateTypeOK, Reads, Requests
  <1>2. /\ reads' = (IF rdb = "stopped" THEN reads ELSE Append(reads, e)) /\ Send("Touch")
        /\ UNCHANGED <<responses, serial, shelf, history, wpc, ack, rdb, key_ready,
                       locked, epoch, opening, ui>>
    BY DEF Restore, Read
  <1> HIDE DEF e
  <1>3. wpc = "stopped" \/ (Ahead => Ahead')
    BY <1>1, <1>2, AheadGrows DEF ShelfInv, Ahead
  <1>4. CASE rdb = "stopped"
    BY <1>2, <1>3, <1>4, IdleStep DEF ShelfInv, Converging, Undisturbed
  <1>5. CASE reads' = Append(reads, e)
    <2>1. /\ \A k \in DOMAIN reads : k \in DOMAIN reads' /\ reads'[k] = reads[k]
          /\ \A k \in DOMAIN reads' : k \in DOMAIN reads \/ reads'[k] = e
      BY <1>1, <1>5, AppendAt
    <2>2. Undisturbed'
      BY <1>2 DEF ShelfInv, Converging, Undisturbed
    <2>4. Counted'
      BY <1>1, <1>2, <2>1 DEF ShelfInv, Converging, Counted, Finds, Pages
    <2>5. Followed' /\ Cancelled'
      BY <1>2, <1>3 DEF ShelfInv, Converging, Followed, Cancelled, InUnlock
    <2>6. InSight => InSight'
      BY <1>2, <2>1 DEF InSight, Finds, Pages
    <2>7. ShelfFollows'
      BY <1>2, <1>3, <2>6 DEF ShelfInv, Converging, ShelfFollows, InUnlock, Dialogue
    <2> QED
      BY <2>2, <2>4, <2>5, <2>7 DEF Converging
  <1> QED
    BY <1>2, <1>4, <1>5

\* A new search outdates the pages on the way.
LEMMA SearchStep ==
  ASSUME ShelfInv, search,
         \A i \in DOMAIN responses' : \E j \in DOMAIN responses : responses'[i] = responses[j],
         UNCHANGED <<shelf, history, wpc, ack, rdb, key_ready, locked, epoch, opening, ui,
                     requests>>
  PROVE  Converging'
  <1> DEFINE e == [op |-> "Search", tag |-> serial']
  <1>1. /\ e \in Reads /\ reads \in Seq(Reads) /\ e.op = "Search" /\ e.tag = serial'
        /\ serial \in Nat /\ serial' = serial + 1
    BY DEF ShelfInv, TypeOK, Reads, search
  <1>2. \A j \in DOMAIN responses : responses[j].op = "Items" => responses[j].tag \in Nat
    <2>1. \A j \in DOMAIN responses : responses[j] \in Responses
      BY ElementOfSeq, LenProperties DEF ShelfInv, TypeOK
    <2> QED
      BY <2>1 DEF Responses
  <1>3. \A j \in DOMAIN reads : reads[j].op = "Search" => reads[j].tag \in Nat
    <2>1. \A j \in DOMAIN reads : reads[j] \in Reads
      BY ElementOfSeq, LenProperties DEF ShelfInv, TypeOK
    <2> QED
      BY <2>1 DEF Reads
  <1>4. reads' = IF rdb = "stopped" THEN reads ELSE Append(reads, e)
    BY DEF search, Read
  <1> HIDE DEF e
  <1>5. /\ \A k \in DOMAIN reads : k \in DOMAIN reads' /\ reads'[k] = reads[k]
        /\ \A k \in DOMAIN reads' :
             (k \in DOMAIN reads /\ reads'[k] = reads[k]) \/ (k = Len(reads) + 1 /\ reads'[k] = e)
        /\ rdb = "stopped" \/ (Len(reads) + 1 \in DOMAIN reads' /\ reads'[Len(reads) + 1] = e)
    BY <1>1, <1>4, AppendAt
  <1>6. Undisturbed'
    BY DEF ShelfInv, Converging, Undisturbed
  <1>8. \A k \in DOMAIN responses' : responses'[k].op = "Items" => responses'[k].tag < serial'
    BY <1>1, <1>2 DEF ShelfInv, Converging, Counted
  <1>9. \A k \in DOMAIN reads : reads[k].op = "Search" => reads[k].tag < serial'
    BY <1>1, <1>3 DEF ShelfInv, Converging, Counted
  <1>10. Counted'
    <2>1. /\ \A k \in DOMAIN reads' : reads'[k].op = "Search" => reads'[k].tag <= serial'
          /\ \A k, l \in DOMAIN reads' :
               Finds(reads'[k], serial') /\ Finds(reads'[l], serial') => k = l
      BY <1>1, <1>3, <1>5, <1>9 DEF Finds
    <2>2. /\ \A k \in DOMAIN responses' :
               responses'[k].op = "Items" => responses'[k].tag <= serial'
          /\ \A k \in DOMAIN responses' : ~Pages(responses'[k], serial')
      BY <1>1, <1>2, <1>8 DEF Pages
    <2> QED
      BY <2>1, <2>2 DEF Counted
  <1>11. Followed' /\ Cancelled'
    BY DEF ShelfInv, Converging, Followed, Cancelled, InUnlock, Ahead
  <1>12. InSight => InSight'
    BY <1>1, <1>5 DEF InSight, Finds
  <1>13. ShelfFollows'
    BY <1>12 DEF ShelfInv, Converging, ShelfFollows, InUnlock, Ahead
  <1> QED
    BY <1>6, <1>10, <1>11, <1>13 DEF Converging

\* A page that is taken is shown if it is still wanted, and anything else is not one.
LEMMA PollStep ==
  ASSUME ShelfInv, Poll
  PROVE  Converging'
  <1> DEFINE r == Head(responses)
  <1>1. /\ responses # <<>> /\ responses' = Tail(responses) /\ responses \in Seq(Responses)
        /\ ShowItems(r) \/ PublishRestore(r) \/ FollowChange(r)
        /\ UNCHANGED <<ui, key_ready, locked, epoch, requests, wpc, opening, history, rdb, ack>>
    BY DEF Poll, ShelfInv, TypeOK
  <1>2. /\ r = responses[1] /\ 1 \in DOMAIN responses
        /\ \A i \in DOMAIN responses' :
             i + 1 \in DOMAIN responses /\ responses'[i] = responses[i + 1]
        /\ \A i \in DOMAIN responses :
             i = 1 \/ (i - 1 \in DOMAIN responses' /\ responses'[i - 1] = responses[i])
    BY <1>1, TailAt
  <1> HIDE DEF r
  <1>3. \A i \in DOMAIN responses' : \E j \in DOMAIN responses : responses'[i] = responses[j]
    BY <1>2
  <1>4. CASE FollowChange(r)
    BY <1>1, <1>3, <1>4, SearchStep DEF FollowChange
  <1>5. CASE ShowItems(r) \/ PublishRestore(r)
    <2>1. UNCHANGED <<reads, serial>>
      BY <1>5 DEF ShowItems, PublishRestore
    <2>2. Undisturbed'
      BY <1>1, <2>1 DEF ShelfInv, Converging, Undisturbed
    <2>3. Counted'
      BY <1>3, <2>1 DEF ShelfInv, Converging, Counted, Finds, Pages
    <2>4. Followed' /\ Cancelled'
      BY <1>1 DEF ShelfInv, Converging, Followed, Cancelled, InUnlock, Ahead
    <2>5. ASSUME key_ready, ~locked, InSight PROVE InSight'
      <3>1. CASE \E i \in DOMAIN responses : responses[i].op = "Changed"
        <4>1. r.op # "Changed"
          BY <1>5 DEF ShowItems, PublishRestore
        <4>2. \E i \in DOMAIN responses' : responses'[i].op = "Changed"
          BY <1>2, <3>1, <4>1
        <4> QED
          BY <1>1, <2>5, <4>2 DEF InSight
      <3>2. CASE \E i \in DOMAIN reads : Finds(reads[i], serial)
        BY <1>1, <2>1, <2>5, <3>2 DEF InSight, Finds
      <3>3. CASE /\ \A i \in DOMAIN responses :
                      Pages(responses[i], serial) => responses[i].items = history
                 /\ shelf = history \/ \E i \in DOMAIN responses : Pages(responses[i], serial)
        <4>1. \A i \in DOMAIN responses' :
                Pages(responses'[i], serial) => responses'[i].items = history
          BY <1>3, <3>3
        <4>2. CASE Pages(r, serial)
          <5>1. shelf' = r.items /\ r.items = history
            BY <1>2, <1>5, <2>5, <3>3, <4>2 DEF ShowItems, PublishRestore, Pages
          <5> QED
            BY <1>1, <2>1, <2>5, <4>1, <5>1 DEF InSight, Pages
        <4>3. CASE ~Pages(r, serial)
          <5>1. shelf' = shelf
            BY <1>5, <4>3 DEF ShowItems, PublishRestore, Pages
          <5>2. (\E i \in DOMAIN responses : Pages(responses[i], serial))
                  => (\E i \in DOMAIN responses' : Pages(responses'[i], serial))
            BY <1>2, <4>3
          <5> QED
            BY <1>1, <2>1, <2>5, <3>3, <4>1, <5>1, <5>2 DEF InSight, Pages
        <4> QED
          BY <4>2, <4>3
      <3> QED
        BY <2>5, <3>1, <3>2, <3>3 DEF InSight
    <2>6. ShelfFollows'
      BY <1>1, <2>5 DEF ShelfInv, Converging, ShelfFollows, InUnlock, Ahead
    <2> QED
      BY <2>2, <2>3, <2>4, <2>6 DEF Converging
  <1> QED
    BY <1>1, <1>4, <1>5

LEMMA UiConverges ==
  ASSUME Smooth, ShelfInv, UiInput \/ UiStep
  PROVE  Converging'
  <1> USE DEF Handle, UiThen
  <1>1. ASSUME NEW b \in BOOLEAN, ScreenSignal(b) \/ ProbesDone(b) PROVE Converging'
    <2>1. ui' # "idle" /\ ui' # "pause"
      BY <1>1 DEF ScreenSignal, ProbesDone
    <2>2. key_ready' = key_ready /\ UNCHANGED <<reads, responses, serial, wpc, ack, rdb>>
      BY <1>1 DEF ScreenSignal, ProbesDone
    <2> QED
      BY <2>1, <2>2, GateStep DEF Ahead
  <1>2. CASE KeyringLost \/ Stop \/ StopPause \/ UiInvalidate \/ LockHistory \/ LockEpoch
    <2>1. ui' # "idle" /\ ui' # "pause"
      BY <1>2
         DEF KeyringLost, Stop, StopPause, UiInvalidate, LockHistory, LockEpoch, ShelfInv,
             Converging, Undisturbed
    <2>2. key_ready' => key_ready
      BY <1>2 DEF KeyringLost, Stop, StopPause, UiInvalidate, LockHistory, LockEpoch
    <2>3. UNCHANGED <<reads, responses, serial, wpc, ack, rdb>>
      BY <1>2 DEF KeyringLost, Stop, StopPause, UiInvalidate, LockHistory, LockEpoch
    <2> QED
      BY <2>1, <2>2, <2>3, GateStep DEF Ahead
  <1>3. CASE UiSend
    <2>1. PICK r \in {"Lock", "Unlock", "Stop"} : Send(r)
      BY <1>3 DEF UiSend
    <2>2. r \in Requests
      BY DEF Requests
    <2>3. wpc = "stopped" \/ Ahead'
      BY <2>1, <2>2, AheadGrows DEF Ahead, ShelfInv
    <2>4. ui' # "pause"
      BY <1>3 DEF UiSend
    <2>5. UNCHANGED <<responses, serial, shelf, history, wpc, ack, rdb, key_ready, locked,
                      epoch, opening, reads>>
      BY <1>3 DEF UiSend
    <2> QED
      BY <2>3, <2>4, <2>5, IdleStep
  <1>4. ASSUME NEW r \in {"Unlock", "Reset", "Settings", "Clear", "Delete", "Pin"},
               UiRequest(r)
        PROVE  Converging'
    <2>1. r \in Requests /\ Send(r) /\ ui' = ui /\ ui = "idle"
      BY <1>4 DEF UiRequest, Requests
    <2>2. wpc = "stopped" \/ (Ahead => Ahead')
      BY <2>1, AheadGrows DEF Ahead, ShelfInv
    <2>3. UNCHANGED <<responses, serial, shelf, history, wpc, ack, rdb, key_ready, locked,
                      epoch, opening, reads>>
      BY <1>4 DEF UiRequest
    <2> QED
      BY <2>1, <2>2, <2>3, IdleStep
  <1>5. CASE BackendFails
    BY <1>5, IdleStep DEF BackendFails, Ahead
  <1>6. CASE Refresh
    BY <1>6, SearchStep DEF Refresh
  <1>7. ASSUME NEW b \in BOOLEAN, Pause(b) PROVE FALSE
    BY <1>7 DEF Pause, Smooth
  <1> QED
    BY <1>1, <1>2, <1>3, <1>4, <1>5, <1>6, <1>7, PollStep, RestoreStep DEF UiInput, UiStep

\* What the writer adds to its answers or to the reader's channel.
LEMMA ChangedAt ==
  ASSUME ShelfInv, Changed
  PROVE  /\ \E i \in DOMAIN responses' : responses'[i].op = "Changed"
         /\ \A i \in DOMAIN responses' :
              \/ i \in DOMAIN responses /\ responses'[i] = responses[i]
              \/ responses'[i].op = "Changed"
  <1> DEFINE e == [op |-> "Changed"]
  <1>1. e \in Responses /\ e.op = "Changed" /\ responses \in Seq(Responses)
        /\ responses' = Append(responses, e)
    BY DEF Responses, Changed, Answer, ShelfInv, TypeOK
  <1> HIDE DEF e
  <1> QED
    BY <1>1, AppendAt

\* Something else than a search is asked: the searches stay what they are.
LEMMA AskCounted ==
  ASSUME ShelfInv, NEW o \in {"Open", "Close", "Stop"}, reads' = Append(reads, [op |-> o]),
         UNCHANGED <<serial, responses>>
  PROVE  Counted'
  <1>1. /\ \A i \in DOMAIN reads : i \in DOMAIN reads' /\ reads'[i] = reads[i]
        /\ \A i \in DOMAIN reads' :
             \/ i \in DOMAIN reads /\ reads'[i] = reads[i]
             \/ i = Len(reads) + 1 /\ reads'[i].op = o
    BY AskAt
  <1>2. o # "Search"
    OBVIOUS
  <1> QED
    BY <1>1, <1>2 DEF ShelfInv, Converging, Counted, Finds, Pages

LEMMA ChangedCounted ==
  ASSUME ShelfInv, Changed \/ UNCHANGED responses, UNCHANGED <<serial, reads>>
  PROVE  Counted'
  <1>1. CASE UNCHANGED responses
    BY <1>1 DEF ShelfInv, Converging, Counted, Finds, Pages
  <1>2. CASE Changed
    <2>1. \A i \in DOMAIN responses' :
            \/ i \in DOMAIN responses /\ responses'[i] = responses[i]
            \/ responses'[i].op = "Changed"
      BY <1>2, ChangedAt
    <2> QED
      BY <2>1 DEF ShelfInv, Converging, Counted, Finds, Pages
  <1> QED
    BY <1>1, <1>2

\* A request that says what it changed, or changes nothing.
LEMMA RequestStep ==
  ASSUME ShelfInv, wpc \in {"idle", "settings"}, wpc' \in {"idle", "settings"},
         \/ UNCHANGED requests
         \/ \E r : Take(r) /\ r \notin {"Lock", "Unlock", "Stop"},
         Changed \/ UNCHANGED <<responses, history>>,
         UNCHANGED <<reads, rdb, ack, serial, shelf, ui, locked, key_ready>>
  PROVE  Converging'
  <1>1. Ahead => Ahead'
    BY AheadStays DEF ShelfInv, Ahead
  <1>2. Undisturbed'
    BY DEF ShelfInv, Converging, Undisturbed
  <1>3. Counted'
    BY ChangedCounted
  <1>4. Followed' /\ Cancelled'
    BY DEF Followed, Cancelled, InUnlock
  <1>5. InSight => InSight'
    <2>1. CASE Changed
      BY <2>1, ChangedAt DEF InSight
    <2>2. CASE UNCHANGED <<responses, history>>
      BY <2>2 DEF InSight, Finds, Pages
    <2> QED
      BY <2>1, <2>2
  <1>6. ShelfFollows'
    BY <1>1, <1>5 DEF ShelfInv, Converging, ShelfFollows, InUnlock
  <1> QED
    BY <1>2, <1>3, <1>4, <1>6 DEF Converging

\* Locking, resetting and stopping close the gate first.
LEMMA CloseStep ==
  ASSUME ShelfInv, WStop \/ WLock
  PROVE  Converging'
  <1>1. wpc = "idle" /\ key_ready' = FALSE /\ UNCHANGED <<ui, serial, responses, rdb>>
    BY DEF WStop, WLock, Take, Ask
  <1>2. \/ wpc' = "stopped" /\ reads' = Append(reads, [op |-> "Stop"]) /\ ack' = ack
        \/ /\ wpc' \in {"closing", "resetting"} /\ reads' = Append(reads, [op |-> "Close"])
           /\ ack' = "none"
    BY DEF WStop, WLock, Ask
  <1>3. PICK o \in {"Close", "Stop"} :
          /\ reads' = Append(reads, [op |-> o])
          /\ o = "Stop" => wpc' = "stopped" /\ ack' = ack
          /\ o = "Close" => wpc' \in {"closing", "resetting"} /\ ack' = "none"
    BY <1>2
  <1>4. /\ \A i \in DOMAIN reads' :
             \/ i \in DOMAIN reads /\ reads'[i] = reads[i]
             \/ i = Len(reads) + 1 /\ reads'[i].op = o
    BY <1>3, AskAt
  <1>5. \A i \in DOMAIN reads : reads[i].op \notin {"Open", "Close", "Stop"}
    BY <1>1 DEF ShelfInv, Converging, Dialogue
  <1>7. Counted'
    BY <1>1, <1>3, AskCounted
  <1>8. Undisturbed'
    BY <1>1, <1>3 DEF ShelfInv, Converging, Undisturbed
  <1> QED
    BY <1>1, <1>3, <1>7, <1>8 DEF Converging, Followed, Cancelled, ShelfFollows, InUnlock

\* The steps of an Unlock, and the end of what closes the reader.
LEMMA UnlockStep ==
  ASSUME Smooth, ShelfInv, WUnlock \/ WKey \/ WOpen \/ WCheck
  PROVE  Converging'
  <1> USE DEF MayFail, Smooth
  <1>1. CASE WUnlock
    <2>1. /\ wpc = "idle" /\ UNCHANGED <<ui, serial, responses, reads, rdb, ack, key_ready,
                                         locked, epoch>>
          /\ IF locked THEN wpc' = "idle" ELSE wpc' = "key" /\ opening' = epoch
      BY <1>1 DEF WUnlock, Take
    <2>2. Undisturbed' /\ Counted'
      BY <2>1
         DEF ShelfInv, Converging, Undisturbed, Counted, Finds, Pages
    <2> QED
      BY <2>1, <2>2 DEF Converging, Followed, Cancelled, ShelfFollows, InUnlock
  <1>2. CASE WKey
    <2>1. /\ wpc = "key" /\ UNCHANGED <<ui, serial, responses, reads, rdb, ack, key_ready,
                                        locked, epoch, opening, requests>>
          /\ wpc' = IF cancelled THEN "idle" ELSE "open"
      BY <1>2 DEF WKey
    <2>2. Undisturbed' /\ Counted'
      BY <2>1
         DEF ShelfInv, Converging, Undisturbed, Counted, Finds, Pages
    <2>3. Followed /\ (Ahead' <=> Ahead)
      BY <2>1 DEF ShelfInv, Converging, Ahead
    <2> QED
      BY <2>1, <2>2, <2>3
         DEF Converging, Followed, Cancelled, ShelfFollows, InUnlock, cancelled
  <1>3. CASE WOpen
    <2>1. /\ wpc = "open" /\ UNCHANGED <<ui, serial, responses, rdb, key_ready, locked,
                                         epoch, opening, requests>>
          /\ wpc' = "reader_open" /\ reads' = Append(reads, [op |-> "Open"]) /\ ack' = "none"
      BY <1>3 DEF WOpen, Ask
    <2>2. \A i \in DOMAIN reads' :
            \/ i \in DOMAIN reads /\ reads'[i] = reads[i]
            \/ i = Len(reads) + 1 /\ reads'[i].op = "Open"
      BY <2>1, AskAt
    <2>3. \A i \in DOMAIN reads : reads[i].op \notin {"Open", "Close", "Stop"}
      BY <2>1 DEF ShelfInv, Converging, Dialogue
    <2>5. Counted' /\ Undisturbed'
      BY <2>1, AskCounted DEF ShelfInv, Converging, Undisturbed
    <2>6. Followed'
      BY <2>1 DEF ShelfInv, Converging, Followed, InUnlock, Ahead
    <2> QED
      BY <2>1, <2>5, <2>6 DEF Converging, Cancelled, ShelfFollows, InUnlock
  <1>4. CASE WCheck
    <2>1. /\ wpc = "reader_open" /\ ack = "ok"
          /\ UNCHANGED <<ui, serial, responses, rdb, key_ready, locked, epoch, opening,
                         requests>>
      BY <1>4 DEF WCheck, Ask, ShelfInv, Converging, Undisturbed, TypeOK
    <2>2. rdb = "open" /\ Followed /\ (Ahead' <=> Ahead)
      BY <2>1 DEF ShelfInv, Converging, Dialogue, Ahead
    <2>3. \A i \in DOMAIN reads : reads[i].op \notin {"Open", "Close", "Stop"}
      BY <2>1 DEF ShelfInv, Converging, Dialogue
    <2>4. CASE cancelled
      <3>1. wpc' = "cancelling" /\ reads' = Append(reads, [op |-> "Close"]) /\ ack' = "none"
        BY <1>4, <2>1, <2>4 DEF WCheck, Ask
      <3>2. \A i \in DOMAIN reads' :
              \/ i \in DOMAIN reads /\ reads'[i] = reads[i]
              \/ i = Len(reads) + 1 /\ reads'[i].op = "Close"
        BY <3>1, AskAt
      <3>4. Counted' /\ Undisturbed'
        BY <2>1, <3>1, AskCounted DEF ShelfInv, Converging, Undisturbed
      <3>5. ~locked => Ahead
        BY <2>1, <2>2, <2>4 DEF cancelled, Followed, InUnlock
      <3> QED
        BY <2>1, <2>2, <3>1, <3>4, <3>5
           DEF Converging, Followed, Cancelled, ShelfFollows, InUnlock
    <2>5. CASE ~cancelled
      <3>1. wpc' = "confirm" /\ UNCHANGED reads /\ ack' = "none"
        BY <1>4, <2>1, <2>5 DEF WCheck
      <3>3. Counted' /\ Undisturbed'
        BY <2>1, <3>1
           DEF ShelfInv, Converging, Undisturbed, Counted, Finds, Pages
      <3> QED
        BY <2>1, <2>2, <3>1, <3>3
           DEF Converging, Followed, Cancelled, ShelfFollows, InUnlock
    <2> QED
      BY <2>4, <2>5
  <1> QED
    BY <1>1, <1>2, <1>3, <1>4

\* The answer to a Close, and the opening.
LEMMA AnsweredStep ==
  ASSUME Smooth, ShelfInv, WClosed \/ WReady
  PROVE  Converging'
  <1> USE DEF MayFail, Smooth
  <1>1. CASE WClosed
    <2>1. /\ wpc \in {"closing", "resetting", "cancelling"} /\ ack = "ok" /\ ack' = "none"
          /\ wpc' = "idle" /\ UNCHANGED <<ui, serial, reads, rdb, key_ready, locked, requests>>
          /\ Changed \/ UNCHANGED responses
      BY <1>1 DEF WClosed
    <2>2. Counted'
      BY <2>1, ChangedCounted
    <2>3. Undisturbed'
      BY <2>1 DEF ShelfInv, Converging, Undisturbed
    <2>4. key_ready /\ ~locked => Ahead
      BY <2>1 DEF ShelfInv, Converging, Dialogue, Cancelled
    <2>5. Ahead => Ahead'
      BY <2>1 DEF Ahead
    <2> QED
      BY <2>1, <2>2, <2>3, <2>4, <2>5
         DEF Converging, Followed, Cancelled, ShelfFollows, InUnlock
  <1>2. CASE WReady
    <2>1. /\ wpc = "confirm" /\ wpc' = "idle" /\ Changed
          /\ UNCHANGED <<ui, serial, reads, rdb, ack>>
      BY <1>2 DEF WReady
    <2>2. rdb = "open"
      BY <2>1 DEF ShelfInv, Converging, Dialogue
    <2>3. Counted' /\ \E i \in DOMAIN responses' : responses'[i].op = "Changed"
      BY <2>1, ChangedCounted, ChangedAt
    <2>4. Undisturbed'
      BY <2>1 DEF ShelfInv, Converging, Undisturbed
    <2>5. InSight'
      BY <2>1, <2>2, <2>3 DEF InSight
    <2> QED
      BY <2>1, <2>3, <2>4, <2>5 DEF Converging, Followed, Cancelled, ShelfFollows, InUnlock
  <1> QED
    BY <1>1, <1>2

LEMMA WriterConverges ==
  ASSUME Smooth, ShelfInv, Writer
  PROVE  Converging'
  <1> USE DEF MayFail, Smooth, DatabaseEnds
  <1>1. CASE WSettings
    BY <1>1, RequestStep DEF WSettings, Take
  <1>2. CASE WApplySettings
    BY <1>2, RequestStep DEF WApplySettings
  <1>3. CASE WMark
    BY <1>3, RequestStep DEF WMark, Take
  <1>4. CASE WDelete
    <2>1. wpc = "idle" /\ wpc' = "idle" /\ Take("Delete")
      BY <1>4 DEF WDelete, Refused, Take
    <2>2. Changed \/ UNCHANGED <<responses, history>>
      BY <1>4, <2>1 DEF WDelete, Refused, DatabaseAnswers
    <2>3. UNCHANGED <<reads, rdb, ack, serial, shelf, ui, locked, key_ready>>
      BY <1>4 DEF WDelete
    <2> QED
      BY <2>1, <2>2, <2>3, RequestStep
  <1>5. CASE WClear
    <2>1. wpc = "idle" /\ wpc' = "idle" /\ Take("Clear")
      BY <1>5 DEF WClear, Refused, Take
    <2>2. Changed \/ UNCHANGED <<responses, history>>
      BY <1>5, <2>1 DEF WClear, Refused, DatabaseAnswers
    <2>3. UNCHANGED <<reads, rdb, ack, serial, shelf, ui, locked, key_ready>>
      BY <1>5 DEF WClear
    <2> QED
      BY <2>1, <2>2, <2>3, RequestStep
  <1>6. CASE WFails
    BY <1>6 DEF WFails, ShelfInv, Converging, Undisturbed
  <1> QED
    BY <1>1, <1>2, <1>3, <1>4, <1>5, <1>6, CloseStep, UnlockStep, AnsweredStep DEF Writer

\* What is left of the reader's channel when its head is taken.
LEMMA ReaderTakes ==
  ASSUME ShelfInv, reads # <<>>, reads' = Tail(reads), UNCHANGED serial
  PROVE  /\ Head(reads) = reads[1] /\ 1 \in DOMAIN reads /\ Head(reads) \in Reads
         /\ \A i \in DOMAIN reads' : /\ i + 1 \in DOMAIN reads /\ i + 1 # 1
                                     /\ reads'[i] = reads[i + 1]
                                     /\ \A j \in DOMAIN reads' : i + 1 = j + 1 => i = j
         /\ ~Finds(Head(reads), serial)
              => ((\E i \in DOMAIN reads : Finds(reads[i], serial))
                    => (\E i \in DOMAIN reads' : Finds(reads'[i], serial)))
         /\ Finds(Head(reads), serial) => \A i \in DOMAIN reads' : ~Finds(reads'[i], serial)
         /\ Asks(Head(reads)) => \A i \in DOMAIN reads' : ~Asks(reads'[i])
  <1>1. reads \in Seq(Reads)
    BY DEF ShelfInv, TypeOK
  <1>2. /\ 1 \in DOMAIN reads /\ Head(reads) = reads[1] /\ Head(reads) \in Reads
        /\ \A i \in DOMAIN reads' :
             i \in Nat /\ i + 1 \in DOMAIN reads /\ reads'[i] = reads[i + 1]
        /\ \A i \in DOMAIN reads :
             i = 1 \/ (i - 1 \in DOMAIN reads' /\ reads'[i - 1] = reads[i])
    BY <1>1, TailAt
  <1>3. \A i \in DOMAIN reads' : i + 1 # 1 /\ \A j \in DOMAIN reads' : i + 1 = j + 1 => i = j
    <2>1. \A i \in DOMAIN reads' : i \in Nat
      BY <1>1, TailAt
    <2>2. \A i, j \in Nat : (i + 1 = j + 1 => i = j) /\ (i + 1 = 1 => i = 0)
      OBVIOUS
    <2>3. \A i \in DOMAIN reads' : i # 0
      <3>1. Tail(reads) \in Seq(Reads)
        BY <1>1, HeadTailProperties
      <3>2. DOMAIN reads' = 1..Len(reads') /\ Len(reads') \in Nat
        BY <3>1, LenProperties
      <3> QED
        BY <3>2
    <2> QED
      BY <2>1, <2>2, <2>3
  <1>4. /\ Finds(Head(reads), serial) => \A i \in DOMAIN reads' : ~Finds(reads'[i], serial)
        /\ Asks(Head(reads)) => \A i \in DOMAIN reads' : ~Asks(reads'[i])
    BY <1>2, <1>3 DEF ShelfInv, Converging, Counted, Dialogue
  <1>5. ~Finds(Head(reads), serial)
          => ((\E i \in DOMAIN reads : Finds(reads[i], serial))
                => (\E i \in DOMAIN reads' : Finds(reads'[i], serial)))
    BY <1>2
  <1> QED
    BY <1>2, <1>3, <1>4, <1>5

\* The searches that are left are still counted.
LEMMA CountedKept ==
  ASSUME ShelfInv, reads # <<>>, reads' = Tail(reads), UNCHANGED serial,
         \A i \in DOMAIN responses' :
           \/ i \in DOMAIN responses /\ responses'[i] = responses[i]
           \/ responses'[i].op # "Items"
           \/ /\ Head(reads).op = "Search" /\ responses'[i].tag = Head(reads).tag
  PROVE  Counted'
  <1>1. /\ Head(reads) = reads[1] /\ 1 \in DOMAIN reads
        /\ \A i \in DOMAIN reads' : /\ i + 1 \in DOMAIN reads /\ reads'[i] = reads[i + 1]
                                    /\ \A j \in DOMAIN reads' : i + 1 = j + 1 => i = j
        /\ Finds(Head(reads), serial) => \A i \in DOMAIN reads' : ~Finds(reads'[i], serial)
    BY ReaderTakes
  <1>2. Counted
    BY DEF ShelfInv, Converging
  <1>3. /\ \A i \in DOMAIN reads' : reads'[i].op = "Search" => reads'[i].tag <= serial
        /\ \A i, j \in DOMAIN reads' :
             Finds(reads'[i], serial) /\ Finds(reads'[j], serial) => i = j
    BY <1>1, <1>2 DEF Counted
  <1>4. \A i \in DOMAIN responses' : responses'[i].op = "Items" => responses'[i].tag <= serial
    BY <1>1, <1>2 DEF Counted
  <1>5. \A i \in DOMAIN reads', j \in DOMAIN responses' :
          ~(Finds(reads'[i], serial) /\ Pages(responses'[j], serial))
    <2> SUFFICES ASSUME NEW i \in DOMAIN reads', NEW j \in DOMAIN responses',
                        Finds(reads'[i], serial), Pages(responses'[j], serial)
                 PROVE  FALSE
      OBVIOUS
    <2>1. ~Finds(Head(reads), serial) /\ Finds(reads[i + 1], serial) /\ i + 1 \in DOMAIN reads
      BY <1>1
    <2>2. j \in DOMAIN responses /\ responses'[j] = responses[j]
      BY <2>1 DEF Finds, Pages
    <2> QED
      BY <1>2, <2>1, <2>2 DEF Counted
  <1> QED
    BY <1>3, <1>4, <1>5 DEF Counted

\* Opening, closing and stopping.
LEMMA ControlStep ==
  ASSUME Smooth, ShelfInv, Reader, ROpen \/ RClose \/ RStop
  PROVE  Converging'
  <1> USE DEF MayFail, Smooth
  <1>1. /\ reads # <<>> /\ reads' = Tail(reads) /\ rdb # "stopped"
        /\ UNCHANGED <<ui, serial, responses, wpc, key_ready, locked, epoch, opening,
                       requests, shelf, history>>
        /\ Head(reads).op \in {"Open", "Close", "Stop"}
    BY DEF Reader, ROpen, RClose, RStop, NextRead
  <1>2. /\ Head(reads) = reads[1] /\ 1 \in DOMAIN reads
        /\ \A i \in DOMAIN reads' : i + 1 \in DOMAIN reads /\ reads'[i] = reads[i + 1]
        /\ ~Finds(Head(reads), serial)
             => ((\E i \in DOMAIN reads : Finds(reads[i], serial))
                   => (\E i \in DOMAIN reads' : Finds(reads'[i], serial)))
        /\ Asks(Head(reads)) => \A i \in DOMAIN reads' : ~Asks(reads'[i])
    BY <1>1, ReaderTakes
  <1>3. Counted'
    BY <1>1, CountedKept
  <1>4. Followed' /\ Cancelled'
    BY <1>1 DEF ShelfInv, Converging, Followed, Cancelled, InUnlock, Ahead
  <1>5. CASE ROpen
    <2>1. /\ rdb' = "open" /\ ack' = "ok" /\ wpc = "reader_open" /\ ack = "none"
      BY <1>2, <1>5 DEF ROpen, NextRead, ShelfInv, Converging, Dialogue
    <2>2. \A i \in DOMAIN reads' : ~Asks(reads'[i]) /\ reads'[i].op # "Stop"
      BY <1>2, <1>5, <2>1 DEF ROpen, NextRead, Asks, ShelfInv, Converging, Dialogue
    <2>4. Undisturbed' /\ ShelfFollows'
      BY <1>1, <2>1 DEF ShelfInv, Converging, Undisturbed, ShelfFollows, InUnlock
    <2> QED
      BY <1>3, <1>4, <2>4 DEF Converging
  <1>6. CASE RClose
    <2>1. /\ rdb' = "closed" /\ ack' = "ok" /\ ack = "none"
          /\ wpc \in {"closing", "resetting", "cancelling"}
      BY <1>2, <1>6 DEF RClose, NextRead, ShelfInv, Converging, Dialogue
    <2>2. \A i \in DOMAIN reads' : ~Asks(reads'[i]) /\ reads'[i].op # "Stop"
      BY <1>2, <1>6, <2>1 DEF RClose, NextRead, Asks, ShelfInv, Converging, Dialogue
    <2>4. ShelfFollows'
      BY <1>1, <2>1
         DEF ShelfInv, Converging, ShelfFollows, InUnlock, Cancelled, Dialogue, Ahead
    <2>5. Undisturbed'
      BY <1>1, <2>1 DEF ShelfInv, Converging, Undisturbed
    <2> QED
      BY <1>3, <1>4, <2>4, <2>5 DEF Converging
  <1>7. CASE RStop
    <2>1. rdb' = "stopped" /\ ack' = ack /\ wpc = "stopped"
      BY <1>2, <1>7 DEF RStop, NextRead, ShelfInv, Converging, Dialogue
    <2>2. ~key_ready /\ \A i \in DOMAIN reads' : reads'[i].op \notin {"Open", "Close"}
      BY <1>2, <2>1 DEF ShelfInv, Converging, Dialogue
    <2>4. Undisturbed' /\ ShelfFollows'
      BY <1>1, <2>1, <2>2 DEF ShelfInv, Converging, Undisturbed, ShelfFollows
    <2> QED
      BY <1>3, <1>4, <2>4 DEF Converging
  <1> QED
    BY <1>5, <1>6, <1>7

\* A search is answered with the history as it is.
LEMMA FindStep ==
  ASSUME ShelfInv, Reader, RSearch
  PROVE  Converging'
  <1> DEFINE n == Head(reads).tag
             page(items) == [op |-> "Items", tag |-> n, items |-> items]
  <1>1. /\ reads # <<>> /\ reads' = Tail(reads) /\ Head(reads).op = "Search"
        /\ UNCHANGED <<ui, serial, wpc, key_ready, locked, epoch, opening, requests, shelf,
                       history, rdb, ack>>
    BY DEF Reader, RSearch, NextRead
  <1>2. /\ Head(reads) \in Reads
        /\ ~Finds(Head(reads), serial)
             => ((\E i \in DOMAIN reads : Finds(reads[i], serial))
                   => (\E i \in DOMAIN reads' : Finds(reads'[i], serial)))
        /\ Head(reads) = reads[1] /\ 1 \in DOMAIN reads
    BY <1>1, ReaderTakes
  <1>3. \/ UNCHANGED responses /\ (key_ready /\ ~locked => rdb # "open")
        \/ responses' = Append(responses, page(history))
        \/ responses' = Append(responses, page({})) /\ ~(key_ready /\ ~locked)
    BY DEF RSearch, Answer
  <1>4. /\ responses \in Seq(Responses)
        /\ \A items \in SUBSET Items : page(items) \in Responses
        /\ history \in SUBSET Items /\ {} \in SUBSET Items
    BY <1>1, <1>2 DEF ShelfInv, TypeOK, Reads, Responses
  <1>5. PICK items \in {history, {}} :
          \/ UNCHANGED responses /\ (key_ready /\ ~locked => rdb # "open")
          \/ /\ responses' = Append(responses, page(items))
             /\ key_ready /\ ~locked => items = history
    BY <1>3
  <1> DEFINE e == page(items)
  <1>6. e \in Responses /\ e.op = "Items" /\ e.tag = n /\ e.items = items
    BY <1>4, <1>5
  <1> HIDE DEF e
  <1>7. \/ UNCHANGED responses /\ (key_ready /\ ~locked => rdb # "open")
        \/ /\ responses' = Append(responses, e)
           /\ key_ready /\ ~locked => items = history
    BY <1>5 DEF e
  <1> HIDE DEF page
  <1>8. ASSUME responses' = Append(responses, e)
        PROVE  /\ \A i \in DOMAIN responses :
                    i \in DOMAIN responses' /\ responses'[i] = responses[i]
               /\ \A i \in DOMAIN responses' :
                    \/ i \in DOMAIN responses /\ responses'[i] = responses[i]
                    \/ responses'[i] = e
               /\ \E i \in DOMAIN responses' : responses'[i] = e
    BY <1>4, <1>6, <1>8, AppendAt
  <1>9. Counted'
    BY <1>1, <1>6, <1>7, <1>8, CountedKept
  <1>11. Undisturbed' /\ Followed' /\ Cancelled'
    BY <1>1 DEF ShelfInv, Converging, Undisturbed, Followed, Cancelled, InUnlock, Ahead
  <1>12. ASSUME key_ready, ~locked, InSight PROVE InSight'
    <2>1. rdb = "open" /\ responses' = Append(responses, e) /\ items = history
      BY <1>7, <1>12 DEF InSight
    <2>2. CASE \E i \in DOMAIN responses : responses[i].op = "Changed"
      BY <1>1, <1>8, <2>1, <2>2 DEF InSight
    <2>3. CASE n = serial
      <3>1. \A j \in DOMAIN responses : ~Pages(responses[j], serial)
        BY <1>1, <1>2, <2>3 DEF ShelfInv, Converging, Counted, Finds
      <3>2. Pages(e, serial) /\ e.items = history
        BY <1>6, <2>1, <2>3 DEF Pages
      <3>3. /\ \A i \in DOMAIN responses' :
                 Pages(responses'[i], serial) => responses'[i].items = history
            /\ \E i \in DOMAIN responses' : Pages(responses'[i], serial)
        BY <1>8, <2>1, <3>1, <3>2
      <3> QED
        BY <1>1, <2>1, <3>3 DEF InSight, Pages
    <2>4. CASE n # serial /\ \E i \in DOMAIN reads : Finds(reads[i], serial)
      BY <1>1, <1>2, <2>1, <2>4 DEF InSight, Finds
    <2>5. CASE /\ n # serial
               /\ \A i \in DOMAIN responses :
                    Pages(responses[i], serial) => responses[i].items = history
               /\ shelf = history \/ \E i \in DOMAIN responses : Pages(responses[i], serial)
      <3>1. ~Pages(e, serial)
        BY <1>6, <2>5 DEF Pages
      <3>2. /\ \A i \in DOMAIN responses' :
                 Pages(responses'[i], serial) => responses'[i].items = history
            /\ shelf = history \/ \E i \in DOMAIN responses' : Pages(responses'[i], serial)
        BY <1>8, <2>1, <2>5, <3>1
      <3> QED
        BY <1>1, <2>1, <3>2 DEF InSight, Pages
    <2> QED
      BY <1>12, <2>2, <2>3, <2>4, <2>5 DEF InSight
  <1>13. ShelfFollows'
    BY <1>1, <1>12 DEF ShelfInv, Converging, ShelfFollows, InUnlock, Ahead
  <1> QED
    BY <1>9, <1>11, <1>13 DEF Converging

\* A restore is answered or not; no page comes or goes.
LEMMA AnswerStep ==
  ASSUME ShelfInv, Reader, RRestore
  PROVE  Converging'
  <1> DEFINE r == Head(reads)
  <1>1. /\ reads # <<>> /\ reads' = Tail(reads) /\ r.op = "Restore"
        /\ UNCHANGED <<ui, serial, wpc, key_ready, locked, epoch, opening, requests, shelf,
                       history, rdb, ack>>
        /\ UNCHANGED responses \/ responses' = Append(responses, r)
    BY DEF Reader, RRestore, NextRead, Answer
  <1>2. /\ r \in Reads
        /\ ~Finds(r, serial)
             => ((\E i \in DOMAIN reads : Finds(reads[i], serial))
                   => (\E i \in DOMAIN reads' : Finds(reads'[i], serial)))
    BY <1>1, ReaderTakes
  <1>3. r \in Responses /\ responses \in Seq(Responses)
    BY <1>1, <1>2 DEF ShelfInv, TypeOK, Reads, Responses
  <1>4. ~Finds(r, serial)
    BY <1>1 DEF Finds
  <1> HIDE DEF r
  <1>6. /\ \A i \in DOMAIN responses : i \in DOMAIN responses' /\ responses'[i] = responses[i]
        /\ \A i \in DOMAIN responses' :
             \/ i \in DOMAIN responses /\ responses'[i] = responses[i]
             \/ responses'[i] = r
    BY SMTT(30), <1>1, <1>3, AppendAt
  <1>7. Counted'
    <2>1. \A i \in DOMAIN responses' :
            \/ i \in DOMAIN responses /\ responses'[i] = responses[i]
            \/ responses'[i].op # "Items"
      BY <1>1, <1>6
    <2> QED
      BY <1>1, <2>1, CountedKept
  <1>8. Undisturbed' /\ Followed' /\ Cancelled'
    BY <1>1 DEF ShelfInv, Converging, Undisturbed, Followed, Cancelled, InUnlock, Ahead
  <1>9. InSight => InSight'
    <2>1. /\ (\E i \in DOMAIN responses : responses[i].op = "Changed")
               => (\E i \in DOMAIN responses' : responses'[i].op = "Changed")
          /\ (\E i \in DOMAIN responses : Pages(responses[i], serial))
               => (\E i \in DOMAIN responses' : Pages(responses'[i], serial))
      BY <1>6
    <2>2. (\A i \in DOMAIN responses :
             Pages(responses[i], serial) => responses[i].items = history)
            => (\A i \in DOMAIN responses' :
                  Pages(responses'[i], serial) => responses'[i].items = history)
      BY <1>1, <1>6 DEF Pages
    <2> QED
      BY <1>1, <1>2, <1>4, <2>1, <2>2 DEF InSight, Pages, Finds
  <1>10. ShelfFollows'
    BY <1>1, <1>9 DEF ShelfInv, Converging, ShelfFollows, InUnlock, Ahead
  <1> QED
    BY <1>7, <1>8, <1>10 DEF Converging

LEMMA InitConverges == Init => ShelfInv
  <1> SUFFICES ASSUME Init PROVE Converging
    BY InitType, InitDialogue DEF ShelfInv
  <1>1. DOMAIN reads = {} /\ DOMAIN responses = {}
    BY DEF Init
  <1> QED
    BY <1>1
       DEF Init, Converging, Undisturbed, Counted, Followed, Cancelled,
           ShelfFollows, InUnlock

LEMMA StepConverges == ASSUME Smooth PROVE ShelfInv /\ [Next]_vars => ShelfInv'
  <1> SUFFICES ASSUME ShelfInv, [Next]_vars PROVE Converging'
    BY StepType, StepDialogue DEF ShelfInv
  <1>1. CASE Reader
    BY <1>1, ControlStep, FindStep, AnswerStep DEF Reader
  <1>2. CASE AtRest \/ UNCHANGED vars
    <2>1. UNCHANGED vars
      BY <1>2 DEF AtRest
    <2>2. Undisturbed' /\ Counted'
      BY <2>1
         DEF ShelfInv, Converging, Undisturbed, Counted, Finds, Pages
    <2>3. Followed' /\ Cancelled'
      BY <2>1 DEF ShelfInv, Converging, Followed, Cancelled, InUnlock, Ahead
    <2>4. ShelfFollows'
      BY <2>1
         DEF ShelfInv, Converging, ShelfFollows, InUnlock, Ahead, InSight, Finds, Pages
    <2> QED
      BY <2>2, <2>3, <2>4 DEF Converging
  <1> QED
    BY <1>1, <1>2, UiConverges, WriterConverges DEF Next

\* When everything is at rest and history is open the shelf shows its rows, whatever
\* searches were outdated or dropped, however locks, unlocks, resets and changes
\* interleave: if no keyring, storage or reader fails and the user does not pause.
THEOREM ShelfEndsCurrent ==
  ASSUME Smooth
  PROVE  Spec => []ShelfConverges
  <1>1. Init => ShelfInv
    BY InitConverges
  <1>2. ShelfInv /\ [Next]_vars => ShelfInv'
    BY StepConverges
  <1>3. ShelfInv => ShelfConverges
    <2> SUFFICES ASSUME ShelfInv, AtRestState, key_ready, ~locked PROVE shelf = history
      BY DEF ShelfConverges
    <2>1. /\ ui = "idle" /\ DOMAIN responses = {}
          /\ wpc = "stopped" \/ (wpc = "idle" /\ DOMAIN requests = {})
          /\ rdb = "stopped" \/ DOMAIN reads = {}
      BY DEF AtRestState
    <2>2. wpc = "idle" /\ ~Ahead /\ ~InUnlock
      BY <2>1 DEF ShelfInv, Converging, Dialogue, Ahead, InUnlock
    <2>3. InSight
      BY <2>2 DEF ShelfInv, Converging, ShelfFollows
    <2> QED
      BY <2>1, <2>3 DEF InSight
  <1> QED
    BY <1>1, <1>2, <1>3, PTL DEF Spec
=============================================================================
