----------------------------- MODULE LoginProofs ----------------------------
(***************************************************************************)
(* Proofs about Login, for all screen savers, keys and bounds: the types,  *)
(* what becomes of the key and the files over failures and crashes, that   *)
(* an unlocking in the background shows and creates nothing, and that the  *)
(* lock state is the screen savers' when all of them have been heard.      *)
(***************************************************************************)
EXTENDS Login, DataLemmas, FiniteSetTheorems

\* The key and the files at each step of the writer.
Custody ==
  /\ \A a, b \in ring : a = b
  /\ db \in Keys => ring \subseteq {db}
  /\ wpc \in {"load", "create"} /\ ~job.existing => db = NoKey
  /\ wpc = "create" => ring = {} /\ ~job.existing
  /\ wpc \in {"open", "schema", "ready"} => job.key \in Keys /\ ring = {job.key}
  /\ wpc = "ready" => db = job.key
  /\ wpc = "erase" => ring = {}

\* What the gate and the last report say of them.
Told ==
  /\ key_ready => db \in Keys /\ db \in ring /\ wpc \notin {"create", "delete", "erase"}
  /\ status = "reset" /\ wpc = "idle" => ring = {} /\ db = NoKey /\ ~wal

\* Whose request it is.
Asked ==
  /\ wpc = "create" => job.op = Ask
  /\ wpc \in {"delete", "erase"} => job.op = "Reset"
  /\ job.op = Quiet => ~job.prompted

Inv == TypeOK /\ Custody /\ Told /\ Asked
-----------------------------------------------------------------------------
(***************************************************************************)
(* Types, in parts that different steps disturb.                           *)
(***************************************************************************)
OutsideType ==
  /\ active \in [Savers -> BOOLEAN]
  /\ probed \subseteq Savers /\ told \subseteq Savers
  /\ mail \in [Services -> Seq(Notes)]
WatchType == states \in [Savers -> BOOLEAN] /\ pending \in Nat
WriterType ==
  /\ wpc \in {"idle", "load", "create", "open", "schema", "ready", "delete", "erase"}
  /\ job \in Jobs
  /\ status \in {"none", "ready", "locked", "reset", "error"}
DurableType ==
  /\ ring \subseteq Keys /\ ringLocked \in BOOLEAN
  /\ db \in Keys \cup {NoKey, "new"} /\ wal \in BOOLEAN

LEMMA Parts ==
  LET Types == /\ GateTypeOK /\ OutsideType /\ WatchType /\ requests \in Seq(Requests)
               /\ WriterType /\ DurableType /\ bounds \in Counts
  IN  (TypeOK => Types) /\ (Types => TypeOK) /\ (Types' => TypeOK')
  BY DEF TypeOK, OutsideType, WatchType, WriterType, DurableType

LEMMA CountIsNat == Cardinality(Savers) \in Nat
  BY FS_CardinalityType, LoginAssumption DEF LoginAssumption

LEMMA IdleIsJob == Idle \in Jobs
  BY DEF Idle, Jobs

LEMMA NoMail == [s \in Services |-> << >>] \in [Services -> Seq(Notes)]
  OBVIOUS

\* A part none of whose variables changes keeps its type.
LEMMA Same ==
  /\ GateTypeOK /\ UNCHANGED gateVars => GateTypeOK'
  /\ OutsideType /\ UNCHANGED outside => OutsideType'
  /\ WatchType /\ UNCHANGED watch => WatchType'
  /\ WriterType /\ UNCHANGED <<wpc, job, status>> => WriterType'
  /\ DurableType /\ UNCHANGED durable => DurableType'
<1>1. GateTypeOK /\ UNCHANGED gateVars => GateTypeOK'
  BY DEF GateTypeOK, gateVars
<1>2. OutsideType /\ UNCHANGED outside => OutsideType'
  BY DEF OutsideType, outside
<1>3. WatchType /\ UNCHANGED watch => WatchType'
  BY DEF WatchType, watch
<1>4. WriterType /\ UNCHANGED <<wpc, job, status>> => WriterType'
  BY DEF WriterType
<1>5. DurableType /\ UNCHANGED durable => DurableType'
  BY DEF DurableType, durable
<1> QED BY <1>1, <1>2, <1>3, <1>4, <1>5

LEMMA TypeInit == Init => TypeOK
<1> SUFFICES ASSUME Init PROVE TypeOK
  OBVIOUS
<1>1. GateTypeOK
  BY DEF Init, GateTypeOK
<1>2. OutsideType
  BY NoMail DEF Init, OutsideType
<1>3. WatchType
  BY CountIsNat DEF Init, WatchType
<1>4. requests \in Seq(Requests)
  BY DEF Init
<1>5. WriterType
  BY IdleIsJob DEF Init, WriterType
<1>6. DurableType
  BY DEF Init, DurableType
<1>7. bounds \in Counts
  BY DEF Init, Counts
<1> QED BY <1>1, <1>2, <1>3, <1>4, <1>5, <1>6, <1>7, Parts

\* A counter goes up.
LEMMA CountUp ==
  ASSUME bounds \in Counts,
         \/ bounds' = [bounds EXCEPT !.changes = @ + 1]
         \/ bounds' = [bounds EXCEPT !.asks = @ + 1]
         \/ bounds' = [bounds EXCEPT !.crashes = @ + 1]
  PROVE  bounds' \in Counts
  BY DEF Counts

LEMMA SendType ==
  ASSUME OutsideType, NEW s \in Services, NEW m \in Notes, Send(s, m)
  PROVE  mail' \in [Services -> Seq(Notes)]
  BY DEF Send, OutsideType

LEMMA PutType ==
  ASSUME requests \in Seq(Requests), NEW r \in Requests, Put(r)
  PROVE  requests' \in Seq(Requests)
  BY DEF Put

LEMMA TypeOutside ==
  ASSUME TypeOK,
         \/ \E s \in Savers : Activate(s) \/ Reply(s)
         \/ KeyringLocks \/ KeyringUnlocks
  PROVE  TypeOK'
<1> USE Parts DEF Change
<1>0. \A s \in Savers : s \in Services
  BY DEF Services
<1>1. ASSUME NEW s \in Savers, Activate(s) PROVE TypeOK'
  <2>1. [op |-> "signal", says |-> Word(~active[s])] \in Notes
    BY DEF Notes, Word
  <2>2. mail' \in [Services -> Seq(Notes)]
    BY <1>1, <2>1, <1>0, SendType DEF Activate
  <2>3. OutsideType'
    BY <1>1, <2>2 DEF Activate, OutsideType
  <2>4. bounds' \in Counts
    BY <1>1, CountUp DEF Activate
  <2> QED BY <1>1, <2>3, <2>4, Same DEF Activate, writer
<1>2. ASSUME NEW s \in Savers, Reply(s) PROVE TypeOK'
  <2>1. \A x \in {"on", "off", "nothing"} : [op |-> "reply", says |-> x] \in Notes
    BY DEF Notes
  <2>2. mail' \in [Services -> Seq(Notes)]
    BY <1>2, <2>1, <1>0, SendType DEF Reply, Word
  <2>3. OutsideType'
    BY <1>2, <2>2 DEF Reply, OutsideType
  <2> QED BY <1>2, <2>3, Same DEF Reply, writer
<1>3. CASE KeyringLocks
  <2>1. [op |-> "gone", says |-> "nothing"] \in Notes /\ "keyring" \in Services
    BY DEF Notes, Services
  <2>2. mail' \in [Services -> Seq(Notes)]
    BY <1>3, <2>1, SendType DEF KeyringLocks
  <2>3. OutsideType' /\ DurableType'
    BY <1>3, <2>2 DEF KeyringLocks, OutsideType, DurableType
  <2>4. bounds' \in Counts
    BY <1>3, CountUp DEF KeyringLocks
  <2> QED BY <1>3, <2>3, <2>4, Same DEF KeyringLocks, writer
<1>4. CASE KeyringUnlocks
  <2>1. OutsideType' /\ DurableType'
    BY <1>4 DEF KeyringUnlocks, outside, OutsideType, DurableType
  <2>2. bounds' \in Counts
    BY <1>4, CountUp DEF KeyringUnlocks
  <2> QED BY <1>4, <2>1, <2>2, Same DEF KeyringUnlocks, writer
<1> QED BY <1>1, <1>2, <1>3, <1>4

LEMMA NoteType ==
  ASSUME OutsideType, NEW s \in Services, mail[s] # << >>,
         mail' = [mail EXCEPT ![s] = Tail(@)]
  PROVE  Head(mail[s]) \in Notes /\ mail' \in [Services -> Seq(Notes)]
<1>1. mail[s] \in Seq(Notes)
  BY DEF OutsideType
<1>2. Head(mail[s]) \in Notes /\ Tail(mail[s]) \in Seq(Notes)
  BY <1>1
<1> QED BY <1>2 DEF OutsideType

LEMMA LockHistoryType ==
  ASSUME GateTypeOK, requests \in Seq(Requests), NEW n \in Nat, LockHistory(n)
  PROVE  key_ready' \in BOOLEAN /\ epoch' \in Nat /\ requests' \in Seq(Requests)
<1>1. requests' \in Seq(Requests)
  BY PutType DEF LockHistory, Requests
<1>2. epoch' \in Nat
  BY DEF LockHistory, GateTypeOK
<1> QED BY <1>1, <1>2 DEF LockHistory

LEMMA SignalType ==
  ASSUME GateTypeOK, WatchType, requests \in Seq(Requests),
         NEW s \in Services, NEW m \in Notes, OnSignal(s, m)
  PROVE  /\ WatchType' /\ requests' \in Seq(Requests)
         /\ locked' \in BOOLEAN /\ key_ready' \in BOOLEAN /\ epoch' \in Nat
<1>1. WatchType'
  <2>1. (m.says = "on") \in BOOLEAN
    OBVIOUS
  <2> QED BY <2>1 DEF OnSignal, WatchType
<1>2. locked' \in BOOLEAN
  BY DEF OnSignal, AnyLocked
<1>3. CASE locked'
  BY <1>1, <1>2, <1>3, LockHistoryType DEF OnSignal
<1>4. CASE ~locked'
  <2>1. requests' \in Seq(Requests)
    BY <1>4, PutType DEF OnSignal, Requests
  <2>2. epoch' \in Nat
    BY <1>4 DEF OnSignal, GateTypeOK
  <2>3. key_ready' \in BOOLEAN
    BY <1>4 DEF OnSignal, GateTypeOK
  <2> QED BY <1>1, <1>2, <2>1, <2>2, <2>3
<1> QED BY <1>3, <1>4

LEMMA ReplyType ==
  ASSUME GateTypeOK, WatchType, requests \in Seq(Requests),
         NEW s \in Services, NEW m \in Notes, OnReply(s, m)
  PROVE  /\ WatchType' /\ requests' \in Seq(Requests)
         /\ locked' \in BOOLEAN /\ key_ready' \in BOOLEAN /\ epoch' \in Nat
<1>1. WatchType'
  <2>1. (m.says = "on") \in BOOLEAN
    OBVIOUS
  <2>2. states' \in [Savers -> BOOLEAN]
    BY <2>1 DEF OnReply, WatchType
  <2>3. pending' \in Nat
    BY DEF OnReply, WatchType
  <2> QED BY <2>2, <2>3 DEF WatchType
<1>2. CASE pending' = 0
  <2>1. locked' \in BOOLEAN
    BY <1>2 DEF OnReply, AnyLocked
  <2>2. CASE locked'
    BY <1>1, <1>2, <2>1, <2>2, LockHistoryType DEF OnReply
  <2>3. CASE ~locked'
    <3>1. requests' \in Seq(Requests)
      BY <1>2, <2>3, PutType DEF OnReply, Requests
    <3>2. key_ready' = key_ready /\ epoch' = epoch
      BY <1>2, <2>3 DEF OnReply
    <3> QED BY <1>1, <2>1, <3>1, <3>2 DEF GateTypeOK
  <2> QED BY <2>2, <2>3
<1>3. CASE pending' # 0
  BY <1>1, <1>3 DEF OnReply, GateTypeOK
<1> QED BY <1>2, <1>3

LEMMA TypeGTK ==
  ASSUME TypeOK,
         \/ \E s \in Services : Hear(s)
         \/ \E r \in {Ask, "Reset"} : UserAsks(r)
  PROVE  TypeOK'
<1> USE Parts
<1>1. ASSUME NEW s \in Services, Hear(s) PROVE TypeOK'
  <2> DEFINE m == Head(mail[s])
  <2>1. m \in Notes /\ mail' \in [Services -> Seq(Notes)]
    BY <1>1, NoteType DEF Hear
  <2>2. OutsideType'
    BY <1>1, <2>1 DEF Hear, OutsideType
  <2>3. WriterType' /\ DurableType' /\ bounds' \in Counts
    BY <1>1, Same DEF Hear
  <2>4. /\ WatchType' /\ requests' \in Seq(Requests)
        /\ locked' \in BOOLEAN /\ key_ready' \in BOOLEAN /\ epoch' \in Nat
    <3>1. CASE m.op = "signal" /\ OnSignal(s, m)
      BY <2>1, <3>1, SignalType DEF Services
    <3>2. CASE m.op = "reply" /\ OnReply(s, m)
      BY <2>1, <3>2, ReplyType
    <3>3. CASE m.op = "gone" /\ LockHistory(0) /\ UNCHANGED <<locked, watch>>
      BY <3>3, LockHistoryType, Same DEF GateTypeOK
    <3> QED BY <1>1, <3>1, <3>2, <3>3 DEF Hear
  <2>5. GateTypeOK'
    BY <1>1, <2>4 DEF Hear, GateTypeOK
  <2> QED BY <2>2, <2>3, <2>4, <2>5
<1>2. ASSUME NEW r \in {Ask, "Reset"}, UserAsks(r) PROVE TypeOK'
  <2>1. requests' \in Seq(Requests)
    BY <1>2, PutType DEF UserAsks, Requests
  <2>2. bounds' \in Counts
    BY <1>2, CountUp DEF UserAsks
  <2> QED BY <1>2, <2>1, <2>2, Same DEF UserAsks
<1> QED BY <1>1, <1>2

LEMMA TypeWriter ==
  ASSUME TypeOK, Writer
  PROVE  TypeOK'
<1> USE Parts, IdleIsJob DEF End, Go
<1>1. OutsideType' /\ WatchType' /\ bounds' \in Counts
  BY Same DEF Writer, Take, Load, Create, Open, Schema, Ready, Delete, Erase, WriterOnly
<1>2. requests' \in Seq(Requests)
  <2>1. CASE Take
    BY <2>1 DEF Take
  <2>2. CASE ~Take
    <3>1. requests' = requests
      BY <2>2 DEF Writer, Load, Create, Open, Schema, Ready, Delete, Erase
    <3> QED BY <3>1
  <2> QED BY <2>1, <2>2
<1>3. GateTypeOK'
  <2>1. epoch' \in Nat
    <3>1. epoch' = epoch \/ epoch' = epoch + 1
      BY DEF Writer, Take, Load, Create, Open, Schema, Ready, Delete, Erase, SameGate,
             CloseHistory, invalidate
    <3> QED BY <3>1 DEF GateTypeOK
  <2>2. key_ready' \in BOOLEAN
    BY DEF Writer, Take, Load, Create, Open, Schema, Ready, Delete, Erase, SameGate,
           CloseHistory, GateTypeOK
  <2>3. UNCHANGED <<paused, locked, capacity, backend>>
    BY DEF Writer, Take, Load, Create, Open, Schema, Ready, Delete, Erase, WriterOnly
  <2> QED BY <2>1, <2>2, <2>3 DEF GateTypeOK
<1>4. WriterType'
  <2>1. CASE Take
    <3>1. Job("Reset", 0, FALSE) \in Jobs
      BY DEF Job, Jobs
    <3>2. \A r \in {Quiet, Ask}, x \in BOOLEAN : Job(r, epoch, x) \in Jobs
      BY DEF Job, Jobs, GateTypeOK
    <3>3. (db # NoKey) \in BOOLEAN
      OBVIOUS
    <3> QED BY <2>1, <3>1, <3>2, <3>3 DEF Take, WriterType
  <2>2. CASE Load
    <3>1. \A k \in Keys, p \in BOOLEAN :
            [job EXCEPT !.key = k, !.prompted = p] \in Jobs
      BY DEF Jobs, WriterType
    <3>2. \A p \in BOOLEAN : [job EXCEPT !.prompted = p] \in Jobs
      BY DEF Jobs, WriterType
    <3> QED BY <2>2, <3>1, <3>2 DEF Load, WriterType
  <2>3. CASE Create
    <3>1. \A k \in Keys : [job EXCEPT !.key = k] \in Jobs
      BY DEF Jobs, WriterType
    <3> QED BY <2>3, <3>1 DEF Create, WriterType
  <2>4. CASE Open \/ Schema \/ Ready \/ Delete \/ Erase
    BY <2>4 DEF Open, Schema, Ready, Delete, Erase, WriterType
  <2> QED BY <2>1, <2>2, <2>3, <2>4 DEF Writer
<1>5. DurableType'
  <2>1. CASE Take \/ Ready
    BY <2>1, Same DEF Take, Ready
  <2>2. CASE Load
    BY <2>2 DEF Load, Unlocked, DurableType
  <2>3. CASE Create
    BY <2>3 DEF Create, DurableType
  <2>4. CASE Open
    BY <2>4 DEF Open, DurableType
  <2>5. CASE Schema
    <3>1. job.key \in Keys \cup {NoKey}
      BY DEF WriterType, Jobs
    <3> QED BY <2>5, <3>1 DEF Schema, DurableType
  <2>6. CASE Delete
    BY <2>6 DEF Delete, Unlocked, DurableType
  <2>7. CASE Erase
    BY <2>7 DEF Erase, DurableType
  <2> QED BY <2>1, <2>2, <2>3, <2>4, <2>5, <2>6, <2>7 DEF Writer
<1> QED BY <1>1, <1>2, <1>3, <1>4, <1>5

LEMMA TypeCrash ==
  ASSUME TypeOK, Crash
  PROVE  TypeOK'
<1> USE Parts
<1>1. bounds' \in Counts
  BY CountUp DEF Crash
<1>2. GateTypeOK'
  BY DEF Crash, GateTypeOK
<1>3. OutsideType'
  BY NoMail DEF Crash, OutsideType
<1>4. WatchType'
  BY CountIsNat DEF Crash, WatchType
<1>5. WriterType' /\ requests' \in Seq(Requests)
  BY IdleIsJob DEF Crash, WriterType
<1>6. DurableType'
  BY Same DEF Crash
<1> QED BY <1>1, <1>2, <1>3, <1>4, <1>5, <1>6

\* The types hold over every step of every party, crashes included.
THEOREM TypeCorrect == Spec => []TypeOK
<1>1. Init => TypeOK
  BY TypeInit
<1>2. TypeOK /\ [Next]_vars => TypeOK'
  <2> SUFFICES ASSUME TypeOK, [Next]_vars PROVE TypeOK'
    OBVIOUS
  <2>1. CASE UNCHANGED vars
    BY <2>1, Same, Parts DEF vars, writer
  <2>2. CASE Next
    BY <2>2, TypeOutside, TypeGTK, TypeWriter, TypeCrash DEF Next
  <2> QED BY <2>1, <2>2
<1> QED BY <1>1, <1>2, PTL DEF Spec
-----------------------------------------------------------------------------
(***************************************************************************)
(* The key, the files and what is said of them.                            *)
(***************************************************************************)
LEMMA InvInit == Init => Inv
<1> SUFFICES ASSUME Init PROVE Inv
  OBVIOUS
<1>1. TypeOK
  BY TypeInit
<1>2. wpc = "idle" /\ status = "none" /\ ~key_ready
      /\ job.op # Quiet
  BY DEF Init, Idle, Quiet
<1>3. Custody
  BY <1>2, LoginAssumption DEF Init, Custody, LoginAssumption
<1> QED BY <1>1, <1>2, <1>3 DEF Inv, Told, Asked

LEMMA CustodySame ==
  ASSUME Inv, UNCHANGED <<wpc, job, status, ring, db, wal>>, key_ready' => key_ready
  PROVE  Custody' /\ Told' /\ Asked'
<1>1. Custody'
  BY DEF Inv, Custody
<1>2. Told'
  BY DEF Inv, Told
<1>3. Asked'
  BY DEF Inv, Asked
<1> QED BY <1>1, <1>2, <1>3

\* Whoever is not the writer only lowers key_ready, or starts the program anew.
LEMMA CustodyOthers ==
  ASSUME Inv, Next, ~Writer
  PROVE  Custody' /\ Told' /\ Asked'
<1>1. CASE \E s \in Savers : Activate(s) \/ Reply(s)
  BY <1>1, CustodySame DEF Activate, Reply, gateVars, writer, durable
<1>2. CASE KeyringLocks \/ KeyringUnlocks
  BY <1>2, CustodySame DEF KeyringLocks, KeyringUnlocks, gateVars, writer
<1>3. ASSUME NEW s \in Services, Hear(s) PROVE Custody' /\ Told' /\ Asked'
  <2>1. key_ready' => key_ready
    BY <1>3 DEF Hear, OnSignal, OnReply, LockHistory
  <2> QED BY <1>3, <2>1, CustodySame DEF Hear, durable
<1>4. CASE \E r \in {Ask, "Reset"} : UserAsks(r)
  BY <1>4, CustodySame DEF UserAsks, gateVars, durable
<1>5. CASE Crash
  <2>1. wpc' = "idle" /\ status' = "none" /\ ~key_ready' /\ job' = Idle
        /\ UNCHANGED <<ring, db, wal>>
    BY <1>5 DEF Crash, durable
  <2>2. Custody'
    BY <2>1 DEF Inv, Custody
  <2>3. Told'
    BY <2>1 DEF Told
  <2>4. Asked'
    BY <2>1 DEF Asked, Idle, Quiet
  <2> QED BY <2>2, <2>3, <2>4
<1> QED BY <1>1, <1>2, <1>3, <1>4, <1>5 DEF Next

\* A request that ends leaves the key and the files as they are, or better.
LEMMA CustodyEnds ==
  ASSUME Inv, NEW what, End(what), UNCHANGED db, key_ready' = key_ready,
         \/ UNCHANGED ring
         \/ ring' \subseteq ring /\ ~key_ready
         \/ ring = {} /\ db = NoKey /\ ~key_ready /\ \E k \in Keys : ring' = {k},
         what = "reset" => ring' = {} /\ db' = NoKey /\ ~wal'
  PROVE  Custody' /\ Told' /\ Asked'
<1>1. wpc' = "idle" /\ job' = Idle /\ status' = what
  BY DEF End
<1>2. Custody'
  BY <1>1, LoginAssumption DEF Inv, Custody, LoginAssumption
<1>3. Told'
  BY <1>1 DEF Inv, Told
<1>4. Asked'
  BY <1>1 DEF Asked, Idle, Quiet
<1> QED BY <1>2, <1>3, <1>4

LEMMA CustodyWriter ==
  ASSUME Inv, Writer
  PROVE  Custody' /\ Told' /\ Asked'
<1> USE DEF Inv
<1>1. CASE Take
  <2>1. UNCHANGED <<ring, db, wal>> /\ wpc = "idle"
    BY <1>1 DEF Take, durable
  <2>2. CASE wpc' = "idle" /\ job' = job /\ status' \in {"locked", "error"}
             /\ (key_ready' => key_ready)
    BY <2>1, <2>2 DEF Custody, Told, Asked
  <2>3. CASE wpc' = "delete" /\ job' = Job("Reset", 0, FALSE) /\ ~key_ready'
    BY <2>1, <2>3 DEF Custody, Told, Asked, Job, Quiet
  <2>4. CASE \E r \in {Quiet, Ask} : wpc' = "load" /\ job' = Job(r, epoch, db # NoKey)
                                    /\ UNCHANGED <<key_ready, status>>
    <3>1. /\ wpc' = "load" /\ ~job'.prompted
          /\ job'.existing = (db # NoKey)
      BY <2>4 DEF Job
    <3>2. Custody'
      BY <2>1, <3>1 DEF Custody
    <3>3. Told'
      BY <2>1, <2>4, <3>1 DEF Told
    <3>4. Asked'
      BY <3>1 DEF Asked
    <3> QED BY <3>2, <3>3, <3>4
  <2>5. PICK r : r = Head(requests)
    OBVIOUS
  <2>6. CASE r = "Lock" /\ CloseHistory /\ status' = "locked" /\ UNCHANGED <<wpc, job>>
    BY <2>1, <2>2, <2>6 DEF CloseHistory
  <2>7. CASE r = "Reset" /\ CloseHistory /\ wpc' = "delete" /\ job' = Job("Reset", 0, FALSE)
    BY <2>3, <2>7 DEF CloseHistory
  <2>8. CASE status' = "error" /\ UNCHANGED <<key_ready, epoch, wpc, job>>
    BY <2>1, <2>2, <2>8
  <2>9. CASE r \in {Quiet, Ask} /\ wpc' = "load" /\ job' = Job(r, epoch, db # NoKey)
             /\ UNCHANGED <<key_ready, status>>
    BY <2>4, <2>9
  <2> QED BY <1>1, <2>5, <2>6, <2>7, <2>8, <2>9 DEF Take
<1>2. CASE Load
  <2>1. UNCHANGED <<ring, db, wal, key_ready>> /\ wpc = "load"
    BY <1>2 DEF Load, SameGate
  <2>2. CASE End("error")
    BY <2>1, <2>2, CustodyEnds
  <2>3. ASSUME NEW k \in Keys, NEW p \in BOOLEAN, ring = {k}, Unlocked(p),
               Go("open", [job EXCEPT !.key = k, !.prompted = p])
        PROVE  Custody' /\ Told' /\ Asked'
    <3>1. wpc' = "open" /\ job'.key = k /\ job'.op = job.op /\ job'.prompted = p
      BY <2>3 DEF Go, TypeOK, Jobs
    <3>2. job.op = Quiet => ~p
      BY <2>3 DEF Unlocked, MayPrompt
    <3> QED BY <2>1, <2>3, <3>1, <3>2 DEF Custody, Told, Asked
  <2>4. ASSUME NEW p \in BOOLEAN, ring = {}, Creatable, Unlocked(p),
               Go("create", [job EXCEPT !.prompted = p])
        PROVE  Custody' /\ Told' /\ Asked'
    <3>1. /\ wpc' = "create" /\ job'.op = Ask /\ ~job'.existing
          /\ ~job.existing
      BY <2>4 DEF Go, Creatable, TypeOK, Jobs
    <3>2. db = NoKey /\ ~key_ready
      BY <2>1, <3>1, LoginAssumption DEF Custody, Told, LoginAssumption
    <3> QED BY <2>1, <2>4, <3>1, <3>2, LoginAssumption
            DEF Custody, Told, Asked, Quiet, Ask, LoginAssumption
  <2> QED BY <1>2, <2>2, <2>3, <2>4 DEF Load
<1>3. CASE Create
  <2>1. UNCHANGED <<db, wal, key_ready>> /\ wpc = "create" /\ ring = {}
        /\ db = NoKey /\ ~key_ready /\ job.op = Ask
    BY <1>3, LoginAssumption DEF Create, SameGate, Custody, Told, Asked, LoginAssumption
  <2>2. PICK k \in Keys \ ring :
          \/ End("error") /\ UNCHANGED ring
          \/ End("error") /\ ring' = ring \cup {k}
          \/ Go("open", [job EXCEPT !.key = k]) /\ ring' = ring \cup {k}
    BY <1>3 DEF Create
  <2>3. CASE End("error")
    <3>1. UNCHANGED ring \/ ring' = {k}
      BY <2>1, <2>2
    <3> QED BY <2>1, <2>3, <3>1, CustodyEnds
  <2>4. CASE Go("open", [job EXCEPT !.key = k]) /\ ring' = ring \cup {k}
    <3>1. wpc' = "open" /\ job'.key = k /\ job'.op = Ask /\ ring' = {k}
      BY <2>1, <2>4 DEF Go, TypeOK, Jobs
    <3> QED BY <2>1, <3>1, LoginAssumption
            DEF Custody, Told, Asked, Quiet, Ask, LoginAssumption
  <2> QED BY <2>2, <2>3, <2>4
<1>4. CASE Open
  <2>1. UNCHANGED <<ring, wal, key_ready>> /\ wpc = "open"
    BY <1>4 DEF Open, SameGate
  <2>2. CASE End("error") /\ UNCHANGED db
    BY <2>1, <2>2, CustodyEnds
  <2>3. CASE Go("schema", job) /\ db' = IF db = NoKey THEN "new" ELSE db
    <3>1. wpc' = "schema" /\ job' = job
      BY <2>3 DEF Go
    <3>2. db' \in Keys => db' = db
      BY <2>3, LoginAssumption DEF LoginAssumption
    <3>3. db \in Keys => db' = db
      BY <2>3, LoginAssumption DEF LoginAssumption
    <3> QED BY <2>1, <3>1, <3>2, <3>3 DEF Custody, Told, Asked
  <2> QED BY <1>4, <2>2, <2>3 DEF Open
<1>5. CASE Schema
  <2>1. UNCHANGED <<ring, key_ready>> /\ wpc = "schema"
    BY <1>5 DEF Schema, SameGate
  <2>2. CASE End("error") /\ UNCHANGED <<db, wal>>
    BY <2>1, <2>2, CustodyEnds
  <2>3. CASE db' = job.key /\ Go("ready", job)
    <3>1. wpc' = "ready" /\ job' = job
      BY <2>3 DEF Go
    <3> QED BY <2>1, <2>3, <3>1 DEF Custody, Told, Asked
  <2> QED BY <1>5, <2>2, <2>3 DEF Schema
<1>6. CASE Ready
  <2>1. UNCHANGED <<ring, db, wal>> /\ wpc = "ready"
    BY <1>6 DEF Ready, durable
  <2>2. CASE End("error") /\ UNCHANGED key_ready
    BY <2>1, <2>2, CustodyEnds
  <2>3. CASE End("ready") /\ key_ready'
    <3>1. wpc' = "idle" /\ job' = Idle /\ status' = "ready"
      BY <2>3 DEF End
    <3> QED BY <2>1, <2>3, <3>1 DEF Custody, Told, Asked, Idle, Quiet
  <2> QED BY <1>6, <2>2, <2>3 DEF Ready
<1>7. CASE Delete
  <2>1. UNCHANGED <<db, wal, key_ready>> /\ wpc = "delete" /\ ~key_ready
        /\ job.op = "Reset"
    BY <1>7 DEF Delete, SameGate, Told, Asked
  <2>2. ring' \subseteq ring
    BY <1>7 DEF Delete
  <2>3. CASE End("error")
    BY <2>1, <2>2, <2>3, CustodyEnds
  <2>4. CASE Go("delete", job) \/ (Go("erase", job) /\ ring' = {})
    <3>1. wpc' \in {"delete", "erase"} /\ job' = job /\ (wpc' = "erase" => ring' = {})
      BY <2>4 DEF Go
    <3>2. Custody'
      BY <2>1, <2>2, <3>1 DEF Custody
    <3> QED BY <2>1, <3>1, <3>2 DEF Told, Asked
  <2>5. CASE ring = {} /\ Go("erase", job) /\ UNCHANGED <<ring, ringLocked>>
    BY <2>4, <2>5
  <2>6. CASE Go("delete", job)
    BY <2>4, <2>6
  <2> QED BY <1>7, <2>3, <2>5, <2>6 DEF Delete
<1>8. CASE Erase
  <2>1. UNCHANGED <<ring, key_ready>> /\ wpc = "erase" /\ ~key_ready /\ ring = {}
        /\ job.op = "Reset"
    BY <1>8 DEF Erase, SameGate, Told, Asked, Custody
  <2>2. CASE End("error") /\ UNCHANGED <<db, wal>>
    BY <2>1, <2>2, CustodyEnds
  <2>3. CASE AllErased /\ End("reset") /\ UNCHANGED <<db, wal>>
    BY <2>1, <2>3, CustodyEnds DEF AllErased
  <2>4. CASE Go("erase", job)
    <3>1. wpc' = "erase" /\ job' = job
      BY <2>4 DEF Go
    <3> QED BY <2>1, <3>1 DEF Custody, Told, Asked
  <2> QED BY <1>8, <2>2, <2>3, <2>4 DEF Erase
<1> QED BY <1>1, <1>2, <1>3, <1>4, <1>5, <1>6, <1>7, <1>8 DEF Writer

LEMMA InvStep == Inv /\ [Next]_vars => Inv'
<1> SUFFICES ASSUME Inv, [Next]_vars PROVE Inv'
  OBVIOUS
<1>1. CASE UNCHANGED vars
  <2>1. TypeOK'
    BY <1>1, Same, Parts DEF vars, writer, Inv
  <2>2. Custody' /\ Told' /\ Asked'
    BY <1>1, CustodySame DEF vars, gateVars, writer, durable
  <2> QED BY <2>1, <2>2 DEF Inv
<1>2. CASE Next
  <2>1. TypeOK'
    BY <1>2, TypeOutside, TypeGTK, TypeWriter, TypeCrash DEF Next, Inv
  <2>2. Custody' /\ Told' /\ Asked'
    BY <1>2, CustodyOthers, CustodyWriter
  <2> QED BY <2>1, <2>2 DEF Inv
<1> QED BY <1>1, <1>2

LEMMA InvAlways == Spec => []Inv
  BY InvInit, InvStep, PTL DEF Spec

\* However resets, creations and unlockings fail or are cut short, no key but the
\* history's appears while there is a history.
THEOREM NoKeyBesideHistory == Spec => []NoSecondKey
<1>1. Inv => NoSecondKey
  BY DEF Inv, Custody, NoSecondKey
<1> QED BY <1>1, InvAlways, PTL

\* History is open only while its key is in the keyring.
THEOREM OpenHistoryIsKept == Spec => []ReadyIsKept
<1>1. Inv => ReadyIsKept
  BY DEF Inv, Told, ReadyIsKept
<1> QED BY <1>1, InvAlways, PTL

\* A reset that is reported done has left nothing, its predecessors' leavings included.
THEOREM ResetIsComplete == Spec => []ErasedMeansGone
<1>1. Inv => ErasedMeansGone
  BY DEF Inv, Told, ErasedMeansGone
<1> QED BY <1>1, InvAlways, PTL

\* Unlocking in the background shows no prompt and creates no key.
THEOREM BackgroundIsQuiet == Spec => QuietStaysQuiet
<1>1. Inv /\ Inv' /\ [Next]_vars
        => [wpc # "idle" /\ job.op = Quiet => ring' = ring /\ ~job'.prompted]_vars
  <2> SUFFICES ASSUME Inv, Inv', Next, wpc # "idle", job.op = Quiet
               PROVE  ring' = ring /\ ~job'.prompted
    OBVIOUS
  <2>1. wpc \notin {"create", "delete"}
    BY DEF Inv, Asked, Quiet, Ask
  <2>2. ring' = ring
    BY <2>1 DEF Next, Activate, Reply, KeyringLocks, KeyringUnlocks, Hear, UserAsks, Crash,
                Writer, Take, Load, Create, Open, Schema, Ready, Delete, Erase, durable
  <2>3. ~job'.prompted
    <3>1. job' = Idle \/ job'.op = job.op
      BY DEF Next, Activate, Reply, KeyringLocks, KeyringUnlocks, Hear, UserAsks, Crash,
             Writer, Take, Load, Create, Open, Schema, Ready, Delete, Erase, End, Go,
             writer, Inv, TypeOK, Jobs
    <3> QED BY <3>1 DEF Inv, Asked, Idle
  <2> QED BY <2>2, <2>3
<1> QED BY <1>1, InvAlways, PTL DEF Spec, QuietStaysQuiet
-----------------------------------------------------------------------------
(***************************************************************************)
(* What the screen savers say.                                             *)
(***************************************************************************)
\* The last word in a mailbox; a mailbox without a word; its replies to a probe.
Says(q, on) == \E i \in 1..Len(q) : /\ q[i].says = Word(on)
                                    /\ \A j \in (i + 1)..Len(q) : q[j].says = "nothing"
Mute(q)     == \A i \in 1..Len(q) : q[i].says = "nothing"
Silent(q)   == \A i \in 1..Len(q) : q[i].op # "reply"
OneReply(q) == \A i, j \in 1..Len(q) : q[i].op = "reply" /\ q[j].op = "reply" => i = j

\* The probes of which watch_lock has not heard.
Awaited == {s \in Savers : s \in probed \/ ~Silent(mail[s])}

\* A saver's last word is on its way, or is what watch_lock holds for it.
Known(s) ==
  \/ s \notin told /\ Mute(mail[s]) /\ ~states[s]
  \/ s \in told /\ Says(mail[s], active[s])
  \/ s \in told /\ Mute(mail[s]) /\ states[s] = active[s]

Letters(q) ==
  \A m \in Range(q) : m.op = "reply" \/ (m.op = "signal" /\ m.says # "nothing")

Saver(s) ==
  /\ Known(s) /\ Letters(mail[s]) /\ OneReply(mail[s])
  /\ s \in probed => Silent(mail[s])

Keyring == \A m \in Range(mail["keyring"]) : m.op = "gone"
Counted == pending = Cardinality(Awaited)
Decided == pending = 0 => (locked <=> \E s \in Savers : states[s])

Heard == (\A s \in Savers : Saver(s)) /\ Keyring /\ Counted /\ Decided

LEMMA MailAppend ==
  ASSUME NEW q \in Seq(Notes), NEW m \in Notes
  PROVE  /\ Mute(q) /\ m.says = "nothing" => Mute(Append(q, m))
         /\ \A on \in BOOLEAN : m.says = Word(on) => Says(Append(q, m), on)
         /\ \A on \in BOOLEAN : Says(q, on) /\ m.says = "nothing" => Says(Append(q, m), on)
         /\ Silent(Append(q, m)) <=> Silent(q) /\ m.op # "reply"
         /\ OneReply(q) /\ (Silent(q) \/ m.op # "reply") => OneReply(Append(q, m))
<1>1. /\ Len(q) \in Nat /\ Len(Append(q, m)) = Len(q) + 1
      /\ \A i \in 1..Len(q) : Append(q, m)[i] = q[i]
      /\ Append(q, m)[Len(q) + 1] = m
  BY AppendProperties, LenProperties
<1>2. /\ \A i \in 1..(Len(q) + 1) : i \in 1..Len(q) \/ i = Len(q) + 1
      /\ \A i \in 1..Len(q) : i \in 1..(Len(q) + 1)
      /\ Len(q) + 1 \in 1..(Len(q) + 1)
  BY <1>1
<1>3. Mute(q) /\ m.says = "nothing" => Mute(Append(q, m))
  BY <1>1, <1>2 DEF Mute
<1>4. ASSUME NEW on \in BOOLEAN, m.says = Word(on) PROVE Says(Append(q, m), on)
  <2>1. \A j \in (Len(q) + 1 + 1)..(Len(q) + 1) : FALSE
    BY <1>1
  <2> QED BY <1>1, <1>2, <1>4, <2>1 DEF Says
<1>5. ASSUME NEW on \in BOOLEAN, Says(q, on), m.says = "nothing" PROVE Says(Append(q, m), on)
  <2>1. PICK i \in 1..Len(q) : /\ q[i].says = Word(on)
                               /\ \A j \in (i + 1)..Len(q) : q[j].says = "nothing"
    BY <1>5 DEF Says
  <2>2. \A j \in (i + 1)..(Len(q) + 1) : (j \in (i + 1)..Len(q) /\ j \in 1..Len(q)) \/ j = Len(q) + 1
    BY <1>1
  <2>3. \A j \in (i + 1)..(Len(q) + 1) : Append(q, m)[j].says = "nothing"
    BY <1>1, <1>5, <2>1, <2>2
  <2> QED BY <1>1, <1>2, <2>1, <2>3 DEF Says
<1>6. Silent(Append(q, m)) <=> Silent(q) /\ m.op # "reply"
  BY <1>1, <1>2 DEF Silent
<1>7. OneReply(q) /\ (Silent(q) \/ m.op # "reply") => OneReply(Append(q, m))
  BY <1>1, <1>2 DEF Silent, OneReply
<1> QED BY <1>3, <1>4, <1>5, <1>6, <1>7

LEMMA MailTail ==
  ASSUME NEW q \in Seq(Notes), q # << >>
  PROVE  /\ Mute(q) => Mute(Tail(q)) /\ Head(q).says = "nothing"
         /\ \A on \in BOOLEAN : Says(q, on) =>
              Says(Tail(q), on) \/ (Mute(Tail(q)) /\ Head(q).says = Word(on))
         /\ Head(q).op # "reply" => (Silent(Tail(q)) <=> Silent(q))
         /\ OneReply(q) => /\ OneReply(Tail(q))
                           /\ Head(q).op = "reply" => Silent(Tail(q)) /\ ~Silent(q)
<1>1. /\ Len(q) \in Nat \ {0} /\ Len(Tail(q)) = Len(q) - 1 /\ Head(q) = q[1]
      /\ \A i \in 1..Len(Tail(q)) : Tail(q)[i] = q[i + 1]
  BY HeadTailProperties, EmptySeq
<1>2. /\ 1 \in 1..Len(q)
      /\ \A i \in 1..Len(Tail(q)) : i + 1 \in 1..Len(q) /\ i + 1 # 1
      /\ \A i \in 1..Len(q) : i = 1 \/ (i - 1 \in 1..Len(Tail(q)) /\ (i - 1) + 1 = i)
  BY <1>1
<1>3. Mute(q) => Mute(Tail(q)) /\ Head(q).says = "nothing"
  BY <1>1, <1>2 DEF Mute
<1>4. ASSUME NEW on \in BOOLEAN, Says(q, on)
      PROVE  Says(Tail(q), on) \/ (Mute(Tail(q)) /\ Head(q).says = Word(on))
  <2>1. PICK i \in 1..Len(q) : /\ q[i].says = Word(on)
                               /\ \A j \in (i + 1)..Len(q) : q[j].says = "nothing"
    BY <1>4 DEF Says
  <2>2. CASE i = 1
    <3>1. \A j \in 1..Len(Tail(q)) : j + 1 \in (i + 1)..Len(q)
      BY <1>1, <2>2
    <3>2. Mute(Tail(q))
      BY <1>1, <2>1, <3>1 DEF Mute
    <3> QED BY <1>1, <2>1, <2>2, <3>2
  <2>3. CASE i # 1
    <3>1. i - 1 \in 1..Len(Tail(q)) /\ Tail(q)[i - 1] = q[i]
      BY <1>1, <1>2, <2>3
    <3>2. \A j \in (i - 1 + 1)..Len(Tail(q)) : j \in 1..Len(Tail(q)) /\ j + 1 \in (i + 1)..Len(q)
      BY <1>1, <2>3
    <3>3. \A j \in (i - 1 + 1)..Len(Tail(q)) : Tail(q)[j].says = "nothing"
      BY <1>1, <2>1, <3>2
    <3> QED BY <2>1, <3>1, <3>3 DEF Says
  <2> QED BY <2>2, <2>3
<1>5. Head(q).op # "reply" => (Silent(Tail(q)) <=> Silent(q))
  <2>1. Silent(q) => Silent(Tail(q))
    BY <1>1, <1>2 DEF Silent
  <2>2. Head(q).op # "reply" /\ Silent(Tail(q)) => Silent(q)
    <3> SUFFICES ASSUME Head(q).op # "reply", Silent(Tail(q)), NEW i \in 1..Len(q)
                 PROVE  q[i].op # "reply"
      BY DEF Silent
    <3>1. CASE i # 1
      <4>1. i - 1 \in 1..Len(Tail(q)) /\ (i - 1) + 1 = i
        BY <1>2, <3>1
      <4>2. Tail(q)[i - 1] = q[i]
        BY <1>1, <4>1
      <4> QED BY <4>1, <4>2 DEF Silent
    <3> QED BY <1>1, <3>1
  <2> QED BY <2>1, <2>2
<1>6. OneReply(q) => /\ OneReply(Tail(q))
                     /\ Head(q).op = "reply" => Silent(Tail(q)) /\ ~Silent(q)
  <2>1. OneReply(q) => OneReply(Tail(q))
    <3> SUFFICES ASSUME OneReply(q), NEW i \in 1..Len(Tail(q)), NEW j \in 1..Len(Tail(q)),
                        Tail(q)[i].op = "reply", Tail(q)[j].op = "reply"
                 PROVE  i = j
      BY DEF OneReply
    <3>1. i + 1 = j + 1
      BY <1>1, <1>2 DEF OneReply
    <3> QED BY <1>1, <3>1
  <2>2. OneReply(q) /\ Head(q).op = "reply" => Silent(Tail(q)) /\ ~Silent(q)
    BY <1>1, <1>2 DEF OneReply, Silent
  <2> QED BY <2>1, <2>2
<1> QED BY <1>3, <1>4, <1>5, <1>6

LEMMA MailEmpty == Mute(<< >>) /\ Silent(<< >>) /\ OneReply(<< >>) /\ \A on : ~Says(<< >>, on)
  BY DEF Mute, Silent, OneReply, Says

LEMMA WordIs == \A on \in BOOLEAN : Word(on) \in {"on", "off"} /\ (Word(on) = "on" <=> on)
  BY DEF Word

LEMMA AwaitedCount == IsFiniteSet(Awaited) /\ Cardinality(Awaited) \in Nat
<1>1. Awaited \in SUBSET Savers
  BY DEF Awaited
<1> QED BY <1>1, FS_Subset, FS_CardinalityType, LoginAssumption DEF LoginAssumption

LEMMA MailTypes ==
  ASSUME OutsideType
  PROVE  /\ \A s \in Savers : s \in Services /\ s # "keyring" /\ mail[s] \in Seq(Notes)
         /\ "keyring" \in Services /\ mail["keyring"] \in Seq(Notes)
  BY LoginAssumption DEF OutsideType, Services, LoginAssumption

\* A step that does not concern a saver.
LEMMA SaverStays ==
  ASSUME NEW s \in Savers, Saver(s), mail'[s] = mail[s], s \in told' <=> s \in told,
         states'[s] = states[s], active'[s] = active[s], s \in probed' => s \in probed
  PROVE  Saver(s)'
<1>1. Known(s)'
  BY DEF Saver, Known
<1> QED BY <1>1 DEF Saver

\* A start, the first or a later one: no saver has said anything, and all are probed.
LEMMA FreshHeard ==
  ASSUME mail' = [s \in Services |-> << >>], states' = [s \in Savers |-> FALSE],
         probed' = Savers, told' = {}, pending' = Cardinality(Savers)
  PROVE  Heard'
<1>1. \A s \in Services : mail'[s] = << >>
  OBVIOUS
<1>2. (\A s \in Savers : Saver(s))'
  <2> SUFFICES ASSUME NEW s \in Savers PROVE Saver(s)'
    OBVIOUS
  <2>1. mail'[s] = << >> /\ states'[s] = FALSE /\ s \notin told'
    BY <1>1 DEF Services
  <2>2. Letters(<< >>)
    BY RangeEmpty DEF Letters
  <2>3. Known(s)'
    BY <2>1, MailEmpty DEF Known
  <2> QED BY <2>1, <2>2, <2>3, MailEmpty DEF Saver
<1>3. Keyring'
  BY <1>1, RangeEmpty DEF Keyring, Services
<1>4. Awaited' = Savers
  BY DEF Awaited
<1>5. Counted'
  BY <1>4 DEF Counted
<1>6. pending' # 0
  BY FS_EmptySet, LoginAssumption DEF LoginAssumption
<1>7. Decided'
  BY <1>6 DEF Decided
<1> QED BY <1>2, <1>3, <1>5, <1>7 DEF Heard

LEMMA InitHeard == Init => Heard
<1> SUFFICES ASSUME Init PROVE Heard
  OBVIOUS
<1>1. /\ mail = [s \in Services |-> << >>] /\ states = [s \in Savers |-> FALSE]
      /\ probed = Savers /\ told = {} /\ pending = Cardinality(Savers)
  BY DEF Init
<1>2. \A s \in Services : mail[s] = << >>
  BY <1>1
<1>3. \A s \in Savers : Saver(s)
  <2> SUFFICES ASSUME NEW s \in Savers PROVE Saver(s)
    OBVIOUS
  <2>1. mail[s] = << >> /\ states[s] = FALSE /\ s \notin told
    BY <1>1, <1>2 DEF Services
  <2>2. Letters(<< >>)
    BY RangeEmpty DEF Letters
  <2> QED BY <2>1, <2>2, MailEmpty DEF Saver, Known
<1>4. Keyring
  BY <1>2, RangeEmpty DEF Keyring, Services
<1>5. Counted
  <2>1. Awaited = Savers
    BY <1>1 DEF Awaited
  <2> QED BY <1>1, <2>1 DEF Counted
<1>6. Decided
  <2>1. pending # 0
    BY <1>1, FS_EmptySet, LoginAssumption DEF LoginAssumption
  <2> QED BY <2>1 DEF Decided
<1> QED BY <1>3, <1>4, <1>5, <1>6 DEF Heard

\* A saver speaks, or answers its probe.
LEMMA HeardSpeaks ==
  ASSUME TypeOK, Heard, NEW s \in Savers, Activate(s) \/ Reply(s)
  PROVE  Heard'
<1>1. OutsideType /\ states \in [Savers -> BOOLEAN]
  BY Parts DEF WatchType
<1>2. PICK m \in Notes : mail' = [mail EXCEPT ![s] = Append(@, m)] /\
        \/ /\ m.op = "signal" /\ m.says = Word(~active[s]) /\ told' = told \cup {s}
           /\ active' = [active EXCEPT ![s] = ~@] /\ probed' = probed
        \/ /\ m.op = "reply" /\ s \in probed /\ probed' = probed \ {s} /\ active' = active
           /\ \/ m.says = Word(active[s]) /\ told' = told \cup {s}
              \/ m.says = "nothing" /\ told' = told
  <2>1. CASE Activate(s)
    <3>1. [op |-> "signal", says |-> Word(~active[s])] \in Notes
      BY DEF Notes, Word
    <3> QED BY <2>1, <3>1 DEF Activate, Send
  <2>2. CASE Reply(s)
    <3>1. \A x \in {"on", "off", "nothing"} : [op |-> "reply", says |-> x] \in Notes
      BY DEF Notes
    <3>2. Word(active[s]) \in {"on", "off", "nothing"}
      BY DEF Word
    <3> QED BY <2>2, <3>1, <3>2 DEF Reply, Send
  <2> QED BY <2>1, <2>2
<1>3. UNCHANGED <<locked, states, pending>>
  BY DEF Activate, Reply, gateVars, watch
<1>4. /\ mail[s] \in Seq(Notes) /\ mail'[s] = Append(mail[s], m)
      /\ \A x \in Services \ {s} : mail'[x] = mail[x]
      /\ Range(mail'[s]) = Range(mail[s]) \cup {m}
  <2>1. mail[s] \in Seq(Notes) /\ s \in Services
    BY <1>1, MailTypes
  <2>2. mail'[s] = Append(mail[s], m) /\ \A x \in Services \ {s} : mail'[x] = mail[x]
    BY <1>1, <1>2, <2>1 DEF OutsideType
  <2> QED BY <2>1, <2>2, RangeAppend
<1>5. active[s] \in BOOLEAN /\ active \in [Savers -> BOOLEAN]
  BY <1>1 DEF OutsideType
<1>6. Saver(s)
  BY DEF Heard
<1>7. m.says = "nothing" \/ \E on \in BOOLEAN : m.says = Word(on)
  BY <1>2, <1>5
<1>8. Known(s)'
  <2>1. CASE m.says = Word(active'[s]) /\ s \in told' /\ active'[s] \in BOOLEAN
    BY <1>4, <2>1, MailAppend DEF Known
  <2>2. CASE m.says = "nothing" /\ told' = told /\ active' = active
    BY <1>3, <1>4, <1>5, <1>6, <2>2, MailAppend DEF Saver, Known
  <2> QED BY <1>2, <1>5, <2>1, <2>2
<1>9. Letters(mail'[s])
  <2>1. m.op = "reply" \/ (m.op = "signal" /\ m.says # "nothing")
    BY <1>2, <1>5, WordIs
  <2> QED BY <1>4, <1>6, <2>1 DEF Saver, Letters
<1>10. OneReply(mail'[s]) /\ (s \in probed' => Silent(mail'[s]))
  BY <1>2, <1>4, <1>6, MailAppend DEF Saver
<1>11. ASSUME NEW x \in Savers PROVE Saver(x)'
  <2>1. CASE x = s
    BY <1>8, <1>9, <1>10, <2>1 DEF Saver
  <2>2. CASE x # s
    <3>1. mail'[x] = mail[x]
      BY <1>4, <2>2 DEF Services
    <3>2. active'[x] = active[x]
      BY <1>2, <1>5, <2>2
    <3>3. (x \in told' <=> x \in told) /\ (x \in probed' => x \in probed)
      BY <1>2, <2>2
    <3> QED BY <1>3, <3>1, <3>2, <3>3, SaverStays DEF Heard
  <2> QED BY <2>1, <2>2
<1>12. Keyring'
  <2>1. mail'["keyring"] = mail["keyring"]
    BY <1>1, <1>4, MailTypes
  <2> QED BY <2>1 DEF Heard, Keyring
<1>13. Awaited' = Awaited
  <2> SUFFICES ASSUME NEW x \in Savers
               PROVE  (x \in probed' \/ ~Silent(mail'[x])) <=> (x \in probed \/ ~Silent(mail[x]))
    BY DEF Awaited
  <2>1. CASE x = s
    BY <1>2, <1>4, <2>1, MailAppend
  <2>2. CASE x # s
    <3>1. mail'[x] = mail[x]
      BY <1>4, <2>2 DEF Services
    <3>2. x \in probed' <=> x \in probed
      BY <1>2, <2>2
    <3> QED BY <3>1, <3>2
  <2> QED BY <2>1, <2>2
<1> QED BY <1>3, <1>11, <1>12, <1>13 DEF Heard, Counted, Decided

\* watch_lock takes a letter of a saver.
LEMMA HeardHears ==
  ASSUME TypeOK, Heard, NEW s \in Savers, Hear(s)
  PROVE  Heard'
<1> DEFINE m == Head(mail[s])
<1>1. /\ OutsideType /\ states \in [Savers -> BOOLEAN] /\ pending \in Nat
      /\ active[s] \in BOOLEAN
  BY Parts DEF WatchType, OutsideType
<1>2. /\ mail[s] \in Seq(Notes) /\ mail[s] # << >> /\ mail' = [mail EXCEPT ![s] = Tail(@)]
      /\ s \in Services /\ s # "keyring"
  BY <1>1, MailTypes DEF Hear
<1>3. /\ mail'[s] = Tail(mail[s]) /\ \A x \in Services \ {s} : mail'[x] = mail[x]
      /\ m \in Range(mail[s]) /\ Range(mail'[s]) \subseteq Range(mail[s])
  <2>1. mail'[s] = Tail(mail[s]) /\ \A x \in Services \ {s} : mail'[x] = mail[x]
    BY <1>1, <1>2 DEF OutsideType
  <2> QED BY <1>2, <2>1, RangeTail
<1>4. UNCHANGED <<active, probed, told>>
  BY DEF Hear
<1>5. Saver(s) /\ (m.op = "reply" \/ (m.op = "signal" /\ m.says # "nothing"))
  BY <1>3 DEF Heard, Saver, Letters
<1>6. \/ m.op = "signal" /\ OnSignal(s, m)
      \/ m.op = "reply" /\ OnReply(s, m)
  BY <1>5 DEF Hear
<1>7. /\ states' = IF m.says = "nothing" THEN states ELSE [states EXCEPT ![s] = m.says = "on"]
      /\ m.op = "reply" => pending' = IF pending = 0 THEN 0 ELSE pending - 1
      /\ m.op = "signal" => pending' = pending
      /\ m.op = "signal" \/ pending' = 0 => (locked' <=> \E x \in DOMAIN states' : states'[x])
      /\ m.op # "signal" /\ pending' # 0 => locked' = locked
  BY <1>5, <1>6 DEF OnSignal, OnReply, AnyLocked
<1>8. states' \in [Savers -> BOOLEAN]
  BY <1>1, <1>7
<1>9. Known(s)'
  <2>1. CASE s \notin told /\ Mute(mail[s]) /\ ~states[s]
    <3>1. Mute(Tail(mail[s])) /\ m.says = "nothing"
      BY <1>2, <2>1, MailTail
    <3> QED BY <1>3, <1>4, <1>7, <2>1, <3>1 DEF Known
  <2>2. CASE s \in told /\ Says(mail[s], active[s])
    <3>1. Says(Tail(mail[s]), active[s]) \/ (Mute(Tail(mail[s])) /\ m.says = Word(active[s]))
      BY <1>1, <1>2, <2>2, MailTail
    <3>2. m.says = Word(active[s]) => states'[s] = active[s]
      BY <1>1, <1>7, WordIs
    <3> QED BY <1>3, <1>4, <2>2, <3>1, <3>2 DEF Known
  <2>3. CASE s \in told /\ Mute(mail[s]) /\ states[s] = active[s]
    <3>1. Mute(Tail(mail[s])) /\ m.says = "nothing"
      BY <1>2, <2>3, MailTail
    <3> QED BY <1>3, <1>4, <1>7, <2>3, <3>1 DEF Known
  <2> QED BY <1>5, <2>1, <2>2, <2>3 DEF Saver, Known
<1>10. Saver(s)'
  <2>1. Letters(mail'[s])
    BY <1>3, <1>5 DEF Saver, Letters
  <2>2. OneReply(mail'[s]) /\ (m.op = "reply" => Silent(mail'[s]) /\ ~Silent(mail[s]))
        /\ (m.op # "reply" => (Silent(mail'[s]) <=> Silent(mail[s])))
    BY <1>2, <1>3, <1>5, MailTail DEF Saver
  <2> QED BY <1>4, <1>5, <1>9, <2>1, <2>2 DEF Saver
<1>11. ASSUME NEW x \in Savers PROVE Saver(x)'
  <2>1. CASE x # s
    <3>1. mail'[x] = mail[x]
      BY <1>3, <2>1 DEF Services
    <3>2. states'[x] = states[x]
      BY <1>1, <1>7, <2>1
    <3> QED BY <1>4, <3>1, <3>2, SaverStays DEF Heard
  <2> QED BY <1>10, <2>1
<1>12. Keyring'
  <2>1. mail'["keyring"] = mail["keyring"]
    BY <1>1, <1>2, <1>3, MailTypes
  <2> QED BY <2>1 DEF Heard, Keyring
<1>13. m.op # "reply" => Awaited' = Awaited
  <2> SUFFICES ASSUME m.op # "reply", NEW x \in Savers
               PROVE  (x \in probed' \/ ~Silent(mail'[x])) <=> (x \in probed \/ ~Silent(mail[x]))
    BY DEF Awaited
  <2>1. CASE x = s
    BY <1>2, <1>3, <1>4, <2>1, MailTail
  <2>2. CASE x # s
    <3>1. mail'[x] = mail[x]
      BY <1>3, <2>2 DEF Services
    <3> QED BY <1>4, <3>1
  <2> QED BY <2>1, <2>2
<1>14. m.op = "reply" => s \in Awaited /\ Awaited' = Awaited \ {s}
  <2> SUFFICES ASSUME m.op = "reply" PROVE s \in Awaited /\ Awaited' = Awaited \ {s}
    OBVIOUS
  <2>1. Silent(mail'[s]) /\ ~Silent(mail[s]) /\ s \notin probed
    BY <1>2, <1>3, <1>5, MailTail DEF Saver
  <2>2. \A x \in Savers \ {s} : mail'[x] = mail[x]
    BY <1>3 DEF Services
  <2> QED BY <1>4, <2>1, <2>2 DEF Awaited
<1>15. Counted'
  <2>1. CASE m.op = "reply"
    <3>1. Cardinality(Awaited \ {s}) = Cardinality(Awaited) - 1
      BY <1>14, <2>1, AwaitedCount, FS_RemoveElement
    <3>2. Cardinality(Awaited) # 0
      BY <1>14, <2>1, AwaitedCount, FS_EmptySet
    <3> QED BY <1>7, <1>14, <2>1, <3>1, <3>2, AwaitedCount DEF Heard, Counted
  <2>2. CASE m.op = "signal"
    BY <1>7, <1>13, <2>2 DEF Heard, Counted
  <2> QED BY <1>5, <2>1, <2>2
<1>16. Decided'
  <2>1. DOMAIN states' = Savers
    BY <1>8
  <2> QED BY <1>5, <1>7, <2>1 DEF Decided
<1> QED BY <1>11, <1>12, <1>15, <1>16 DEF Heard

\* Everyone else leaves the savers' letters and watch_lock alone.
LEMMA HeardElse ==
  ASSUME Heard, \A s \in Savers : mail'[s] = mail[s], Keyring',
         UNCHANGED <<active, probed, told, states, pending, locked>>
  PROVE  Heard'
<1>1. \A s \in Savers : Saver(s)'
  BY SaverStays DEF Heard
<1>2. Awaited' = Awaited
  BY DEF Awaited
<1> QED BY <1>1, <1>2 DEF Heard, Counted, Decided

LEMMA HeardStep == TypeOK /\ Heard /\ [Next]_vars => Heard'
<1> SUFFICES ASSUME TypeOK, Heard, [Next]_vars PROVE Heard'
  OBVIOUS
<1>1. OutsideType
  BY Parts
<1>2. CASE Writer \/ KeyringUnlocks \/ (\E r \in {Ask, "Reset"} : UserAsks(r)) \/ UNCHANGED vars
  <2>1. UNCHANGED <<outside, watch, locked>>
    BY <1>2 DEF Writer, Take, Load, Create, Open, Schema, Ready, Delete, Erase, WriterOnly,
               KeyringUnlocks, UserAsks, gateVars, vars
  <2>2. Keyring'
    BY <2>1 DEF Heard, Keyring, outside
  <2> QED BY <2>1, <2>2, HeardElse DEF outside, watch
<1>3. CASE KeyringLocks
  <2> DEFINE m == [op |-> "gone", says |-> "nothing"]
  <2>1. m \in Notes /\ m.op = "gone"
    BY DEF Notes
  <2>2. mail' = [mail EXCEPT !["keyring"] = Append(@, m)]
    BY <1>3 DEF KeyringLocks, Send
  <2> HIDE DEF m
  <2>3. mail'["keyring"] = Append(mail["keyring"], m) /\ \A s \in Savers : mail'[s] = mail[s]
    BY <1>1, <2>2, MailTypes DEF OutsideType
  <2>4. Keyring'
    <3>1. Range(mail'["keyring"]) = Range(mail["keyring"]) \cup {m}
      BY <1>1, <2>1, <2>3, MailTypes, RangeAppend
    <3> QED BY <2>1, <3>1 DEF Heard, Keyring
  <2>5. UNCHANGED <<active, probed, told, states, pending, locked>>
    BY <1>3 DEF KeyringLocks, gateVars, watch
  <2> QED BY <2>3, <2>4, <2>5, HeardElse
<1>4. CASE Hear("keyring")
  <2>1. /\ mail["keyring"] \in Seq(Notes) /\ mail["keyring"] # << >>
        /\ mail' = [mail EXCEPT !["keyring"] = Tail(@)]
        /\ UNCHANGED <<active, probed, told>>
    BY <1>1, <1>4, MailTypes DEF Hear
  <2>2. mail'["keyring"] = Tail(mail["keyring"]) /\ \A s \in Savers : mail'[s] = mail[s]
    BY <1>1, <2>1, MailTypes DEF OutsideType
  <2>3. Range(mail'["keyring"]) \subseteq Range(mail["keyring"]) /\ Head(mail["keyring"]).op = "gone"
    BY <2>1, <2>2, RangeTail DEF Heard, Keyring
  <2>4. UNCHANGED <<locked, states, pending>>
    BY <1>4, <2>3 DEF Hear, watch
  <2>5. Keyring'
    BY <2>3 DEF Heard, Keyring
  <2> QED BY <2>1, <2>2, <2>4, <2>5, HeardElse
<1>5. CASE Crash
  BY <1>5, FreshHeard DEF Crash
<1> QED BY <1>2, <1>3, <1>4, <1>5, HeardSpeaks, HeardHears DEF Next, Services

\* The gate is locked exactly if a saver is on, once all have been heard: for any number
\* of savers, in whatever order their signals and replies come (ui.rs:1126-1169).
THEOREM LockIsTheSavers == Spec => []LockIsKnown
<1>1. TypeOK /\ Heard => LockIsKnown
  <2> SUFFICES ASSUME TypeOK, Heard, pending = 0, \A s \in DOMAIN mail : mail[s] = << >>
               PROVE  locked <=> \E s \in Savers : active[s] /\ s \in told
    BY DEF LockIsKnown
  <2>1. \A s \in Savers : mail[s] = << >> /\ active[s] \in BOOLEAN
    BY Parts DEF OutsideType, Services
  <2>2. \A s \in Savers : states[s] <=> active[s] /\ s \in told
    BY <2>1, MailEmpty DEF Heard, Saver, Known
  <2> QED BY <2>2 DEF Heard, Decided
<1> QED BY <1>1, InitHeard, HeardStep, TypeCorrect, PTL DEF Spec
=============================================================================
