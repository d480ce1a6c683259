------------------------------- MODULE Transfer -----------------------------
(***************************************************************************)
(* How the X11 thread fetches what the owner of the clipboard offers       *)
(* (src/clipboard/x11.rs, begin, event, read_property and next).           *)
(*                                                                         *)
(* The thread converts the selection to TARGETS, then to each target it    *)
(* supports, one after the other.  A conversion goes to whoever owns the   *)
(* selection when the server gets it; the answer is written into one       *)
(* property of this program's window, whole or in chunks (INCR), and       *)
(* announced by notes the thread reads later.  Neither the property nor    *)
(* the note says whose answer it is.                                       *)
(*                                                                         *)
(* Each change of the owner is a claim.  Requests of other programs, and   *)
(* what is published here, are in Preservation; the capture after the      *)
(* fetch is in Capture, and what is made of it in Content.                 *)
(***************************************************************************)
EXTENDS Gate, Sequences, Functions, Select

CONSTANTS
  None,         \* no offer, no transfer, no property
  Atoms,        \* targets an application may offer
  Allowed,      \* those the program fetches (MIME_ALLOWLIST)
  Hint,         \* one that forbids to fetch anything of its offer
  Offers,       \* what an application may offer: sequences of targets
  MaxItem,      \* bytes of an item
  Sizes,        \* bytes of an answer or a chunk
  MaxChunks,    \* chunks of an answer
  MaxClaims,    \* changes of the owner
  MaxEpoch      \* invalidations

Claims == 1..MaxClaims

\* A property is what a claim wrote for a target, in one of three formats.
Property == [from : Claims, for : Allowed \cup {"TARGETS"},
             form : {"atoms", "bytes", "incr"}, size : Nat]

ASSUME TransferAssumption ==
  /\ Allowed \subseteq Atoms /\ Hint \in Atoms \ Allowed /\ "TARGETS" \notin Atoms
  /\ None \notin Offers /\ None \notin Property /\ Offers \subseteq Seq(Atoms)
  /\ MaxItem \in Nat /\ Sizes \subseteq Nat /\ MaxChunks \in Nat
  /\ MaxClaims \in Nat /\ MaxEpoch \in Nat

VARIABLES
  offers,      \* X server: what each claim offers
  asked,       \* X server -> applications: conversions to answer, by claim
  feeding,     \* chunks each claim has yet to write for the answer it is giving
  property,    \* X server: _CLIPLEDGE_TRANSFER of this program's window
  notes,       \* X server -> X11 thread
  transfer,    \* Backend.transfer
  raw,         \* history variable: the captures that were passed on
  crossed      \* history variable: a conversion went to, or an answer came from,
               \* another owner than the one whose offer was being fetched

serverVars == <<offers, asked, feeding, property, notes>>
vars == <<gateVars, serverVars, transfer, raw, crossed>>

Owner  == Len(offers)
Data   == [from : Claims, for : Allowed]
Rep    == [mime : Allowed, given : SUBSET Data]

Transfers == [claim : Claims, epoch : Nat, targets : Seq(Allowed),
              current : Allowed \cup {"TARGETS"}, bytes : Nat, given : SUBSET Data,
              incremental : BOOLEAN, total : Nat, reps : Seq(Rep)]

TypeOK ==
  /\ GateTypeOK
  /\ offers \in Seq(Offers \cup {None})
  /\ asked \in [Claims -> Seq(Allowed \cup {"TARGETS"})]
  /\ feeding \in [Claims -> Seq(Allowed) \X Nat]
  /\ property \in Property \cup {None}
  /\ transfer \in Transfers \cup {None}
  /\ crossed \in BOOLEAN
  /\ \A r \in raw : r.claim \in Claims /\ r.reps \in Seq(Rep)

Init ==
  /\ paused = FALSE /\ locked = FALSE /\ key_ready = TRUE
  /\ capacity = TRUE /\ backend = TRUE /\ epoch = 0
  /\ offers = << >> /\ asked = [c \in Claims |-> << >>]
  /\ feeding = [c \in Claims |-> << <<>>, 0 >>]
  /\ property = None /\ notes = << >>
  /\ transfer = None /\ raw = {} /\ crossed = FALSE
-----------------------------------------------------------------------------
(***************************************************************************)
(* The applications.                                                       *)
(***************************************************************************)
ServerOnly == UNCHANGED <<gateVars, transfer, raw>>

\* An application takes the selection, or gives it up.
Copy(offer) ==
  /\ Owner < MaxClaims
  /\ offers' = Append(offers, offer)
  /\ notes' = Append(notes, [op |-> "owner", claim |-> Owner + 1])
  /\ UNCHANGED <<asked, feeding, property, crossed>>
  /\ ServerOnly

\* It answers the first conversion it was asked for, perhaps after it lost the
\* selection: with the list of its targets,
\* with bytes, with the promise of chunks, or with a refusal.
Write(p, answered) ==
  /\ property' = p
  /\ notes' = notes \o << [op |-> "new"] >>
                    \o IF answered THEN << [op |-> "answer", ok |-> TRUE] >> ELSE << >>
Answer(c) ==
  /\ asked[c] # << >>
  /\ asked' = [asked EXCEPT ![c] = Tail(@)]
  /\ crossed' = (crossed \/ c # Owner)
  /\ UNCHANGED offers
  /\ LET target == Head(asked[c])
     IN  \/ /\ target = "TARGETS"
            /\ Write([from |-> c, for |-> target, form |-> "atoms", size |-> 1], TRUE)
            /\ UNCHANGED feeding
         \/ /\ target # "TARGETS"
            /\ \E n \in Sizes :
                 Write([from |-> c, for |-> target, form |-> "bytes", size |-> n], TRUE)
            /\ UNCHANGED feeding
         \/ /\ target # "TARGETS" /\ MaxChunks > 0 /\ feeding[c][1] = << >>
            /\ Write([from |-> c, for |-> target, form |-> "incr", size |-> 1], TRUE)
            /\ feeding' = [feeding EXCEPT ![c] = << <<target>>, MaxChunks >>]
         \/ /\ target # "TARGETS"
            /\ notes' = Append(notes, [op |-> "answer", ok |-> FALSE])
            /\ UNCHANGED <<property, feeding>>
  /\ ServerOnly

\* It writes the next chunk when the last one was taken; an empty one is the end.
Feed(c) ==
  /\ feeding[c][1] # << >> /\ property = None
  /\ LET target == Head(feeding[c][1])
         left   == feeding[c][2]
     IN  \/ /\ left > 0
            /\ \E n \in Sizes \ {0} :
                 Write([from |-> c, for |-> target, form |-> "bytes", size |-> n], FALSE)
            /\ feeding' = [feeding EXCEPT ![c][2] = left - 1]
         \/ /\ Write([from |-> c, for |-> target, form |-> "bytes", size |-> 0], FALSE)
            /\ feeding' = [feeding EXCEPT ![c] = << <<>>, 0 >>]
  /\ crossed' = (crossed \/ c # Owner)
  /\ UNCHANGED <<offers, asked>>
  /\ ServerOnly

\* The user pauses capture or takes the pause back.
Pause ==
  /\ epoch < MaxEpoch
  /\ paused' = ~paused /\ invalidate
  /\ UNCHANGED <<locked, key_ready, capacity, backend, serverVars, transfer, raw, crossed>>
-----------------------------------------------------------------------------
(***************************************************************************)
(* The X11 thread.                                                         *)
(***************************************************************************)
\* A target of claim c is asked for, whoever owns the selection by now; the property is
\* emptied first.  The server answers for a selection without owner.
Convert(c, target, rest) ==
  /\ property' = None
  /\ crossed' = (crossed \/ c # Owner)
  /\ IF Owner > 0 /\ offers[Owner] # None
     THEN asked' = [asked EXCEPT ![Owner] = Append(@, target)] /\ notes' = rest
     ELSE notes' = Append(rest, [op |-> "answer", ok |-> FALSE]) /\ UNCHANGED asked

\* next, of a transfer t; p is what becomes of the property otherwise.
NextTarget(t, p, rest) ==
  IF t.targets # << >>
  THEN /\ transfer' = [t EXCEPT !.targets = Tail(@), !.current = Head(t.targets),
                                !.bytes = 0, !.given = {}, !.incremental = FALSE]
       /\ Convert(t.claim, Head(t.targets), rest)
       /\ UNCHANGED raw
  ELSE /\ transfer' = None
       /\ property' = p
       /\ raw' = IF t.reps # << >> /\ accepts(t.epoch)
                 THEN raw \cup {[claim |-> t.claim, reps |-> t.reps]} ELSE raw
       /\ notes' = rest
       /\ UNCHANGED <<asked, crossed>>

\* The transfer goes on, or not at all.
Become(t, p, rest) ==
  /\ transfer' = t /\ property' = p /\ notes' = rest
  /\ UNCHANGED <<asked, raw, crossed>>

\* begin: of what is known of the last owner nothing is kept.
Begin(c, rest) ==
  IF offers[c] # None /\ eligible
  THEN /\ transfer' = [claim |-> c, epoch |-> epoch, targets |-> << >>,
                       current |-> "TARGETS", bytes |-> 0, given |-> {},
                       incremental |-> FALSE, total |-> 0, reps |-> << >>]
       /\ Convert(c, "TARGETS", rest)
       /\ UNCHANGED raw
  ELSE Become(None, property, rest)

\* Mutant of left: what came in chunks is not counted.
leftOfTotal(t) == MaxItem - t.total

\* How much may still come.
left(t) == MaxItem - (t.total + t.bytes)

\* Mutants of Supported and Rejects: the list is not filtered; only its head is looked
\* at.
AllOffered(offer)  == offer
RejectsHead(offer) == offer # << >> /\ Head(offer) = Hint

Supported(offer) == SelectIn(offer, Allowed)
Rejects(offer)   == Hint \in Range(offer)

\* The list of targets.
ReadTargets(t, rest) ==
  IF property = None \/ property.form # "atoms" \/ Rejects(offers[property.from])
  THEN Become(None, None, rest)
  ELSE NextTarget([t EXCEPT !.targets = Supported(offers[property.from])], None, rest)

\* The bytes of a target: all of them, a chunk, or the end of the chunks.
ReadBytes(t, chunk, rest) ==
  LET size  == IF property = None THEN 0 ELSE property.size
      given == IF size = 0 THEN {} ELSE {[from |-> property.from, for |-> property.for]}
      bytes == IF chunk THEN t.bytes ELSE size
      all   == IF chunk THEN t.given ELSE given
  IN  IF property # None /\ property.form # "bytes"
      THEN Become(None, None, rest)
      ELSE IF chunk /\ size > 0
      THEN Become([t EXCEPT !.bytes = @ + size, !.given = @ \cup given], None, rest)
      ELSE NextTarget([t EXCEPT !.bytes = 0, !.given = {}, !.total = @ + bytes,
                                !.incremental = FALSE,
                                !.reps = IF bytes = 0 THEN @
                                         ELSE Append(@, [mime |-> t.current, given |-> all])],
                      None, rest)

\* read_property: what is in the property is taken for what was asked for.
Read(t, chunk, rest) ==
  IF ~accepts(t.epoch) THEN Become(None, property, rest)
  ELSE IF /\ property # None /\ t.current # "TARGETS" /\ property.size > left(t)
  THEN \E p \in {property, None} : Become(None, p, rest)
  ELSE IF property # None /\ property.form = "incr" /\ ~chunk
  THEN Become([t EXCEPT !.incremental = TRUE], None, rest)
  ELSE IF t.current = "TARGETS"
  THEN ReadTargets(t, rest)
  ELSE ReadBytes(t, chunk, rest)

\* Mutant of Listens: every new property is read.
ListensAlways(t) == t # None

\* Whether a new property is read without an answer.
Listens(t) == t # None /\ t.incremental

\* The thread handles a note: the owner changed, a conversion was answered, or the
\* property is new.
Handle ==
  /\ notes # << >>
  /\ UNCHANGED <<gateVars, offers, feeding>>
  /\ LET n    == Head(notes)
         rest == Tail(notes)
     IN  \/ n.op = "owner" /\ Begin(n.claim, rest)
         \/ n.op = "answer" /\ transfer = None /\ Become(None, property, rest)
         \/ n.op = "answer" /\ transfer # None /\ n.ok /\ Read(transfer, FALSE, rest)
         \/ n.op = "answer" /\ transfer # None /\ ~n.ok
              /\ NextTarget(transfer, property, rest)
         \/ n.op = "new" /\ Listens(transfer) /\ Read(transfer, TRUE, rest)
         \/ n.op = "new" /\ ~Listens(transfer) /\ Become(transfer, property, rest)

\* No progress for 2 s, 10 s in all, or the gate is closed.
GiveUp ==
  /\ transfer # None
  /\ transfer' = None
  /\ UNCHANGED <<gateVars, serverVars, raw, crossed>>

Next ==
  \/ \E offer \in Offers \cup {None} : Copy(offer)
  \/ \E c \in Claims : Answer(c) \/ Feed(c)
  \/ Pause
  \/ Handle
  \/ GiveUp

Spec == Init /\ [][Next]_vars
-----------------------------------------------------------------------------
(***************************************************************************)
(* Properties.                                                             *)
(***************************************************************************)
\* What is held of an item never exceeds its limit, whoever answers, in whatever
\* chunks, and whichever answers are taken for others (x11.rs:417-436).
WithinItem == transfer # None => transfer.total + transfer.bytes <= MaxItem

\* Unless owners overlapped, nothing but its list of targets is asked of an application
\* that offers the hint, and so nothing of it is passed on, whichever transfers were
\* given up or outdated and however its answers came (x11.rs:462-476, 499-515).
HintedNeverAsked ==
  ~crossed => \A c \in 1..Owner :
    offers[c] # None /\ Hint \in Range(offers[c]) => Range(asked[c]) \subseteq {"TARGETS"}

\* Unless owners overlapped, answers stay paired with conversions over refusals, chunks
\* and transfers that were given up: what is filed under a target is what the owner of
\* that offer gave for it (x11.rs:252-274, 480-515).
FiledAsGiven ==
  ~crossed => \A r \in raw : \A i \in DOMAIN r.reps :
    r.reps[i].given \subseteq {[from |-> r.claim, for |-> r.reps[i].mime]}

\* A capture holds bytes of the owner it is tagged with and of no other
\* (clipboard/mod.rs:4).
TaggedWithOwner ==
  \A r \in raw : \A i \in DOMAIN r.reps : \A d \in r.reps[i].given : d.from = r.claim
=============================================================================
