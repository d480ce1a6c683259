---------------------------- MODULE TransferProofs --------------------------
(***************************************************************************)
(* Theorems about fetches, for any targets, offers, sizes and bounds: how  *)
(* much is held, of whom nothing but a list is asked, and that answers     *)
(* stay paired with conversions as long as owners do not overlap.          *)
(***************************************************************************)
EXTENDS Transfer, DataLemmas

Targets   == Allowed \cup {"TARGETS"}
NoteTypes == [op : {"owner"}, claim : Claims] \cup [op : {"answer"}, ok : BOOLEAN]
               \cup [op : {"new"}]
-----------------------------------------------------------------------------
(***************************************************************************)
(* The invariant.                                                          *)
(***************************************************************************)
\* Only claims that were made, and offer something, are spoken to.
Real(c) == c <= Owner /\ offers[c] # None

Partners ==
  /\ notes \in Seq(NoteTypes) /\ Owner \in 0..MaxClaims
  /\ \A n \in Range(notes) : n.op = "owner" => n.claim <= Owner
  /\ \A c \in Claims : asked[c] # << >> \/ feeding[c][1] # << >> => Real(c)
  /\ property # None =>
       Real(property.from) /\ (property.form # "atoms" => property.for # "TARGETS")
  /\ transfer # None => Real(transfer.claim)

\* Owners have not overlapped: the notes of owners are the end of the queue and count up
\* to the present owner, of whom nothing is asked before its note is handled.
LastIsOwner == notes # << >> /\ notes[Len(notes)].op = "owner"

Lined ==
  /\ \A i \in 1..Len(notes) : notes[i].op = "owner" =>
       /\ notes[i].claim = Owner - (Len(notes) - i)
       /\ \A j \in i..Len(notes) : notes[j].op = "owner"
  /\ transfer # None => (transfer.claim = Owner <=> ~LastIsOwner)
  /\ LastIsOwner => asked[Owner] = << >> /\ feeding[Owner][1] = << >>

\* A conversion is in one of five phases: it awaits its answer, has one, is refused, or
\* awaits or has a chunk.  The notes of it come before those of later owners.
OwnersFrom(k) == \A i \in 1..Len(notes) : i >= k => notes[i].op = "owner"
Pending == asked[transfer.claim]
Chunks  == feeding[transfer.claim][1]
Written == property # None /\ property.from = transfer.claim /\ property.for = transfer.current
Announced  == /\ Len(notes) >= 2 /\ notes[1].op = "new" /\ notes[2].op = "answer" /\ notes[2].ok
              /\ OwnersFrom(3)
Result(ok) == Len(notes) >= 1 /\ notes[1].op = "answer" /\ (notes[1].ok <=> ok) /\ OwnersFrom(2)

AwaitsAnswer ==
  /\ Pending = <<transfer.current>> /\ property = None /\ Chunks = << >>
  /\ ~transfer.incremental /\ OwnersFrom(1)

HasAnswer ==
  /\ Pending = << >> /\ Written /\ ~transfer.incremental
  /\ IF property.form = "incr" THEN Chunks = <<transfer.current>> ELSE Chunks = << >>
  /\ Announced \/ Result(TRUE)

Refused ==
  /\ Pending = << >> /\ property = None /\ Chunks = << >>
  /\ ~transfer.incremental /\ Result(FALSE)

AwaitsChunk ==
  /\ Pending = << >> /\ property = None /\ Chunks = <<transfer.current>>
  /\ transfer.incremental /\ OwnersFrom(1)

HasChunk ==
  /\ Pending = << >> /\ Written /\ transfer.incremental /\ property.form = "bytes"
  /\ IF property.size = 0 THEN Chunks = << >> ELSE Chunks = <<transfer.current>>
  /\ Len(notes) >= 1 /\ notes[1].op = "new" /\ OwnersFrom(2)

Converting == AwaitsAnswer \/ HasAnswer \/ Refused \/ AwaitsChunk \/ HasChunk

\* What is filed is the owner's, and nothing is asked of who offers the hint.
Filed(c, reps) ==
  \A i \in DOMAIN reps : reps[i].given \subseteq {[from |-> c, for |-> reps[i].mime]}

Trusted ==
  /\ transfer.targets # << >> \/ transfer.current # "TARGETS"
       => Hint \notin Range(offers[transfer.claim])
  /\ transfer.given \subseteq {[from |-> transfer.claim, for |-> transfer.current]}
  /\ Filed(transfer.claim, transfer.reps)

Paired == /\ transfer # None => Converting /\ Trusted
          /\ \A r \in raw : Filed(r.claim, r.reps)

\* What holds whether or not owners overlapped, and what holds as long as they do not.
Sound == TypeOK /\ WithinItem /\ Partners
Apart == Lined /\ Paired /\ HintedNeverAsked

Inv == Sound /\ (~crossed => Apart)
-----------------------------------------------------------------------------
(***************************************************************************)
(* What becomes of a transfer.                                             *)
(***************************************************************************)
Turned(t) == [t EXCEPT !.targets = Tail(@), !.current = Head(t.targets),
                       !.bytes = 0, !.given = {}, !.incremental = FALSE]
Started(c) == [claim |-> c, epoch |-> epoch, targets |-> << >>, current |-> "TARGETS",
               bytes |-> 0, given |-> {}, incremental |-> FALSE, total |-> 0, reps |-> << >>]
Listed(t, offer) == [t EXCEPT !.targets = Supported(offer)]
Chunked(t, size, given) == [t EXCEPT !.bytes = @ + size, !.given = @ \cup given]
Ended(t, bytes, all) ==
  [t EXCEPT !.bytes = 0, !.given = {}, !.total = @ + bytes, !.incremental = FALSE,
            !.reps = IF bytes = 0 THEN @ ELSE Append(@, [mime |-> t.current, given |-> all])]
Streaming(t) == [t EXCEPT !.incremental = TRUE]

\* What a transfer that goes on to its next target keeps.
LEMMA TurnedIs ==
  ASSUME NEW t \in Transfers, t.targets # << >>
  PROVE  /\ Turned(t) \in Transfers /\ Turned(t).claim = t.claim
         /\ Turned(t).current = Head(t.targets) /\ Turned(t).current \in Allowed
         /\ Turned(t).bytes = 0 /\ Turned(t).total = t.total /\ Turned(t).given = {}
         /\ Turned(t).reps = t.reps /\ ~Turned(t).incremental
  <1>1. t.targets \in Seq(Allowed)
    BY DEF Transfers
  <1>2. Tail(t.targets) \in Seq(Allowed) /\ Head(t.targets) \in Allowed
    BY <1>1, HeadTailProperties
  <1> QED
    BY <1>2 DEF Turned, Transfers

LEMMA StartedIs ==
  ASSUME NEW c \in Claims, epoch \in Nat
  PROVE  /\ Started(c) \in Transfers /\ Started(c).claim = c /\ Started(c).targets = << >>
         /\ Started(c).current = "TARGETS" /\ Started(c).bytes = 0 /\ Started(c).total = 0
         /\ Started(c).given = {} /\ Started(c).reps = << >> /\ ~Started(c).incremental
  BY DEF Started, Transfers

LEMMA SupportedIs ==
  ASSUME NEW offer \in Offers
  PROVE  Supported(offer) \in Seq(Allowed) /\ Range(Supported(offer)) = Range(offer) \cap Allowed
  <1>1. offer \in Seq(Atoms) /\ Atoms \cap Allowed = Allowed
    BY TransferAssumption DEF TransferAssumption
  <1> QED
    BY <1>1, SelectInSelects DEF Supported

LEMMA ListedIs ==
  ASSUME NEW t \in Transfers, NEW offer \in Offers
  PROVE  /\ Listed(t, offer) \in Transfers /\ Listed(t, offer).claim = t.claim
         /\ Listed(t, offer).targets = Supported(offer) /\ Listed(t, offer).total = t.total
         /\ Listed(t, offer).reps = t.reps /\ Listed(t, offer).epoch = t.epoch
  BY SupportedIs DEF Listed, Transfers

LEMMA ChunkedIs ==
  ASSUME NEW t \in Transfers, NEW size \in Nat, NEW given \in SUBSET Data
  PROVE  LET u == Chunked(t, size, given)
         IN  /\ u \in Transfers /\ u.claim = t.claim /\ u.targets = t.targets
             /\ u.current = t.current /\ u.total = t.total /\ u.reps = t.reps
             /\ u.bytes = t.bytes + size /\ u.given = t.given \cup given
             /\ u.incremental = t.incremental
  <1> DEFINE n == t.bytes + size
             g == t.given \cup given
  <1>1. n \in Nat /\ g \in SUBSET Data
    BY DEF Transfers
  <1>2. Chunked(t, size, given) = [t EXCEPT !.bytes = n, !.given = g]
    BY DEF Chunked
  <1> HIDE DEF n, g
  <1>3. LET u == Chunked(t, size, given)
        IN  /\ u \in Transfers /\ u.claim = t.claim /\ u.targets = t.targets
            /\ u.current = t.current /\ u.total = t.total /\ u.reps = t.reps
            /\ u.bytes = n /\ u.given = g /\ u.incremental = t.incremental
    BY <1>1, <1>2 DEF Transfers
  <1> QED
    BY <1>3 DEF n, g

LEMMA StreamingIs ==
  ASSUME NEW t \in Transfers
  PROVE  LET u == Streaming(t)
         IN  /\ u \in Transfers /\ u.claim = t.claim /\ u.targets = t.targets
             /\ u.current = t.current /\ u.total = t.total /\ u.reps = t.reps
             /\ u.bytes = t.bytes /\ u.given = t.given /\ u.incremental
  BY DEF Streaming, Transfers

LEMMA EndedIs ==
  ASSUME NEW t \in Transfers, NEW bytes \in Nat, NEW all \in SUBSET Data, t.current \in Allowed
  PROVE  LET u == Ended(t, bytes, all)
         IN  /\ u \in Transfers /\ u.claim = t.claim /\ u.targets = t.targets
             /\ u.total = t.total + bytes
             /\ u.reps \in Seq(Rep)
             /\ \A i \in DOMAIN u.reps :
                  \/ i \in DOMAIN t.reps /\ u.reps[i] = t.reps[i]
                  \/ u.reps[i] = [mime |-> t.current, given |-> all]
  <1> DEFINE rep == [mime |-> t.current, given |-> all]
             reps == IF bytes = 0 THEN t.reps ELSE Append(t.reps, rep)
  <1>1. t.reps \in Seq(Rep) /\ rep \in Rep
    BY DEF Transfers, Rep
  <1>2. Append(t.reps, rep) \in Seq(Rep)
    BY <1>1, AppendProperties
  <1>3. reps \in Seq(Rep)
    BY <1>1, <1>2
  <1>4. \A i \in DOMAIN reps : (i \in DOMAIN t.reps /\ reps[i] = t.reps[i]) \/ reps[i] = rep
    <2>1. /\ Len(t.reps) \in Nat /\ DOMAIN t.reps = 1..Len(t.reps)
          /\ DOMAIN Append(t.reps, rep) = 1..(Len(t.reps) + 1)
          /\ \A i \in 1..Len(t.reps) : Append(t.reps, rep)[i] = t.reps[i]
          /\ Append(t.reps, rep)[Len(t.reps) + 1] = rep
      BY <1>1, AppendProperties, LenProperties
    <2>2. \A i \in 1..(Len(t.reps) + 1) : i \in 1..Len(t.reps) \/ i = Len(t.reps) + 1
      BY <2>1
    <2> QED
      BY <2>1, <2>2
  <1> DEFINE n == t.total + bytes
  <1>5. n \in Nat
    BY DEF Transfers
  <1>6. Ended(t, bytes, all) = [t EXCEPT !.bytes = 0, !.given = {}, !.total = n,
                                         !.incremental = FALSE, !.reps = reps]
    BY DEF Ended
  <1> HIDE DEF reps, n
  <1>7. LET u == Ended(t, bytes, all)
        IN  /\ u \in Transfers /\ u.claim = t.claim /\ u.targets = t.targets
            /\ u.total = n /\ u.reps = reps
    <2>1. Ended(t, bytes, all) =
            [claim |-> t.claim, epoch |-> t.epoch, targets |-> t.targets, current |-> t.current,
             bytes |-> 0, given |-> {}, incremental |-> FALSE, total |-> n, reps |-> reps]
      BY <1>6 DEF Transfers
    <2> QED
      BY <1>3, <1>5, <2>1 DEF Transfers
  <1> QED
    BY <1>3, <1>4, <1>7 DEF n
-----------------------------------------------------------------------------
(***************************************************************************)
(* What a step of the X11 thread amounts to.                               *)
(***************************************************************************)
\* The datum in the property.
Datum == [from |-> property.from, for |-> property.for]

LEMMA NextIs ==
  ASSUME NEW t, NEW p, NEW rest, NextTarget(t, p, rest)
  PROVE  \/ /\ t.targets # << >> /\ transfer' = Turned(t)
            /\ Convert(t.claim, Head(t.targets), rest) /\ raw' = raw
         \/ /\ t.targets = << >> /\ transfer' = None /\ property' = p /\ notes' = rest
            /\ UNCHANGED <<asked, crossed>>
            /\ raw' = raw \/ raw' = raw \cup {[claim |-> t.claim, reps |-> t.reps]}
  BY DEF NextTarget, Turned

LEMMA PropertyIs ==
  ASSUME Sound, property # None
  PROVE  /\ property \in Property /\ property.size \in Nat /\ property.from \in Claims
         /\ offers[property.from] \in Offers /\ Real(property.from)
         /\ property.form # "atoms" => Datum \in Data
  <1>1. property \in Property /\ offers \in Seq(Offers \cup {None}) /\ Real(property.from)
    BY DEF Sound, TypeOK, Partners
  <1>2. property.from \in 1..Len(offers)
    BY <1>1, TransferAssumption, LenProperties
       DEF Property, Claims, Real, Owner, TransferAssumption
  <1>3. offers[property.from] \in Offers
    BY <1>1, <1>2, ElementOfSeq DEF Real
  <1>4. property.form # "atoms" => Datum \in Data
    BY <1>1 DEF Sound, Partners, Datum, Data, Property
  <1> QED
    BY <1>1, <1>3, <1>4 DEF Property

LEMMA ReadIs ==
  ASSUME Sound, transfer # None, NEW chunk \in BOOLEAN, NEW rest, Read(transfer, chunk, rest)
  PROVE  \/ \E p \in {property, None} : Become(None, p, rest)
         \/ /\ property # None /\ property.form = "incr" /\ ~chunk
            /\ Become(Streaming(transfer), None, rest)
         \/ /\ property # None /\ property.form = "atoms" /\ transfer.current = "TARGETS"
            /\ ~Rejects(offers[property.from])
            /\ NextTarget(Listed(transfer, offers[property.from]), None, rest)
         \/ /\ chunk /\ property # None /\ property.form = "bytes" /\ property.size > 0
            /\ transfer.total + transfer.bytes + property.size <= MaxItem
            /\ transfer.current # "TARGETS"
            /\ Become(Chunked(transfer, property.size, {Datum}), None, rest)
         \/ /\ transfer.current # "TARGETS"
            /\ property = None \/ property.form = "bytes"
            /\ chunk => property = None \/ property.size = 0
            /\ \E bytes \in Nat, all \in SUBSET Data :
                 /\ transfer.total + bytes <= MaxItem
                 /\ all \subseteq transfer.given \cup (IF property = None THEN {} ELSE {Datum})
                 /\ NextTarget(Ended(transfer, bytes, all), None, rest)
  <1> DEFINE size  == IF property = None THEN 0 ELSE property.size
             given == IF size = 0 THEN {} ELSE {Datum}
             bytes == IF chunk THEN transfer.bytes ELSE size
             all   == IF chunk THEN transfer.given ELSE given
  <1>1. /\ transfer \in Transfers /\ transfer.total \in Nat /\ transfer.bytes \in Nat
        /\ transfer.given \in SUBSET Data /\ MaxItem \in Nat
        /\ transfer.total + transfer.bytes <= MaxItem
    BY TransferAssumption DEF Sound, TypeOK, WithinItem, Transfers, TransferAssumption
  <1>2. CASE ~accepts(transfer.epoch)
    BY <1>2 DEF Read
  <1>3. CASE property # None /\ transfer.current # "TARGETS" /\ property.size > left(transfer)
    BY <1>3 DEF Read, Become
  <1>4. CASE property # None /\ property.form = "incr" /\ ~chunk
    BY <1>2, <1>3, <1>4 DEF Read, Streaming
  <1>5. CASE transfer.current = "TARGETS" /\ ReadTargets(transfer, rest)
    BY <1>5 DEF ReadTargets, Listed, Become
  <1>6. CASE /\ transfer.current # "TARGETS" /\ ReadBytes(transfer, chunk, rest)
             /\ ~(property # None /\ property.size > left(transfer))
    <2>1. CASE property # None /\ property.form # "bytes"
      BY <1>6, <2>1 DEF ReadBytes
    <2>2. CASE property = None \/ property.form = "bytes"
      <3>1. size \in Nat /\ transfer.total + transfer.bytes + size <= MaxItem
        BY <1>1, <1>6, PropertyIs DEF left
      <3>2. given \in SUBSET Data
        BY <2>2, PropertyIs
      <3>3. CASE chunk /\ size > 0
        <4>1. given = {Datum} /\ property # None /\ size = property.size
          BY <3>1, <3>3
        <4>2. Become(Chunked(transfer, size, given), None, rest)
          BY <1>6, <2>2, <3>1, <3>3 DEF ReadBytes, Chunked, Datum
        <4> QED
          BY <1>6, <2>2, <3>1, <3>3, <4>1, <4>2
      <3>4. CASE ~(chunk /\ size > 0)
        <4>1. NextTarget(Ended(transfer, bytes, all), None, rest)
          BY <1>6, <2>2, <3>4 DEF ReadBytes, Ended, Datum
        <4>2. bytes \in Nat /\ all \in SUBSET Data /\ transfer.total + bytes <= MaxItem
          BY <1>1, <3>1, <3>2
        <4>3. all \subseteq transfer.given \cup (IF property = None THEN {} ELSE {Datum})
          OBVIOUS
        <4>4. chunk => property = None \/ property.size = 0
          BY <3>1, <3>4
        <4> HIDE DEF bytes, all
        <4> QED
          BY <1>6, <2>2, <4>1, <4>2, <4>3, <4>4
      <3> QED
        BY <3>3, <3>4
    <2> QED
      BY <2>1, <2>2
  <1> QED
    BY <1>2, <1>3, <1>4, <1>5, <1>6 DEF Read

LEMMA HandleIs ==
  ASSUME Sound, Handle
  PROVE  LET n == Head(notes)
             rest == Tail(notes)
         IN  \/ \E p \in {property, None} : Become(None, p, rest)
             \/ n.op = "new" /\ ~Listens(transfer) /\ Become(transfer, property, rest)
             \/ /\ n.op = "owner" /\ offers[n.claim] # None /\ transfer' = Started(n.claim)
                /\ Convert(n.claim, "TARGETS", rest) /\ raw' = raw
             \/ /\ n.op = "answer" /\ ~n.ok /\ transfer # None
                /\ NextTarget(transfer, property, rest)
             \/ n.op = "answer" /\ n.ok /\ transfer # None /\ Read(transfer, FALSE, rest)
             \/ /\ n.op = "new" /\ transfer # None /\ transfer.incremental
                /\ Read(transfer, TRUE, rest)
  BY DEF Handle, Begin, Started, Listens, Become
-----------------------------------------------------------------------------
(***************************************************************************)
(* Types, limits, and who is spoken to.                                    *)
(***************************************************************************)
NewNote      == [op |-> "new"]
Answered(ok) == [op |-> "answer", ok |-> ok]

LEMMA NotesAre ==
  /\ NewNote \in NoteTypes /\ NewNote.op = "new"
  /\ \A ok \in BOOLEAN : /\ Answered(ok) \in NoteTypes /\ Answered(ok).op = "answer"
                         /\ Answered(ok).ok = ok
  /\ \A c \in Claims : [op |-> "owner", claim |-> c] \in NoteTypes
  BY DEF NewNote, Answered, NoteTypes

LEMMA SnocIs ==
  ASSUME NEW S, NEW q \in Seq(S), NEW e \in S
  PROVE  q \o <<e>> = Append(q, e)
  OBVIOUS

LEMMA WriteIs ==
  ASSUME notes \in Seq(NoteTypes), NEW p, NEW answered \in BOOLEAN, Write(p, answered)
  PROVE  /\ property' = p /\ notes' \in Seq(NoteTypes)
         /\ Len(notes') = Len(notes) + (IF answered THEN 2 ELSE 1)
         /\ \A i \in 1..Len(notes) : notes'[i] = notes[i]
         /\ notes'[Len(notes) + 1] = NewNote
         /\ answered => notes'[Len(notes) + 2] = Answered(TRUE)
         /\ Range(notes') \subseteq Range(notes) \cup {NewNote, Answered(TRUE)}
  <1> DEFINE q == Append(notes, NewNote)
  <1>1. /\ q \in Seq(NoteTypes) /\ Range(q) = Range(notes) \cup {NewNote}
        /\ Len(q) = Len(notes) + 1 /\ Len(notes) \in Nat
        /\ \A i \in 1..Len(notes) : q[i] = notes[i]
        /\ q[Len(notes) + 1] = NewNote
    BY NotesAre, RangeAppend, AppendProperties, LenProperties
  <1>2. notes \o <<NewNote>> = q
    BY NotesAre, SnocIs
  <1> HIDE DEF q
  <1>3. CASE answered
    <2>1. property' = p /\ notes' = q \o <<Answered(TRUE)>>
      BY <1>2, <1>3 DEF Write, NewNote, Answered
    <2>2. notes' = Append(q, Answered(TRUE))
      BY <1>1, <2>1, NotesAre, SnocIs
    <2>3. /\ notes' \in Seq(NoteTypes) /\ Range(notes') = Range(q) \cup {Answered(TRUE)}
          /\ Len(notes') = Len(q) + 1 /\ \A i \in 1..Len(q) : notes'[i] = q[i]
          /\ notes'[Len(q) + 1] = Answered(TRUE)
      <3> DEFINE a == Answered(TRUE)
      <3>1. a \in NoteTypes
        BY NotesAre
      <3>2. notes' = Append(q, a)
        BY <2>2
      <3> HIDE DEF a
      <3>3. Append(q, a) \in Seq(NoteTypes) /\ Range(Append(q, a)) = Range(q) \cup {a}
        BY <1>1, <3>1, RangeAppend
      <3>4. /\ Len(Append(q, a)) = Len(q) + 1 /\ \A i \in 1..Len(q) : Append(q, a)[i] = q[i]
            /\ Append(q, a)[Len(q) + 1] = a
        BY <1>1, <3>1, AppendProperties
      <3>5. /\ notes' \in Seq(NoteTypes) /\ Range(notes') = Range(q) \cup {a}
            /\ Len(notes') = Len(q) + 1 /\ \A i \in 1..Len(q) : notes'[i] = q[i]
            /\ notes'[Len(q) + 1] = a
        BY <3>2, <3>3, <3>4
      <3> QED
        BY <3>5 DEF a
    <2>4. /\ \A i \in 1..Len(notes) : i \in 1..Len(q)
          /\ Len(notes) + 1 \in 1..Len(q) /\ Len(notes) + 2 = Len(q) + 1
      BY <1>1
    <2> QED
      BY <1>1, <1>3, <2>1, <2>3, <2>4
  <1>4. CASE ~answered
    <2>1. property' = p /\ notes' = q \o << >>
      BY <1>2, <1>4 DEF Write, NewNote
    <2>2. notes' = q
      BY <1>1, <2>1, ConcatEmptySeq
    <2> QED
      BY <1>1, <1>4, <2>1, <2>2
  <1> QED
    BY <1>3, <1>4

\* A queue that grows by one note.
LEMMA NoteIs ==
  ASSUME notes \in Seq(NoteTypes), NEW n \in NoteTypes, notes' = Append(notes, n)
  PROVE  /\ notes' \in Seq(NoteTypes) /\ Len(notes') = Len(notes) + 1
         /\ \A i \in 1..Len(notes) : notes'[i] = notes[i]
         /\ notes'[Len(notes) + 1] = n /\ Range(notes') = Range(notes) \cup {n}
  BY RangeAppend, AppendProperties

LEMMA RestIs ==
  ASSUME notes \in Seq(NoteTypes), notes # << >>
  PROVE  /\ Tail(notes) \in Seq(NoteTypes) /\ Head(notes) \in NoteTypes
         /\ Head(notes) = notes[1] /\ Len(notes) \in Nat \ {0}
         /\ Len(Tail(notes)) = Len(notes) - 1
         /\ \A i \in 1..(Len(notes) - 1) : Tail(notes)[i] = notes[i + 1]
         /\ Head(notes) \in Range(notes) /\ Range(Tail(notes)) \subseteq Range(notes)
  BY RangeTail, HeadTailProperties, EmptySeq

\* An application answers: with what is in the property after, or a refusal.
LEMMA AnswerIs ==
  ASSUME Sound, NEW c \in Claims, Answer(c)
  PROVE  LET target == Head(asked[c])
         IN  /\ asked[c] \in Seq(Targets) /\ asked[c] # << >> /\ target \in Targets
             /\ asked' = [asked EXCEPT ![c] = Tail(@)] /\ Tail(asked[c]) \in Seq(Targets)
             /\ UNCHANGED <<gateVars, offers, transfer, raw>>
             /\ crossed' = (crossed \/ c # Owner)
             /\ \/ \E p \in Property :
                     /\ p.from = c /\ p.for = target /\ Write(p, TRUE)
                     /\ p.form = "atoms" <=> target = "TARGETS"
                     /\ IF p.form = "incr"
                          THEN /\ feeding[c][1] = << >>
                               /\ feeding' = [feeding EXCEPT ![c] = << <<target>>, MaxChunks >>]
                          ELSE UNCHANGED feeding
                \/ notes' = Append(notes, Answered(FALSE)) /\ UNCHANGED <<property, feeding>>
  <1> DEFINE target == Head(asked[c])
             P(form, size) == [from |-> c, for |-> target, form |-> form, size |-> size]
  <1>1. asked[c] \in Seq(Targets) /\ asked[c] # << >>
    BY DEF Sound, TypeOK, Answer, Targets
  <1>2. target \in Targets /\ Tail(asked[c]) \in Seq(Targets)
    BY <1>1, HeadTailProperties
  <1>3. \A form \in {"atoms", "bytes", "incr"}, size \in Nat :
          /\ P(form, size) \in Property /\ P(form, size).from = c
          /\ P(form, size).for = target /\ P(form, size).form = form
    BY <1>2 DEF Property, Targets
  <1>4. Sizes \subseteq Nat
    BY TransferAssumption DEF TransferAssumption
  <1>5. /\ asked' = [asked EXCEPT ![c] = Tail(@)] /\ crossed' = (crossed \/ c # Owner)
        /\ UNCHANGED <<gateVars, offers, transfer, raw>>
    BY DEF Answer, ServerOnly
  <1>6. \/ target = "TARGETS" /\ Write(P("atoms", 1), TRUE) /\ UNCHANGED feeding
        \/ /\ target # "TARGETS" /\ UNCHANGED feeding
           /\ \E n \in Nat : Write(P("bytes", n), TRUE)
        \/ /\ target # "TARGETS" /\ feeding[c][1] = << >> /\ Write(P("incr", 1), TRUE)
           /\ feeding' = [feeding EXCEPT ![c] = << <<target>>, MaxChunks >>]
        \/ notes' = Append(notes, Answered(FALSE)) /\ UNCHANGED <<property, feeding>>
    BY <1>4 DEF Answer, Answered
  <1> HIDE DEF P
  <1> QED
    BY <1>1, <1>2, <1>3, <1>5, <1>6

\* It feeds a chunk.
LEMMA FeedIs ==
  ASSUME Sound, NEW c \in Claims, Feed(c)
  PROVE  LET target == Head(feeding[c][1])
         IN  /\ feeding[c][1] \in Seq(Allowed) /\ feeding[c][1] # << >> /\ property = None
             /\ target \in Allowed
             /\ UNCHANGED <<gateVars, offers, asked, transfer, raw>>
             /\ crossed' = (crossed \/ c # Owner)
             /\ \E p \in Property :
                  /\ p.from = c /\ p.for = target /\ p.form = "bytes" /\ Write(p, FALSE)
                  /\ IF p.size = 0
                       THEN feeding' = [feeding EXCEPT ![c] = << <<>>, 0 >>]
                       ELSE \E k \in Nat : feeding' = [feeding EXCEPT ![c][2] = k]
  <1> DEFINE target == Head(feeding[c][1])
             P(size) == [from |-> c, for |-> target, form |-> "bytes", size |-> size]
  <1>1. feeding[c] \in Seq(Allowed) \X Nat /\ feeding[c][1] # << >> /\ property = None
    BY DEF Sound, TypeOK, Feed
  <1>2. feeding[c][1] \in Seq(Allowed) /\ feeding[c][2] \in Nat /\ target \in Allowed
    BY <1>1, HeadTailProperties
  <1>3. \A size \in Nat : /\ P(size) \in Property /\ P(size).from = c /\ P(size).for = target
                          /\ P(size).form = "bytes" /\ P(size).size = size
    BY <1>2 DEF Property
  <1>4. Sizes \subseteq Nat
    BY TransferAssumption DEF TransferAssumption
  <1>5. crossed' = (crossed \/ c # Owner) /\ UNCHANGED <<gateVars, offers, asked, transfer, raw>>
    BY DEF Feed, ServerOnly
  <1>6. \/ /\ feeding[c][2] > 0 /\ \E n \in Nat \ {0} : Write(P(n), FALSE)
           /\ feeding' = [feeding EXCEPT ![c][2] = feeding[c][2] - 1]
        \/ Write(P(0), FALSE) /\ feeding' = [feeding EXCEPT ![c] = << <<>>, 0 >>]
    BY <1>4 DEF Feed
  <1>7. feeding[c][2] > 0 => feeding[c][2] - 1 \in Nat
    BY <1>2
  <1> HIDE DEF P
  <1> QED
    BY <1>1, <1>2, <1>3, <1>5, <1>6, <1>7

\* A step of the thread that keeps to the limits is sound.
Kept(t) == t # None => /\ t \in Transfers /\ t.total + t.bytes <= MaxItem /\ Real(t.claim)

LEMMA ThreadSound ==
  ASSUME Sound, UNCHANGED <<gateVars, offers, feeding>>,
         notes' \in Seq(NoteTypes), Range(notes') \subseteq Range(notes) \cup {Answered(FALSE)},
         asked' \in [Claims -> Seq(Targets)], crossed' \in BOOLEAN, Kept(transfer'),
         \A c \in Claims : asked'[c] # << >> => asked[c] # << >> \/ Real(c),
         property' \in {property, None},
         \A r \in raw' : r \in raw \/ (r.claim \in Claims /\ r.reps \in Seq(Rep))
  PROVE  Sound'
  <1>1. TypeOK'
    BY DEF Sound, TypeOK, Targets, Kept, gateVars, GateTypeOK
  <1>2. WithinItem'
    BY DEF WithinItem, Kept
  <1>3. Owner' = Owner /\ \A c : Real(c)' <=> Real(c)
    BY DEF Owner, Real
  <1>4. Partners'
    <2>1. \A n \in Range(notes') : n.op = "owner" => n.claim <= Owner
      BY NotesAre DEF Sound, Partners
    <2>2. \A c \in Claims : asked'[c] # << >> \/ feeding'[c][1] # << >> => Real(c)
      BY DEF Sound, Partners
    <2> QED
      BY <1>3, <2>1, <2>2 DEF Sound, Partners, Kept, Real
  <1> QED
    BY <1>1, <1>2, <1>4 DEF Sound

LEMMA BecomeSound ==
  ASSUME Sound, UNCHANGED <<gateVars, offers, feeding>>, notes # << >>, NEW t, Kept(t),
         NEW p \in {property, None}, Become(t, p, Tail(notes))
  PROVE  Sound'
  <1>1. notes \in Seq(NoteTypes)
    BY DEF Sound, Partners
  <1>2. notes' \in Seq(NoteTypes) /\ Range(notes') \subseteq Range(notes)
    BY <1>1, RestIs DEF Become
  <1>3. asked' = asked /\ crossed' = crossed /\ raw' = raw /\ transfer' = t /\ property' = p
    BY DEF Become
  <1>4. asked \in [Claims -> Seq(Targets)] /\ crossed \in BOOLEAN
    BY DEF Sound, TypeOK, Targets
  <1> QED
    BY <1>2, <1>3, <1>4, ThreadSound

\* A conversion is asked of the present owner, or refused if there is none.
LEMMA ConvertIs ==
  ASSUME Sound, NEW c, NEW target \in Targets, NEW rest \in Seq(NoteTypes),
         Convert(c, target, rest)
  PROVE  /\ property' = None /\ crossed' = (crossed \/ c # Owner)
         /\ \/ /\ Owner \in Claims /\ Real(Owner) /\ notes' = rest
               /\ asked' = [asked EXCEPT ![Owner] = Append(@, target)]
            \/ /\ ~(Owner \in Claims /\ Real(Owner)) /\ asked' = asked
               /\ notes' = Append(rest, Answered(FALSE))
         /\ notes' \in Seq(NoteTypes) /\ Range(notes') \subseteq Range(rest) \cup {Answered(FALSE)}
         /\ asked' \in [Claims -> Seq(Targets)] /\ crossed' \in BOOLEAN
         /\ \A d \in Claims : asked'[d] # << >> => asked[d] # << >> \/ Real(d)
  <1>1. /\ Owner \in 0..MaxClaims /\ asked \in [Claims -> Seq(Targets)] /\ crossed \in BOOLEAN
        /\ MaxClaims \in Nat
    BY TransferAssumption DEF Sound, Partners, TypeOK, Targets, TransferAssumption
  <1>2. Owner > 0 /\ offers[Owner] # None <=> Owner \in Claims /\ Real(Owner)
    BY <1>1 DEF Claims, Real
  <1>3. property' = None /\ crossed' = (crossed \/ c # Owner)
    BY DEF Convert
  <1>4. CASE Owner \in Claims /\ Real(Owner)
    <2>1. asked' = [asked EXCEPT ![Owner] = Append(asked[Owner], target)] /\ notes' = rest
      BY <1>2, <1>4 DEF Convert
    <2>2. Append(asked[Owner], target) \in Seq(Targets)
      BY <1>1, <1>4, AppendProperties
    <2>3. /\ asked' \in [Claims -> Seq(Targets)]
          /\ \A d \in Claims : asked'[d] # << >> => asked[d] # << >> \/ Real(d)
      BY <1>1, <1>4, <2>1, <2>2
    <2> QED
      BY <1>1, <1>3, <1>4, <2>1, <2>3
  <1>5. CASE ~(Owner \in Claims /\ Real(Owner))
    <2>1. notes' = Append(rest, Answered(FALSE)) /\ asked' = asked
      BY <1>2, <1>5 DEF Convert, Answered
    <2> DEFINE a == Answered(FALSE)
    <2>2. a \in NoteTypes
      BY NotesAre
    <2> HIDE DEF a
    <2>3. Append(rest, a) \in Seq(NoteTypes) /\ Range(Append(rest, a)) = Range(rest) \cup {a}
      BY <2>2, RangeAppend
    <2> USE DEF a
    <2> QED
      BY <1>1, <1>3, <1>5, <2>1, <2>3
  <1> QED
    BY <1>4, <1>5

LEMMA NextSound ==
  ASSUME Sound, UNCHANGED <<gateVars, offers, feeding>>, notes # << >>,
         NEW t \in Transfers, Real(t.claim), t.total <= MaxItem,
         NEW p \in {property, None}, NextTarget(t, p, Tail(notes))
  PROVE  Sound'
  <1>1. /\ notes \in Seq(NoteTypes) /\ asked \in [Claims -> Seq(Targets)] /\ crossed \in BOOLEAN
        /\ MaxItem \in Nat /\ t.total \in Nat /\ t.claim \in Claims /\ t.reps \in Seq(Rep)
        /\ t.targets \in Seq(Allowed)
    BY TransferAssumption DEF Sound, Partners, TypeOK, Targets, TransferAssumption, Transfers
  <1>2. Tail(notes) \in Seq(NoteTypes) /\ Range(Tail(notes)) \subseteq Range(notes)
    BY <1>1, RestIs
  <1>3. CASE /\ t.targets # << >> /\ transfer' = Turned(t)
             /\ Convert(t.claim, Head(t.targets), Tail(notes)) /\ raw' = raw
    <2>1. Head(t.targets) \in Targets
      BY <1>1, <1>3, HeadTailProperties DEF Targets
    <2>2. Kept(transfer')
      <3>1. /\ Turned(t) \in Transfers /\ Turned(t).claim = t.claim
            /\ Turned(t).bytes = 0 /\ Turned(t).total = t.total
        BY <1>3, TurnedIs
      <3>2. Turned(t).total + Turned(t).bytes <= MaxItem
        BY <1>1, <3>1
      <3> QED
        BY <1>3, <3>1, <3>2 DEF Kept
    <2> HIDE DEF Kept
    <2>3. /\ notes' \in Seq(NoteTypes) /\ property' = None
          /\ Range(notes') \subseteq Range(Tail(notes)) \cup {Answered(FALSE)}
          /\ asked' \in [Claims -> Seq(Targets)] /\ crossed' \in BOOLEAN
          /\ \A d \in Claims : asked'[d] # << >> => asked[d] # << >> \/ Real(d)
      BY <1>2, <1>3, <2>1, ConvertIs
    <2> QED
      BY <1>2, <1>3, <2>2, <2>3, ThreadSound
  <1>4. CASE /\ t.targets = << >> /\ transfer' = None /\ property' = p /\ notes' = Tail(notes)
             /\ UNCHANGED <<asked, crossed>>
             /\ raw' = raw \/ raw' = raw \cup {[claim |-> t.claim, reps |-> t.reps]}
    <2>1. Kept(transfer')
      BY <1>4 DEF Kept
    <2>2. \A r \in raw' : r \in raw \/ (r.claim \in Claims /\ r.reps \in Seq(Rep))
      BY <1>1, <1>4
    <2> QED
      BY <1>1, <1>2, <1>4, <2>1, <2>2, ThreadSound
  <1> QED
    BY <1>3, <1>4, NextIs

LEMMA ReadSound ==
  ASSUME Sound, UNCHANGED <<gateVars, offers, feeding>>, notes # << >>, transfer # None,
         NEW chunk \in BOOLEAN, Read(transfer, chunk, Tail(notes))
  PROVE  Sound'
  <1>1. /\ transfer \in Transfers /\ Real(transfer.claim) /\ MaxItem \in Nat
        /\ transfer.total \in Nat /\ transfer.bytes \in Nat
        /\ transfer.total + transfer.bytes <= MaxItem
    BY TransferAssumption
       DEF Sound, TypeOK, Partners, WithinItem, Transfers, TransferAssumption
  <1>2. CASE \E p \in {property, None} : Become(None, p, Tail(notes))
    <2>1. Kept(None)
      BY DEF Kept
    <2> QED
      BY <1>2, <2>1, BecomeSound
  <1>3. CASE Become(Streaming(transfer), None, Tail(notes))
    <2>1. Kept(Streaming(transfer))
      BY <1>1, StreamingIs DEF Kept
    <2> QED
      BY <1>3, <2>1, BecomeSound
  <1>4. CASE /\ property # None
             /\ NextTarget(Listed(transfer, offers[property.from]), None, Tail(notes))
    <2> DEFINE t == Listed(transfer, offers[property.from])
    <2>1. offers[property.from] \in Offers
      BY <1>4, PropertyIs
    <2>2. t \in Transfers /\ t.claim = transfer.claim /\ t.total = transfer.total
      BY <1>1, <2>1, ListedIs
    <2>3. t.total <= MaxItem /\ Real(t.claim)
      BY <1>1, <2>2
    <2> HIDE DEF t
    <2>4. NextTarget(t, None, Tail(notes))
      BY <1>4 DEF t
    <2> QED
      BY <2>2, <2>3, <2>4, NextSound
  <1>5. CASE /\ property # None /\ property.form = "bytes"
             /\ transfer.total + transfer.bytes + property.size <= MaxItem
             /\ Become(Chunked(transfer, property.size, {Datum}), None, Tail(notes))
    <2> DEFINE t == Chunked(transfer, property.size, {Datum})
    <2>1. property.size \in Nat /\ {Datum} \in SUBSET Data
      BY <1>5, PropertyIs
    <2>2. /\ t \in Transfers /\ t.claim = transfer.claim /\ t.total = transfer.total
          /\ t.bytes = transfer.bytes + property.size
      BY <1>1, <2>1, ChunkedIs
    <2> HIDE DEF t
    <2>3. t.total + t.bytes <= MaxItem
      BY <1>1, <1>5, <2>1, <2>2
    <2>4. Kept(t)
      BY <1>1, <2>2, <2>3 DEF Kept
    <2>5. Become(t, None, Tail(notes))
      BY <1>5 DEF t
    <2> QED
      BY <2>4, <2>5, BecomeSound
  <1>6. CASE /\ transfer.current # "TARGETS"
             /\ \E bytes \in Nat, all \in SUBSET Data :
                  /\ transfer.total + bytes <= MaxItem
                  /\ NextTarget(Ended(transfer, bytes, all), None, Tail(notes))
    <2>1. PICK bytes \in Nat, all \in SUBSET Data :
                  /\ transfer.total + bytes <= MaxItem
                  /\ NextTarget(Ended(transfer, bytes, all), None, Tail(notes))
      BY <1>6
    <2>2. transfer.current \in Allowed
      BY <1>1, <1>6 DEF Transfers
    <2> DEFINE t == Ended(transfer, bytes, all)
    <2>3. t \in Transfers /\ t.claim = transfer.claim /\ t.total = transfer.total + bytes
      BY ZenonT(30), <1>1, <2>2, EndedIs
    <2>4. NextTarget(t, None, Tail(notes))
      BY <2>1
    <2> HIDE DEF t
    <2> QED
      BY <1>1, <2>1, <2>3, <2>4, NextSound
  <1> QED
    BY <1>2, <1>3, <1>4, <1>5, <1>6, ReadIs

LEMMA HandleSound == Sound /\ Handle => Sound'
  <1> SUFFICES ASSUME Sound, Handle PROVE Sound'
    OBVIOUS
  <1>1. notes # << >> /\ UNCHANGED <<gateVars, offers, feeding>>
    BY DEF Handle
  <1>2. notes \in Seq(NoteTypes)
    BY DEF Sound, Partners
  <1> DEFINE n    == Head(notes)
             rest == Tail(notes)
  <1>3. /\ n \in NoteTypes /\ n \in Range(notes) /\ rest \in Seq(NoteTypes)
        /\ Range(rest) \subseteq Range(notes)
    BY <1>1, <1>2, RestIs
  <1>4. transfer # None => /\ transfer \in Transfers /\ Real(transfer.claim)
                           /\ transfer.total + transfer.bytes <= MaxItem
                           /\ transfer.total <= MaxItem
    BY TransferAssumption
       DEF Sound, TypeOK, Partners, WithinItem, Transfers, TransferAssumption
  <1>5. CASE \E p \in {property, None} : Become(None, p, rest)
    <2>1. Kept(None)
      BY DEF Kept
    <2> QED
      BY <1>1, <1>5, <2>1, BecomeSound
  <1>6. CASE Become(transfer, property, rest)
    <2>1. Kept(transfer)
      BY <1>4 DEF Kept
    <2> QED
      BY <1>1, <1>6, <2>1, BecomeSound
  <1>7. CASE /\ n.op = "owner" /\ offers[n.claim] # None /\ transfer' = Started(n.claim)
             /\ Convert(n.claim, "TARGETS", rest) /\ raw' = raw
    <2>1. n.claim \in Claims /\ Real(n.claim)
      BY <1>3, <1>7 DEF NoteTypes, Sound, Partners, Real
    <2>2. epoch \in Nat /\ MaxItem \in Nat
      BY TransferAssumption DEF Sound, TypeOK, GateTypeOK, TransferAssumption
    <2>3. Kept(transfer')
      <3>1. /\ Started(n.claim) \in Transfers /\ Started(n.claim).claim = n.claim
            /\ Started(n.claim).bytes = 0 /\ Started(n.claim).total = 0
        BY <2>1, <2>2, StartedIs
      <3> QED
        BY <1>7, <2>1, <2>2, <3>1 DEF Kept
    <2>4. "TARGETS" \in Targets
      BY DEF Targets
    <2> HIDE DEF Kept, n, rest
    <2>5. /\ notes' \in Seq(NoteTypes) /\ property' = None
          /\ Range(notes') \subseteq Range(rest) \cup {Answered(FALSE)}
          /\ asked' \in [Claims -> Seq(Targets)] /\ crossed' \in BOOLEAN
          /\ \A d \in Claims : asked'[d] # << >> => asked[d] # << >> \/ Real(d)
      BY <1>3, <1>7, <2>4, ConvertIs
    <2> QED
      BY <1>1, <1>3, <1>7, <2>3, <2>5, ThreadSound
  <1>8. CASE transfer # None /\ NextTarget(transfer, property, rest)
    BY <1>1, <1>4, <1>8, NextSound
  <1>9. CASE transfer # None /\ \E chunk \in BOOLEAN : Read(transfer, chunk, rest)
    BY <1>1, <1>9, ReadSound
  <1> QED
    BY <1>5, <1>6, <1>7, <1>8, <1>9, HandleIs

\* The applications keep to the types, and write for those that were asked.
LEMMA CopySound ==
  ASSUME Sound, NEW offer \in Offers \cup {None}, Copy(offer)
  PROVE  /\ Sound' /\ Owner' = Owner + 1 /\ Owner + 1 \in Claims
         /\ \A c \in Claims : c <= Owner => offers'[c] = offers[c]
  <1> DEFINE n == [op |-> "owner", claim |-> Owner + 1]
  <1>1. /\ offers \in Seq(Offers \cup {None}) /\ notes \in Seq(NoteTypes)
        /\ Owner \in 0..MaxClaims /\ MaxClaims \in Nat
    BY TransferAssumption DEF Sound, Partners, TypeOK, TransferAssumption
  <1>2. Owner + 1 \in Claims /\ Owner + 1 \in 0..MaxClaims
    BY <1>1 DEF Copy, Claims
  <1>3. n \in NoteTypes /\ n.claim = Owner + 1
    BY <1>2, NotesAre
  <1>4. /\ offers' = Append(offers, offer) /\ notes' = Append(notes, n)
        /\ UNCHANGED <<gateVars, asked, feeding, property, transfer, raw, crossed>>
    BY DEF Copy, ServerOnly
  <1> HIDE DEF n
  <1>5. /\ offers' \in Seq(Offers \cup {None}) /\ Owner' = Owner + 1
        /\ \A c \in 1..Owner : offers'[c] = offers[c]
    BY <1>1, <1>4, AppendProperties DEF Owner
  <1>6. \A c \in Claims : c <= Owner => c \in 1..Owner
    BY <1>1 DEF Claims
  <1>7. \A c \in Claims : Real(c) => Real(c)'
    BY <1>1, <1>5, <1>6 DEF Real, Claims
  <1>8. notes' \in Seq(NoteTypes) /\ Range(notes') = Range(notes) \cup {n}
    BY <1>1, <1>3, <1>4, NoteIs
  <1>9. \A m \in Range(notes) : m.op = "owner" => m.claim <= Owner + 1
    <2>1. Range(notes) \subseteq NoteTypes
      BY <1>1, RangeType
    <2>2. \A m \in Range(notes) : m.op = "owner" => m.claim \in Claims /\ m.claim <= Owner
      BY <2>1 DEF NoteTypes, Sound, Partners
    <2> QED
      BY <1>1, <2>2 DEF Claims
  <1>10. TypeOK' /\ WithinItem'
    BY <1>4, <1>5 DEF Sound, TypeOK, WithinItem, gateVars, GateTypeOK
  <1>11. Partners'
    <2>1. \A m \in Range(notes') : m.op = "owner" => m.claim <= Owner'
      BY <1>3, <1>5, <1>8, <1>9, <1>1
    <2>2. \A c \in Claims : asked'[c] # << >> \/ feeding'[c][1] # << >> => Real(c)'
      BY <1>4, <1>7 DEF Sound, Partners
    <2>3. property # None => property.from \in Claims
      BY PropertyIs
    <2>4. transfer # None => transfer.claim \in Claims
      BY DEF Sound, TypeOK, Transfers
    <2>5. /\ (property # None => Real(property.from)
                   /\ (property.form # "atoms" => property.for # "TARGETS"))'
          /\ (transfer # None => Real(transfer.claim))'
      BY <1>4, <1>7, <2>3, <2>4 DEF Sound, Partners
    <2> QED
      BY <1>2, <1>5, <1>8, <2>1, <2>2, <2>5 DEF Partners
  <1> QED
    BY <1>2, <1>5, <1>6, <1>10, <1>11 DEF Sound

LEMMA AnswerSound ==
  ASSUME Sound, NEW c \in Claims, Answer(c)
  PROVE  Sound'
  <1> DEFINE target == Head(asked[c])
  <1>1. /\ asked[c] # << >> /\ target \in Targets /\ Tail(asked[c]) \in Seq(Targets)
        /\ asked' = [asked EXCEPT ![c] = Tail(asked[c])]
        /\ UNCHANGED <<gateVars, offers, transfer, raw>> /\ crossed' = (crossed \/ c # Owner)
    BY AnswerIs
  <1>2. /\ asked \in [Claims -> Seq(Targets)] /\ notes \in Seq(NoteTypes)
        /\ feeding \in [Claims -> Seq(Allowed) \X Nat] /\ MaxChunks \in Nat
        /\ Owner \in 0..MaxClaims /\ crossed \in BOOLEAN
    BY TransferAssumption DEF Sound, Partners, TypeOK, Targets, TransferAssumption
  <1>3. Real(c)
    BY <1>1 DEF Sound, Partners
  <1>4. /\ asked' \in [Claims -> Seq(Targets)] /\ crossed' \in BOOLEAN
        /\ \A d \in Claims : asked'[d] # << >> => Real(d)
    BY <1>1, <1>2, <1>3 DEF Sound, Partners
  <1>5. /\ notes' \in Seq(NoteTypes)
        /\ \A n \in Range(notes') : n \in Range(notes) \/ n.op # "owner"
        /\ feeding' \in [Claims -> Seq(Allowed) \X Nat]
        /\ \A d \in Claims : feeding'[d][1] # << >> => Real(d)
        /\ \/ property' = property
           \/ /\ property' \in Property /\ property'.from = c
              /\ property'.form # "atoms" => property'.for # "TARGETS"
    <2>1. CASE \E p \in Property :
                 /\ p.from = c /\ p.for = target /\ Write(p, TRUE)
                 /\ p.form = "atoms" <=> target = "TARGETS"
                 /\ IF p.form = "incr"
                      THEN /\ feeding[c][1] = << >>
                           /\ feeding' = [feeding EXCEPT ![c] = << <<target>>, MaxChunks >>]
                      ELSE UNCHANGED feeding
      <3>1. PICK p \in Property :
                 /\ p.from = c /\ p.for = target /\ Write(p, TRUE)
                 /\ p.form = "atoms" <=> target = "TARGETS"
                 /\ IF p.form = "incr"
                      THEN /\ feeding[c][1] = << >>
                           /\ feeding' = [feeding EXCEPT ![c] = << <<target>>, MaxChunks >>]
                      ELSE UNCHANGED feeding
        BY <2>1
      <3>2. /\ notes' \in Seq(NoteTypes) /\ property' = p
            /\ Range(notes') \subseteq Range(notes) \cup {NewNote, Answered(TRUE)}
        BY <1>2, <3>1, WriteIs
      <3>3. \A n \in Range(notes') : n \in Range(notes) \/ n.op # "owner"
        BY <3>2, NotesAre
      <3>4. /\ feeding' \in [Claims -> Seq(Allowed) \X Nat]
            /\ \A d \in Claims : feeding'[d][1] # << >> => Real(d)
        <4>1. CASE feeding' = feeding
          BY <1>2, <4>1 DEF Sound, Partners
        <4>2. CASE /\ p.form = "incr"
                   /\ feeding' = [feeding EXCEPT ![c] = << <<target>>, MaxChunks >>]
          <5>1. target \in Allowed
            BY <1>1, <3>1, <4>2 DEF Targets
          <5>2. << <<target>>, MaxChunks >> \in Seq(Allowed) \X Nat
            <6>1. <<target>> \in Seq(Allowed)
              BY <5>1
            <6> QED
              BY <1>2, <6>1
          <5> HIDE DEF target
          <5> QED
            BY <1>2, <1>3, <4>2, <5>2 DEF Sound, Partners
        <4> QED
          BY <3>1, <4>1, <4>2
      <3> QED
        BY <3>1, <3>2, <3>3, <3>4
    <2>2. CASE notes' = Append(notes, Answered(FALSE)) /\ UNCHANGED <<property, feeding>>
      <3> DEFINE a == Answered(FALSE)
      <3>1. a \in NoteTypes /\ a.op # "owner"
        BY NotesAre
      <3>2. notes' = Append(notes, a)
        BY <2>2
      <3> HIDE DEF a
      <3>3. notes' \in Seq(NoteTypes) /\ Range(notes') = Range(notes) \cup {a}
        BY <1>2, <3>1, <3>2, NoteIs
      <3> QED
        BY <1>2, <2>2, <3>1, <3>3 DEF Sound, Partners
    <2> QED
      BY <2>1, <2>2, AnswerIs
  <1> HIDE DEF target
  <1>6. TypeOK' /\ WithinItem'
    BY <1>1, <1>4, <1>5 DEF Sound, TypeOK, WithinItem, Targets, gateVars, GateTypeOK
  <1>7. Owner' = Owner /\ \A d : Real(d)' <=> Real(d)
    BY <1>1 DEF Owner, Real
  <1>8. Partners'
    BY <1>1, <1>2, <1>3, <1>4, <1>5, <1>7 DEF Sound, Partners
  <1> QED
    BY <1>6, <1>8 DEF Sound

LEMMA FeedSound ==
  ASSUME Sound, NEW c \in Claims, Feed(c)
  PROVE  Sound'
  <1> DEFINE target == Head(feeding[c][1])
  <1>1. /\ feeding[c][1] # << >> /\ target \in Allowed /\ feeding[c][1] \in Seq(Allowed)
        /\ UNCHANGED <<gateVars, offers, asked, transfer, raw>> /\ crossed' = (crossed \/ c # Owner)
    BY FeedIs
  <1>2. PICK p \in Property :
          /\ p.from = c /\ p.for = target /\ p.form = "bytes" /\ Write(p, FALSE)
          /\ IF p.size = 0
               THEN feeding' = [feeding EXCEPT ![c] = << <<>>, 0 >>]
               ELSE \E k \in Nat : feeding' = [feeding EXCEPT ![c][2] = k]
    BY FeedIs
  <1>3. /\ asked \in [Claims -> Seq(Targets)] /\ notes \in Seq(NoteTypes)
        /\ feeding \in [Claims -> Seq(Allowed) \X Nat] /\ crossed \in BOOLEAN
        /\ Owner \in 0..MaxClaims
    BY TransferAssumption DEF Sound, Partners, TypeOK, Targets, TransferAssumption
  <1>4. Real(c)
    BY <1>1 DEF Sound, Partners
  <1>5. /\ notes' \in Seq(NoteTypes) /\ property' = p
        /\ Range(notes') \subseteq Range(notes) \cup {NewNote, Answered(TRUE)}
    BY <1>2, <1>3, WriteIs
  <1>6. \A n \in Range(notes') : n \in Range(notes) \/ n.op # "owner"
    BY <1>5, NotesAre
  <1>7. /\ feeding' \in [Claims -> Seq(Allowed) \X Nat]
        /\ \A d \in Claims : feeding'[d][1] # << >> => Real(d)
    <2>1. << << >>, 0 >> \in Seq(Allowed) \X Nat
      <3>1. << >> \in Seq(Allowed)
        OBVIOUS
      <3> QED
        BY <3>1
    <2>2. CASE feeding' = [feeding EXCEPT ![c] = << <<>>, 0 >>]
      BY <1>3, <1>4, <2>1, <2>2 DEF Sound, Partners
    <2>3. CASE \E k \in Nat : feeding' = [feeding EXCEPT ![c][2] = k]
      <3>1. PICK k \in Nat : feeding' = [feeding EXCEPT ![c][2] = k]
        BY <2>3
      <3>2. feeding' = [feeding EXCEPT ![c] = << feeding[c][1], k >>]
        <4> DEFINE f == feeding[c]
        <4>1. f = << f[1], f[2] >>
          <5>1. f \in Seq(Allowed) \X Nat
            BY <1>3
          <5> QED
            BY <5>1
        <4>2. [f EXCEPT ![2] = k] = << f[1], k >>
          BY <4>1
        <4> QED
          BY <3>1, <4>2
      <3>3. << feeding[c][1], k >> \in Seq(Allowed) \X Nat
        BY <1>1, <3>1
      <3> QED
        BY <1>3, <1>4, <3>2, <3>3 DEF Sound, Partners
    <2> QED
      BY <1>2, <2>2, <2>3
  <1>8. p.for # "TARGETS"
    BY <1>1, <1>2, TransferAssumption DEF TransferAssumption
  <1> HIDE DEF target
  <1>9. TypeOK' /\ WithinItem'
    BY <1>1, <1>3, <1>5, <1>7 DEF Sound, TypeOK, WithinItem, Targets, gateVars, GateTypeOK
  <1>10. Owner' = Owner /\ \A d : Real(d)' <=> Real(d)
    BY <1>1 DEF Owner, Real
  <1>11. Partners'
    BY <1>1, <1>2, <1>3, <1>4, <1>5, <1>6, <1>7, <1>8, <1>10 DEF Sound, Partners
  <1> QED
    BY <1>9, <1>11 DEF Sound

LEMMA SoundStep == Sound /\ [Next]_vars => Sound'
  <1> SUFFICES ASSUME Sound, [Next]_vars PROVE Sound'
    OBVIOUS
  <1>1. ASSUME UNCHANGED <<offers, asked, feeding, property, notes, raw, crossed>>, GateTypeOK',
               transfer' \in {transfer, None}
        PROVE  Sound'
    BY <1>1 DEF Sound, TypeOK, WithinItem, Partners, Real, Owner
  <1>2. GateTypeOK
    BY DEF Sound, TypeOK
  <1>3. CASE UNCHANGED vars
    BY <1>1, <1>2, <1>3 DEF vars, serverVars, gateVars, GateTypeOK
  <1>4. CASE Pause
    BY <1>1, <1>2, <1>4 DEF Pause, serverVars, invalidate, GateTypeOK
  <1>5. CASE GiveUp
    BY <1>1, <1>2, <1>5 DEF GiveUp, serverVars, gateVars, GateTypeOK
  <1> QED
    BY <1>3, <1>4, <1>5, CopySound, AnswerSound, FeedSound, HandleSound DEF Next
-----------------------------------------------------------------------------
(***************************************************************************)
(* Conversions and answers, as long as owners do not overlap.              *)
(***************************************************************************)
LEMMA QueueIs ==
  ASSUME Sound
  PROVE  /\ notes \in Seq(NoteTypes) /\ Len(notes) \in Nat /\ (Len(notes) = 0 <=> notes = << >>)
         /\ \A i \in 1..Len(notes) : notes[i] \in NoteTypes
         /\ Owner \in 0..MaxClaims /\ Owner \in Nat
         /\ asked \in [Claims -> Seq(Targets)] /\ feeding \in [Claims -> Seq(Allowed) \X Nat]
         /\ transfer # None => /\ transfer \in Transfers /\ transfer.claim \in Claims
                               /\ Real(transfer.claim)
  <1>1. notes \in Seq(NoteTypes) /\ Owner \in 0..MaxClaims /\ MaxClaims \in Nat
    BY TransferAssumption DEF Sound, Partners, TransferAssumption
  <1>2. Len(notes) \in Nat /\ (Len(notes) = 0 <=> notes = << >>)
    BY <1>1, EmptySeq, LenProperties
  <1>3. \A i \in 1..Len(notes) : notes[i] \in NoteTypes
    BY <1>1, ElementOfSeq
  <1> QED
    BY <1>1, <1>2, <1>3 DEF Sound, TypeOK, Partners, Targets, Transfers

\* If the last note is not of an owner, none is.
LEMMA NoOwners ==
  ASSUME Sound, Lined, ~LastIsOwner
  PROVE  /\ \A i \in 1..Len(notes) : notes[i].op # "owner"
         /\ \A k \in Nat \ {0} : OwnersFrom(k) => Len(notes) < k
  <1>1. Len(notes) \in Nat /\ (Len(notes) = 0 <=> notes = << >>)
    BY QueueIs
  <1>2. \A i \in 1..Len(notes) : notes[i].op # "owner"
    <2>1. SUFFICES ASSUME NEW i \in 1..Len(notes), notes[i].op = "owner" PROVE FALSE
      OBVIOUS
    <2>2. Len(notes) \in i..Len(notes) /\ notes # << >>
      BY <1>1, <2>1
    <2>3. notes[Len(notes)].op = "owner"
      BY <2>1, <2>2 DEF Lined
    <2> QED
      BY <2>2, <2>3 DEF LastIsOwner
  <1>3. ASSUME NEW k \in Nat \ {0}, OwnersFrom(k), Len(notes) >= k PROVE FALSE
    <2>1. k \in 1..Len(notes)
      BY <1>1, <1>3
    <2> QED
      BY <1>2, <1>3, <2>1 DEF OwnersFrom
  <1> QED
    BY <1>1, <1>2, <1>3

\* What was asked of an owner before its note is handled is nothing.
LEMMA NothingAsked ==
  ASSUME Sound, Lined, Owner \in Claims, asked[Owner] # << >> \/ feeding[Owner][1] # << >>
  PROVE  /\ ~LastIsOwner
         /\ transfer # None => transfer.claim = Owner
  BY DEF Lined

\* A queue that stays as it is at its front, and grows by notes that are not of owners.
LEMMA GrowLined ==
  ASSUME Sound, Lined, ~LastIsOwner, UNCHANGED <<offers, transfer>>,
         notes' \in Seq(NoteTypes), Len(notes') \in Nat, notes' # << >>,
         \A i \in 1..Len(notes') : notes'[i].op # "owner"
  PROVE  Lined' /\ ~LastIsOwner'
  <1>1. Len(notes') \in 1..Len(notes')
    BY EmptySeq
  <1>2. ~LastIsOwner'
    BY <1>1 DEF LastIsOwner
  <1>3. Owner' = Owner
    BY DEF Owner
  <1> QED
    BY <1>2, <1>3 DEF Lined

\* A queue of which the first note is taken.
LEMMA TailLined ==
  ASSUME Sound, Lined, notes # << >>, notes' = Tail(notes),
         UNCHANGED <<offers, asked, feeding>>,
         transfer' # None =>
           transfer # None /\ transfer'.claim = transfer.claim /\ notes[1].op # "owner"
  PROVE  /\ Lined'
         /\ \A k \in Nat : OwnersFrom(k + 1) => OwnersFrom(k)'
         /\ Len(notes) >= 2 => Len(notes') >= 1 /\ notes'[1] = notes[2]
  <1>1. /\ Len(notes) \in Nat \ {0} /\ Len(notes') = Len(notes) - 1
        /\ \A i \in 1..(Len(notes) - 1) : notes'[i] = notes[i + 1]
    BY QueueIs, RestIs
  <1>2. Owner' = Owner /\ Owner \in Nat
    BY QueueIs DEF Owner
  <1>3. LastIsOwner' => LastIsOwner
    <2>1. SUFFICES ASSUME LastIsOwner' PROVE LastIsOwner
      OBVIOUS
    <2>2. notes' # << >> /\ notes'[Len(notes')].op = "owner"
      BY <2>1 DEF LastIsOwner
    <2>3. notes' \in Seq(NoteTypes)
      BY QueueIs, RestIs
    <2>4. Len(notes') # 0
      BY <2>2, <2>3, EmptySeq
    <2>5. notes'[Len(notes')] = notes[Len(notes)]
      BY <1>1, <2>4
    <2> QED
      BY <2>2, <2>5 DEF LastIsOwner
  <1>4. LastIsOwner /\ notes[1].op # "owner" => LastIsOwner'
    <2>1. SUFFICES ASSUME LastIsOwner, notes[1].op # "owner" PROVE LastIsOwner'
      OBVIOUS
    <2>2. Len(notes) # 1
      BY <2>1 DEF LastIsOwner
    <2>3. notes'[Len(notes')] = notes[Len(notes)] /\ Len(notes') # 0
      BY <1>1, <2>2
    <2> QED
      BY <2>1, <2>3 DEF LastIsOwner
  <1>5. \A i \in 1..Len(notes') : notes'[i].op = "owner" =>
          /\ notes'[i].claim = Owner - (Len(notes') - i)
          /\ \A j \in i..Len(notes') : notes'[j].op = "owner"
    <2>1. SUFFICES ASSUME NEW i \in 1..Len(notes'), notes'[i].op = "owner"
                   PROVE  /\ notes'[i].claim = Owner - (Len(notes') - i)
                          /\ \A j \in i..Len(notes') : notes'[j].op = "owner"
      OBVIOUS
    <2>2. i + 1 \in 1..Len(notes) /\ notes[i + 1].op = "owner" /\ notes'[i] = notes[i + 1]
      BY <1>1, <2>1
    <2>3. /\ notes[i + 1].claim = Owner - (Len(notes) - (i + 1))
          /\ \A j \in (i + 1)..Len(notes) : notes[j].op = "owner"
      BY <2>2 DEF Lined
    <2>4. Len(notes) - (i + 1) = Len(notes') - i
      BY <1>1
    <2>5. \A j \in i..Len(notes') : j + 1 \in (i + 1)..Len(notes) /\ notes'[j] = notes[j + 1]
      BY <1>1
    <2> QED
      BY <2>2, <2>3, <2>4, <2>5
  <1>6. transfer' # None => (transfer'.claim = Owner <=> ~LastIsOwner')
    BY <1>3, <1>4 DEF Lined
  <1>7. Lined'
    BY <1>2, <1>3, <1>5, <1>6 DEF Lined
  <1>8. ASSUME NEW k \in Nat, OwnersFrom(k + 1) PROVE OwnersFrom(k)'
    <2>1. \A i \in 1..Len(notes') : i >= k =>
            i + 1 \in 1..Len(notes) /\ i + 1 >= k + 1 /\ notes'[i] = notes[i + 1]
      BY <1>1
    <2> QED
      BY <1>8, <2>1 DEF OwnersFrom
  <1> QED
    BY <1>1, <1>7, <1>8

LEMMA CopyApart ==
  ASSUME Sound, ~crossed, Apart, NEW offer \in Offers \cup {None}, Copy(offer)
  PROVE  Apart'
  <1> DEFINE n == [op |-> "owner", claim |-> Owner + 1]
             k == Len(notes)
  <1>1. /\ k \in Nat /\ notes \in Seq(NoteTypes) /\ Owner \in Nat
        /\ transfer # None => transfer.claim \in Claims /\ Real(transfer.claim)
    BY QueueIs
  <1>2. /\ Owner' = Owner + 1 /\ Owner + 1 \in Claims
        /\ \A c \in Claims : c <= Owner => offers'[c] = offers[c]
    BY CopySound
  <1>3. notes' = Append(notes, n) /\ UNCHANGED <<asked, feeding, property, transfer, raw>>
    BY DEF Copy, ServerOnly
  <1>4. n \in NoteTypes /\ n.op = "owner" /\ n.claim = Owner + 1
    BY <1>2, NotesAre
  <1> HIDE DEF n
  <1>5. /\ Len(notes') = k + 1 /\ notes'[k + 1] = n /\ notes' # << >>
        /\ \A i \in 1..k : notes'[i] = notes[i]
    BY <1>1, <1>3, <1>4, NoteIs, EmptySeq
  <1>6. asked[Owner + 1] = << >> /\ feeding[Owner + 1][1] = << >>
    BY <1>1, <1>2 DEF Sound, Partners, Real
  <1>7. LastIsOwner'
    BY <1>4, <1>5 DEF LastIsOwner
  <1>8. Lined'
    <2>1. ASSUME NEW i \in 1..(k + 1), notes'[i].op = "owner"
          PROVE  /\ notes'[i].claim = (Owner + 1) - ((k + 1) - i)
                 /\ \A j \in i..(k + 1) : notes'[j].op = "owner"
      <3>1. CASE i = k + 1
        BY <1>1, <1>4, <1>5, <3>1
      <3>2. CASE i \in 1..k
        <4>1. /\ notes[i].claim = Owner - (k - i)
              /\ \A j \in i..k : notes[j].op = "owner"
          BY <1>5, <2>1, <3>2 DEF Apart, Lined
        <4>2. \A j \in i..(k + 1) : j = k + 1 \/ (j \in i..k /\ j \in 1..k)
          BY <1>1, <3>2
        <4>3. (Owner + 1) - ((k + 1) - i) = Owner - (k - i)
          BY <1>1
        <4> QED
          BY <1>4, <1>5, <3>2, <4>1, <4>2, <4>3
      <3> QED
        BY <1>1, <2>1, <3>1, <3>2
    <2>2. transfer # None => transfer.claim # Owner + 1
      BY <1>1 DEF Real
    <2> QED
      BY <1>2, <1>3, <1>5, <1>6, <1>7, <2>1, <2>2 DEF Lined
  <1>9. Paired'
    <2>1. SUFFICES ASSUME transfer # None PROVE Converting' /\ Trusted'
      BY <1>3 DEF Apart, Paired
    <2>2. offers'[transfer.claim] = offers[transfer.claim]
      BY <1>1, <1>2, <2>1 DEF Real
    <2>3. \A m \in Nat \ {0} : OwnersFrom(m) => OwnersFrom(m)'
      <3>1. \A i \in 1..(k + 1) : i = k + 1 \/ i \in 1..k
        BY <1>1
      <3> QED
        BY <1>4, <1>5, <3>1 DEF OwnersFrom
    <2>4. /\ OwnersFrom(1) => OwnersFrom(1)'
          /\ OwnersFrom(2) => OwnersFrom(2)'
          /\ OwnersFrom(3) => OwnersFrom(3)'
          /\ Len(notes) >= 1 => Len(notes') >= 1 /\ notes'[1] = notes[1]
          /\ Len(notes) >= 2 => Len(notes') >= 2 /\ notes'[2] = notes[2]
      BY <1>1, <1>5, <2>3
    <2>5. Converting /\ Trusted
      BY <2>1 DEF Apart, Paired
    <2>6. Trusted'
      BY <1>3, <2>2, <2>5 DEF Trusted
    <2>7. Converting'
      BY <1>3, <2>4, <2>5 DEF Converting, AwaitsAnswer, HasAnswer, Refused, AwaitsChunk,
                              HasChunk, Pending, Chunks, Written, Announced, Result
    <2> QED
      BY <2>6, <2>7
  <1>10. HintedNeverAsked'
    <2>1. ASSUME NEW c \in 1..(Owner + 1), offers'[c] # None, Hint \in Range(offers'[c])
          PROVE  Range(asked[c]) \subseteq {"TARGETS"}
      <3>1. CASE c = Owner + 1
        BY <1>6, <3>1, RangeEmpty
      <3>2. CASE c \in 1..Owner
        <4>1. MaxClaims \in Nat
          BY TransferAssumption DEF TransferAssumption
        <4>2. c \in Claims /\ c <= Owner
          BY <1>1, <1>2, <3>2, <4>1 DEF Claims
        <4>3. offers'[c] = offers[c]
          BY <1>2, <4>2
        <4> QED
          BY <2>1, <3>2, <4>3 DEF Apart, HintedNeverAsked
      <3> QED
        BY <1>1, <2>1, <3>1, <3>2
    <2> QED
      BY <1>2, <1>3, <2>1 DEF HintedNeverAsked
  <1> QED
    BY <1>8, <1>9, <1>10 DEF Apart

\* Asked no more than before, whoever offers the hint is asked for its list alone.
LEMMA StillHinted ==
  ASSUME Sound, ~crossed, HintedNeverAsked, UNCHANGED offers,
         \A c \in Claims : Range(asked'[c]) \subseteq Range(asked[c]) \cup {"TARGETS"}
  PROVE  HintedNeverAsked'
  <1>1. Owner' = Owner /\ Owner \in 0..MaxClaims /\ MaxClaims \in Nat
    BY QueueIs, TransferAssumption DEF Owner, TransferAssumption
  <1>2. \A c \in 1..Owner : c \in Claims
    BY <1>1 DEF Claims
  <1> QED
    BY <1>1, <1>2 DEF HintedNeverAsked

LEMMA AnswerApart ==
  ASSUME Sound, ~crossed, Apart, NEW c \in Claims, Answer(c), ~crossed'
  PROVE  Apart'
  <1> DEFINE target == Head(asked[c])
  <1>1. /\ c = Owner /\ asked[c] # << >> /\ asked[c] \in Seq(Targets)
        /\ asked' = [asked EXCEPT ![c] = Tail(asked[c])]
        /\ UNCHANGED <<gateVars, offers, transfer, raw>>
    BY AnswerIs
  <1>2. /\ asked \in [Claims -> Seq(Targets)] /\ notes \in Seq(NoteTypes) /\ Len(notes) \in Nat
        /\ feeding \in [Claims -> Seq(Allowed) \X Nat]
        /\ Len(notes) = 0 <=> notes = << >>
    BY QueueIs
  <1>3. Lined /\ ~LastIsOwner /\ (transfer # None => transfer.claim = c)
    BY <1>1, NothingAsked DEF Apart
  <1>4. \A i \in 1..Len(notes) : notes[i].op # "owner"
    BY <1>3, NoOwners
  <1>5. \/ \E p \in Property :
             /\ p.from = c /\ p.for = target /\ Write(p, TRUE)
             /\ p.form = "atoms" <=> target = "TARGETS"
             /\ IF p.form = "incr"
                  THEN /\ feeding[c][1] = << >>
                       /\ feeding' = [feeding EXCEPT ![c] = << <<target>>, MaxChunks >>]
                  ELSE UNCHANGED feeding
        \/ notes' = Append(notes, Answered(FALSE)) /\ UNCHANGED <<property, feeding>>
    BY AnswerIs
  <1>6. HintedNeverAsked'
    <2>1. Range(Tail(asked[c])) \subseteq Range(asked[c])
      BY <1>1, RangeTail
    <2>2. \A d \in Claims : Range(asked'[d]) \subseteq Range(asked[d])
      BY <1>1, <1>2, <2>1
    <2> QED
      BY <1>1, <2>2, StillHinted DEF Apart
  <1>7. ASSUME transfer # None
        PROVE  /\ asked[c] = <<transfer.current>> /\ property = None /\ feeding[c][1] = << >>
               /\ ~transfer.incremental /\ notes = << >> /\ Trusted
               /\ target = transfer.current /\ asked'[c] = << >>
    <2>1. Converting /\ Trusted
      BY <1>7 DEF Apart, Paired
    <2>2. AwaitsAnswer
      BY <1>1, <1>3, <1>7, <2>1
         DEF Converting, AwaitsAnswer, HasAnswer, Refused, AwaitsChunk, HasChunk, Pending
    <2>3. Len(notes) < 1
      BY <1>3, <2>2, NoOwners DEF AwaitsAnswer
    <2>4. asked[c] = <<transfer.current>>
      BY <1>3, <1>7, <2>2 DEF AwaitsAnswer, Pending
    <2>5. Tail(asked[c]) = << >> /\ Head(asked[c]) = transfer.current
      BY <2>4
    <2>6. asked'[c] = << >>
      BY <1>1, <1>2, <2>5
    <2> QED
      BY <1>2, <1>3, <1>7, <2>1, <2>2, <2>3, <2>4, <2>5, <2>6
         DEF AwaitsAnswer, Pending, Chunks
  <1>8. CASE \E p \in Property :
               /\ p.from = c /\ p.for = target /\ Write(p, TRUE)
               /\ p.form = "atoms" <=> target = "TARGETS"
               /\ IF p.form = "incr"
                    THEN /\ feeding[c][1] = << >>
                         /\ feeding' = [feeding EXCEPT ![c] = << <<target>>, MaxChunks >>]
                    ELSE UNCHANGED feeding
    <2>1. PICK p \in Property :
               /\ p.from = c /\ p.for = target /\ Write(p, TRUE)
               /\ IF p.form = "incr"
                    THEN /\ feeding[c][1] = << >>
                         /\ feeding' = [feeding EXCEPT ![c] = << <<target>>, MaxChunks >>]
                    ELSE UNCHANGED feeding
      BY <1>8
    <2>2. /\ property' = p /\ notes' \in Seq(NoteTypes) /\ Len(notes') = Len(notes) + 2
          /\ \A i \in 1..Len(notes) : notes'[i] = notes[i]
          /\ notes'[Len(notes) + 1] = NewNote /\ notes'[Len(notes) + 2] = Answered(TRUE)
      BY <1>2, <2>1, WriteIs
    <2>3. \A i \in 1..Len(notes') : notes'[i].op # "owner"
      <3>1. \A i \in 1..Len(notes') :
              i \in 1..Len(notes) \/ i = Len(notes) + 1 \/ i = Len(notes) + 2
        BY <1>2, <2>2
      <3> QED
        BY <1>4, <2>2, <3>1, NotesAre
    <2>4. Len(notes') \in Nat /\ notes' # << >>
      BY <1>2, <2>2, EmptySeq
    <2>5. Lined'
      BY <1>1, <1>3, <2>2, <2>3, <2>4, GrowLined
    <2>6. ASSUME transfer # None PROVE HasAnswer' /\ Trusted'
      <3>1. Len(notes) = 0 /\ Len(notes') = 2
        BY <1>2, <1>7, <2>2, <2>6
      <3>2. /\ notes'[1] = NewNote /\ notes'[2] = Answered(TRUE)
            /\ OwnersFrom(3)'
        <4>1. Len(notes) + 1 = 1 /\ Len(notes) + 2 = 2
          BY <3>1
        <4>2. notes'[1] = NewNote /\ notes'[2] = Answered(TRUE)
          BY <2>2, <4>1
        <4> QED
          BY <3>1, <4>2 DEF OwnersFrom
      <3>3. /\ notes'[1].op = "new" /\ notes'[2].op = "answer" /\ notes'[2].ok
        BY <3>2, NotesAre
      <3>4. IF p.form = "incr" THEN feeding'[c][1] = <<transfer.current>>
                               ELSE feeding'[c][1] = << >>
        BY <1>2, <1>7, <2>1, <2>6
      <3>5. p # None
        BY TransferAssumption DEF TransferAssumption
      <3>6. /\ transfer' = transfer /\ transfer.claim = c /\ property' = p /\ p # None
            /\ p.from = c /\ p.for = transfer.current /\ asked'[c] = << >>
            /\ ~transfer.incremental
        BY <1>1, <1>3, <1>7, <2>1, <2>2, <2>6, <3>5
      <3>7. HasAnswer'
        <4>1. Written' /\ Pending' = << >>
          BY <3>6 DEF Written, Pending
        <4>2. IF property'.form = "incr" THEN Chunks' = <<transfer'.current>>
                                         ELSE Chunks' = << >>
          BY <3>4, <3>6 DEF Chunks
        <4>3. Announced'
          <5>1. Len(notes') >= 2
            BY <3>1
          <5>2. notes'[2].ok = TRUE
            BY <3>3
          <5> QED
            BY <3>2, <3>3, <5>1, <5>2 DEF Announced
        <4>4. ~transfer'.incremental
          BY <3>6
        <4> QED
          BY <4>1, <4>2, <4>3, <4>4 DEF HasAnswer
      <3>8. Trusted'
        BY <1>1, <1>7, <2>6 DEF Trusted
      <3> QED
        BY <3>7, <3>8
    <2> QED
      BY <1>1, <1>6, <2>5, <2>6 DEF Apart, Paired, Converting
  <1>9. CASE notes' = Append(notes, Answered(FALSE)) /\ UNCHANGED <<property, feeding>>
    <2> DEFINE a == Answered(FALSE)
    <2>1. a \in NoteTypes /\ a.op = "answer" /\ ~a.ok
      BY NotesAre
    <2>2. notes' = Append(notes, a)
      BY <1>9
    <2> HIDE DEF a
    <2>3. /\ notes' \in Seq(NoteTypes) /\ Len(notes') = Len(notes) + 1
          /\ \A i \in 1..Len(notes) : notes'[i] = notes[i]
          /\ notes'[Len(notes) + 1] = a
      BY <1>2, <2>1, <2>2, NoteIs
    <2>4. \A i \in 1..Len(notes') : notes'[i].op # "owner"
      <3>1. \A i \in 1..Len(notes') : i \in 1..Len(notes) \/ i = Len(notes) + 1
        BY <1>2, <2>3
      <3> QED
        BY <1>4, <2>1, <2>3, <3>1
    <2>5. Len(notes') \in Nat /\ notes' # << >>
      BY <1>2, <2>3, EmptySeq
    <2>6. Lined'
      BY <1>1, <1>3, <2>3, <2>4, <2>5, GrowLined
    <2>7. ASSUME transfer # None PROVE Refused' /\ Trusted'
      <3>1. Len(notes') = 1 /\ notes'[1] = a
        BY <1>2, <1>7, <2>3, <2>7
      <3>2. Result(FALSE)'
        BY <2>1, <3>1 DEF Result, OwnersFrom
      <3>3. Refused'
        BY <1>1, <1>3, <1>7, <1>9, <2>7, <3>2 DEF Refused, Pending, Chunks
      <3>4. Trusted'
        BY <1>1, <1>7, <2>7 DEF Trusted
      <3> QED
        BY <3>3, <3>4
    <2> QED
      BY <1>1, <1>6, <2>6, <2>7 DEF Apart, Paired, Converting
  <1> QED
    BY <1>5, <1>8, <1>9

LEMMA FeedApart ==
  ASSUME Sound, ~crossed, Apart, NEW c \in Claims, Feed(c), ~crossed'
  PROVE  Apart'
  <1> DEFINE target == Head(feeding[c][1])
  <1>1. /\ c = Owner /\ feeding[c][1] # << >> /\ property = None
        /\ UNCHANGED <<gateVars, offers, asked, transfer, raw>>
    BY FeedIs
  <1>2. PICK p \in Property :
          /\ p.from = c /\ p.for = target /\ p.form = "bytes" /\ Write(p, FALSE)
          /\ IF p.size = 0
               THEN feeding' = [feeding EXCEPT ![c] = << <<>>, 0 >>]
               ELSE \E k \in Nat : feeding' = [feeding EXCEPT ![c][2] = k]
    BY FeedIs
  <1>3. /\ notes \in Seq(NoteTypes) /\ Len(notes) \in Nat
        /\ feeding \in [Claims -> Seq(Allowed) \X Nat]
        /\ Len(notes) = 0 <=> notes = << >>
    BY QueueIs
  <1>4. Lined /\ ~LastIsOwner /\ (transfer # None => transfer.claim = c)
    BY <1>1, NothingAsked DEF Apart
  <1>5. \A i \in 1..Len(notes) : notes[i].op # "owner"
    BY <1>4, NoOwners
  <1>6. /\ property' = p /\ p # None /\ notes' \in Seq(NoteTypes) /\ Len(notes') = Len(notes) + 1
        /\ \A i \in 1..Len(notes) : notes'[i] = notes[i]
        /\ notes'[Len(notes) + 1] = NewNote
    BY <1>2, <1>3, WriteIs, TransferAssumption DEF TransferAssumption
  <1>7. \A i \in 1..Len(notes') : notes'[i].op # "owner"
    <2>1. \A i \in 1..Len(notes') : i \in 1..Len(notes) \/ i = Len(notes) + 1
      BY <1>3, <1>6
    <2> QED
      BY <1>5, <1>6, <2>1, NotesAre
  <1>8. Len(notes') \in Nat /\ notes' # << >>
    BY <1>3, <1>6, EmptySeq
  <1>9. Lined'
    BY <1>1, <1>4, <1>6, <1>7, <1>8, GrowLined
  <1>10. HintedNeverAsked'
    BY <1>1, StillHinted DEF Apart
  <1>11. ASSUME transfer # None PROVE HasChunk' /\ Trusted'
    <2>1. Converting /\ Trusted
      BY <1>11 DEF Apart, Paired
    <2>2. Chunks # << >>
      BY <1>1, <1>4, <1>11 DEF Chunks
    <2>3. AwaitsChunk
      BY <1>1, <2>1, <2>2
         DEF Converting, AwaitsAnswer, HasAnswer, Refused, AwaitsChunk, HasChunk, Written
    <2>4. Len(notes) < 1
      BY <1>4, <2>3, NoOwners DEF AwaitsChunk
    <2>5. Len(notes') = 1 /\ notes'[1] = NewNote
      BY <1>3, <1>6, <2>4
    <2>6. notes'[1].op = "new" /\ OwnersFrom(2)'
      BY <2>5, NotesAre DEF OwnersFrom
    <2>7. feeding[c][1] = <<transfer.current>> /\ target = transfer.current
      BY <1>4, <1>11, <2>3 DEF AwaitsChunk, Chunks
    <2>8. IF p.size = 0 THEN feeding'[c][1] = << >> ELSE feeding'[c][1] = <<transfer.current>>
      BY <1>2, <1>3, <2>7
    <2>9. /\ transfer' = transfer /\ transfer.claim = c /\ transfer.incremental
          /\ asked'[c] = << >>
      BY <1>1, <1>4, <1>11, <2>3 DEF AwaitsChunk, Pending
    <2>10. Written' /\ Pending' = << >>
      BY <1>2, <1>6, <2>7, <2>9 DEF Written, Pending
    <2>11. IF property'.size = 0 THEN Chunks' = << >> ELSE Chunks' = <<transfer'.current>>
      BY <1>6, <2>8, <2>9 DEF Chunks
    <2>12. HasChunk'
      <3>1. property'.form = "bytes" /\ transfer'.incremental /\ Len(notes') >= 1
        BY <1>2, <1>6, <2>5, <2>9
      <3> QED
        BY <2>6, <2>10, <2>11, <3>1 DEF HasChunk
    <2>13. Trusted'
      BY <1>1, <2>1 DEF Trusted
    <2> QED
      BY <2>12, <2>13
  <1> QED
    BY <1>1, <1>9, <1>10, <1>11 DEF Apart, Paired, Converting

\* A fetch ends, or was none.
LEMMA StopApart ==
  ASSUME Sound, ~crossed, Apart, notes # << >>, UNCHANGED <<offers, feeding>>,
         NEW p, Become(None, p, Tail(notes))
  PROVE  Apart'
  <1>1. notes' = Tail(notes) /\ transfer' = None /\ UNCHANGED <<asked, raw, crossed>>
    BY DEF Become
  <1>2. Lined'
    BY <1>1, TailLined DEF Apart
  <1>3. HintedNeverAsked'
    BY <1>1, StillHinted DEF Apart
  <1> QED
    BY <1>1, <1>2, <1>3 DEF Apart, Paired

\* A fetch goes on with the same conversion.
LEMMA GoOnApart ==
  ASSUME Sound, ~crossed, Apart, notes # << >>, UNCHANGED <<offers, feeding>>,
         transfer # None, notes[1].op # "owner",
         NEW t, NEW p, Become(t, p, Tail(notes)), t.claim = transfer.claim,
         Converting', Trusted'
  PROVE  Apart'
  <1>1. notes' = Tail(notes) /\ transfer' = t /\ UNCHANGED <<asked, raw, crossed>>
    BY DEF Become
  <1>2. Lined'
    BY <1>1, TailLined DEF Apart
  <1>3. HintedNeverAsked'
    BY <1>1, StillHinted DEF Apart
  <1> QED
    BY <1>1, <1>2, <1>3 DEF Apart, Paired

\* A conversion is asked of the owner, of whom nothing is asked, when all notes are handled.
LEMMA AskApart ==
  ASSUME Sound, ~crossed, Apart, ~crossed', UNCHANGED <<offers, feeding>>, raw' = raw,
         NEW t \in Transfers, transfer' = t, t.claim = Owner, Owner \in Claims, Real(Owner),
         ~t.incremental, t.given = {}, Filed(Owner, t.reps),
         t.targets # << >> \/ t.current # "TARGETS" => Hint \notin Range(offers[Owner]),
         asked[Owner] = << >>, feeding[Owner][1] = << >>,
         Convert(Owner, t.current, << >>)
  PROVE  Apart'
  <1>1. t.current \in Targets
    BY DEF Transfers, Targets
  <1>2. << >> \in Seq(NoteTypes)
    OBVIOUS
  <1>3. /\ property' = None /\ notes' = << >>
        /\ asked' = [asked EXCEPT ![Owner] = Append(asked[Owner], t.current)]
    BY <1>1, <1>2, ConvertIs
  <1>4. asked \in [Claims -> Seq(Targets)]
    BY QueueIs
  <1>5. asked' = [asked EXCEPT ![Owner] = <<t.current>>] /\ asked'[Owner] = <<t.current>>
    <2>1. Append(<< >>, t.current) = <<t.current>>
      OBVIOUS
    <2> QED
      BY <1>3, <1>4, <2>1
  <1>6. Owner' = Owner /\ Len(notes') = 0
    BY <1>3 DEF Owner
  <1>7. Lined'
    <2>1. ~LastIsOwner' /\ \A i \in 1..Len(notes') : FALSE
      BY <1>3, <1>6 DEF LastIsOwner
    <2> QED
      BY <1>6, <2>1 DEF Lined
  <1>8. AwaitsAnswer'
    <2>1. Pending' = <<transfer'.current>> /\ Chunks' = << >>
      BY <1>5 DEF Pending, Chunks
    <2>2. OwnersFrom(1)'
      BY <1>6 DEF OwnersFrom
    <2> QED
      BY <1>3, <2>1, <2>2 DEF AwaitsAnswer
  <1>9. Trusted'
    BY <1>6 DEF Trusted
  <1>10. HintedNeverAsked'
    <2>1. CASE t.current = "TARGETS"
      <3>1. Range(<<t.current>>) = {"TARGETS"}
        BY <2>1 DEF Range
      <3>2. \A c \in Claims : Range(asked'[c]) \subseteq Range(asked[c]) \cup {"TARGETS"}
        BY <1>4, <1>5, <3>1
      <3> QED
        BY <3>2, StillHinted DEF Apart
    <2>2. CASE Hint \notin Range(offers[Owner])
      <3>1. \A c \in 1..Owner : c \in Claims
        BY QueueIs, TransferAssumption DEF Claims, TransferAssumption
      <3>2. \A c \in 1..Owner : c # Owner => asked'[c] = asked[c]
        BY <1>4, <1>5, <3>1
      <3> QED
        BY <1>6, <2>2, <3>2 DEF Apart, HintedNeverAsked
    <2> QED
      BY <2>1, <2>2
  <1> QED
    BY <1>7, <1>8, <1>9, <1>10 DEF Apart, Paired, Converting

\* A conversion is over, and the fetch goes on to the next target or ends.
LEMMA NextApart ==
  ASSUME Sound, ~crossed, Apart, ~crossed', notes # << >>, UNCHANGED <<offers, feeding>>,
         transfer # None, Pending = << >>, Chunks = << >>,
         notes[1].op # "owner", OwnersFrom(2),
         NEW t \in Transfers, t.claim = transfer.claim,
         t.targets # << >> => Hint \notin Range(offers[t.claim]), Filed(t.claim, t.reps),
         NextTarget(t, None, Tail(notes))
  PROVE  Apart'
  <1>1. transfer.claim \in Claims /\ Real(transfer.claim) /\ notes \in Seq(NoteTypes)
    BY QueueIs
  <1>2. CASE /\ t.targets # << >> /\ transfer' = Turned(t)
             /\ Convert(t.claim, Head(t.targets), Tail(notes)) /\ raw' = raw
    <2>1. t.claim = Owner
      BY <1>2 DEF Convert
    <2>2. ~LastIsOwner
      BY <2>1 DEF Apart, Lined
    <2>3. Len(notes) < 2
      BY <2>2, NoOwners DEF Apart
    <2>4. Tail(notes) = << >>
      <3>1. /\ Len(notes) \in Nat \ {0} /\ Tail(notes) \in Seq(NoteTypes)
            /\ Len(Tail(notes)) = Len(notes) - 1
        BY <1>1, RestIs
      <3> QED
        BY <2>3, <3>1, EmptySeq
    <2> DEFINE u == Turned(t)
    <2>5. /\ u \in Transfers /\ u.claim = t.claim /\ u.current = Head(t.targets)
          /\ u.current \in Allowed /\ u.given = {} /\ u.reps = t.reps /\ ~u.incremental
      BY <1>2, TurnedIs
    <2>6. transfer' = u /\ Convert(Owner, u.current, << >>)
      BY <1>2, <2>1, <2>4, <2>5
    <2>7. Hint \notin Range(offers[Owner])
      BY <1>2, <2>1
    <2>8. Filed(Owner, u.reps) /\ asked[Owner] = << >> /\ feeding[Owner][1] = << >>
      BY <2>1, <2>5 DEF Pending, Chunks
    <2>9. Owner \in Claims /\ Real(Owner)
      BY <1>1, <2>1
    <2> HIDE DEF u
    <2> QED
      BY <1>2, <2>1, <2>5, <2>6, <2>7, <2>8, <2>9, AskApart
  <1>3. CASE /\ t.targets = << >> /\ transfer' = None /\ property' = None /\ notes' = Tail(notes)
             /\ UNCHANGED <<asked, crossed>>
             /\ raw' = raw \/ raw' = raw \cup {[claim |-> t.claim, reps |-> t.reps]}
    <2>1. Lined'
      BY <1>3, TailLined DEF Apart
    <2>2. HintedNeverAsked'
      BY <1>3, StillHinted DEF Apart
    <2>3. \A r \in raw' : Filed(r.claim, r.reps)
      BY <1>3 DEF Apart, Paired
    <2> QED
      BY <1>3, <2>1, <2>2, <2>3 DEF Apart, Paired
  <1> QED
    BY <1>2, <1>3, NextIs

LEMMA ReadApart ==
  ASSUME Sound, ~crossed, Apart, ~crossed', notes # << >>, UNCHANGED <<offers, feeding>>,
         transfer # None, NEW chunk \in BOOLEAN, Read(transfer, chunk, Tail(notes)),
         notes[1].op = (IF chunk THEN "new" ELSE "answer"),
         IF chunk THEN HasChunk ELSE HasAnswer
  PROVE  Apart'
  <1> DEFINE c == transfer.claim
  <1>1. /\ transfer \in Transfers /\ transfer.given \in SUBSET Data /\ c \in Claims
        /\ notes[1].op # "owner"
    BY QueueIs DEF Transfers
  <1>2. Converting /\ Trusted
    BY DEF Apart, Paired
  <1>3. /\ Written /\ Pending = << >> /\ OwnersFrom(2)
        /\ IF chunk THEN transfer.incremental /\ property.form = "bytes"
                         /\ IF property.size = 0 THEN Chunks = << >>
                                                 ELSE Chunks = <<transfer.current>>
                    ELSE ~transfer.incremental
                         /\ IF property.form = "incr" THEN Chunks = <<transfer.current>>
                                                      ELSE Chunks = << >>
    BY DEF HasChunk, HasAnswer, Announced, Result
  <1>4. /\ property # None /\ property.from = c /\ property.for = transfer.current
        /\ Datum = [from |-> c, for |-> transfer.current]
    BY <1>3 DEF Written, Datum
  <1>5. CASE \E p \in {property, None} : Become(None, p, Tail(notes))
    BY <1>5, StopApart
  <1>6. CASE /\ property.form = "incr" /\ ~chunk
             /\ Become(Streaming(transfer), None, Tail(notes))
    <2> DEFINE t == Streaming(transfer)
    <2>1. /\ t.claim = c /\ t.targets = transfer.targets /\ t.current = transfer.current
          /\ t.reps = transfer.reps /\ t.given = transfer.given /\ t.incremental
      BY <1>1, StreamingIs
    <2>2. Become(t, None, Tail(notes))
      BY <1>6
    <2> HIDE DEF t
    <2>3. /\ transfer' = t /\ property' = None /\ asked' = asked /\ notes' = Tail(notes)
      BY <2>2 DEF Become
    <2>4. OwnersFrom(1)'
      BY <1>1, <1>3, <2>1, <2>3, TailLined DEF Apart
    <2>5. Pending' = << >> /\ Chunks' = <<transfer'.current>>
      BY <1>3, <1>6, <2>1, <2>3 DEF Pending, Chunks
    <2>6. AwaitsChunk'
      BY <2>1, <2>3, <2>4, <2>5 DEF AwaitsChunk
    <2>7. Trusted'
      BY <1>2, <2>1, <2>3 DEF Trusted
    <2> QED
      BY <1>1, <2>1, <2>2, <2>6, <2>7, GoOnApart DEF Converting
  <1>7. CASE /\ property.form = "atoms" /\ ~Rejects(offers[property.from])
             /\ NextTarget(Listed(transfer, offers[property.from]), None, Tail(notes))
    <2> DEFINE t == Listed(transfer, offers[property.from])
    <2>1. offers[property.from] \in Offers
      BY <1>4, PropertyIs
    <2>2. t \in Transfers /\ t.claim = c /\ t.reps = transfer.reps
      BY <1>1, <2>1, ListedIs
    <2>3. NextTarget(t, None, Tail(notes))
      BY <1>7
    <2> HIDE DEF t
    <2>4. Hint \notin Range(offers[t.claim]) /\ Filed(t.claim, t.reps)
      BY <1>2, <1>4, <1>7, <2>2 DEF Rejects, Trusted
    <2>5. Chunks = << >>
      BY <1>3, <1>7
    <2> QED
      BY <1>1, <1>3, <2>2, <2>3, <2>4, <2>5, NextApart
  <1>8. CASE /\ chunk /\ property.form = "bytes" /\ property.size > 0
             /\ transfer.current # "TARGETS"
             /\ Become(Chunked(transfer, property.size, {Datum}), None, Tail(notes))
    <2> DEFINE t == Chunked(transfer, property.size, {Datum})
    <2>1. property.size \in Nat /\ {Datum} \in SUBSET Data
      BY <1>4, <1>8, PropertyIs
    <2>2. /\ t.claim = c /\ t.targets = transfer.targets /\ t.current = transfer.current
          /\ t.reps = transfer.reps /\ t.given = transfer.given \cup {Datum}
          /\ t.incremental = transfer.incremental
      BY <1>1, <2>1, ChunkedIs
    <2>3. Become(t, None, Tail(notes))
      BY <1>8
    <2> HIDE DEF t
    <2>4. /\ transfer' = t /\ property' = None /\ asked' = asked /\ notes' = Tail(notes)
      BY <2>3 DEF Become
    <2>5. OwnersFrom(1)'
      BY <1>1, <1>3, <2>2, <2>4, TailLined DEF Apart
    <2>6. Pending' = << >> /\ Chunks' = <<transfer'.current>>
      BY <1>3, <1>8, <2>1, <2>2, <2>4 DEF Pending, Chunks
    <2>7. AwaitsChunk'
      BY <1>3, <1>8, <2>2, <2>4, <2>5, <2>6 DEF AwaitsChunk
    <2>8. Trusted'
      BY <1>2, <1>4, <2>2, <2>4 DEF Trusted
    <2> QED
      BY <1>1, <2>2, <2>3, <2>7, <2>8, GoOnApart DEF Converting
  <1>9. CASE /\ transfer.current # "TARGETS" /\ property.form = "bytes"
             /\ chunk => property.size = 0
             /\ \E bytes \in Nat, all \in SUBSET Data :
                  /\ all \subseteq transfer.given \cup {Datum}
                  /\ NextTarget(Ended(transfer, bytes, all), None, Tail(notes))
    <2>1. PICK bytes \in Nat, all \in SUBSET Data :
                  /\ all \subseteq transfer.given \cup {Datum}
                  /\ NextTarget(Ended(transfer, bytes, all), None, Tail(notes))
      BY <1>9
    <2>2. transfer.current \in Allowed
      BY <1>1, <1>9 DEF Transfers
    <2> DEFINE t == Ended(transfer, bytes, all)
    <2>3. /\ t \in Transfers /\ t.claim = c /\ t.targets = transfer.targets
          /\ \A i \in DOMAIN t.reps :
               \/ i \in DOMAIN transfer.reps /\ t.reps[i] = transfer.reps[i]
               \/ t.reps[i] = [mime |-> transfer.current, given |-> all]
      BY <1>1, <2>2, EndedIs
    <2>4. NextTarget(t, None, Tail(notes))
      BY <2>1
    <2> HIDE DEF t
    <2>5. all \subseteq {[from |-> c, for |-> transfer.current]}
      BY <1>2, <1>4, <2>1 DEF Trusted
    <2>6. Filed(t.claim, t.reps)
      BY <1>2, <2>3, <2>5 DEF Filed, Trusted
    <2>7. t.targets # << >> => Hint \notin Range(offers[t.claim])
      BY <1>2, <2>3 DEF Trusted
    <2>8. Chunks = << >>
      BY <1>3, <1>9
    <2> QED
      BY <1>1, <1>3, <2>3, <2>4, <2>6, <2>7, <2>8, NextApart
  <1> QED
    BY <1>4, <1>5, <1>6, <1>7, <1>8, <1>9, ReadIs

\* A fetch begins with the note of the present owner, the last one.
LEMMA BeginApart ==
  ASSUME Sound, ~crossed, Apart, ~crossed', notes # << >>, UNCHANGED <<offers, feeding>>,
         notes[1].op = "owner", offers[notes[1].claim] # None,
         transfer' = Started(notes[1].claim), raw' = raw,
         Convert(notes[1].claim, "TARGETS", Tail(notes))
  PROVE  Apart'
  <1>1. /\ notes \in Seq(NoteTypes) /\ Len(notes) \in Nat \ {0} /\ notes[1] \in NoteTypes
        /\ Owner \in Nat /\ epoch \in Nat
    BY QueueIs, EmptySeq DEF Sound, TypeOK, GateTypeOK
  <1>2. notes[1].claim = Owner
    BY DEF Convert
  <1>3. Owner \in Claims /\ Real(Owner)
    BY <1>1, <1>2 DEF NoteTypes, Real
  <1>4. 1 \in 1..Len(notes) /\ Len(notes) \in 1..Len(notes)
    BY <1>1
  <1>5. notes[1].claim = Owner - (Len(notes) - 1) /\ LastIsOwner
    BY <1>4 DEF Apart, Lined, LastIsOwner
  <1>6. Len(notes) = 1
    <2>1. \A o \in Nat, k \in Nat : o = o - (k - 1) => k = 1
      OBVIOUS
    <2> QED
      BY <1>1, <1>2, <1>5, <2>1
  <1>7. Tail(notes) = << >>
    <2> DEFINE rest == Tail(notes)
    <2>1. rest \in Seq(NoteTypes) /\ Len(rest) = Len(notes) - 1
      BY <1>1, RestIs
    <2> HIDE DEF rest
    <2>2. Len(rest) = 0
      BY <1>6, <2>1
    <2>3. rest = << >>
      BY <2>1, <2>2, EmptySeq
    <2> QED
      BY <2>3 DEF rest
  <1> DEFINE t == Started(Owner)
  <1>8. /\ t \in Transfers /\ t.claim = Owner /\ t.targets = << >> /\ t.current = "TARGETS"
        /\ t.given = {} /\ t.reps = << >> /\ ~t.incremental
    BY <1>1, <1>3, StartedIs
  <1>9. transfer' = t /\ Convert(Owner, "TARGETS", << >>)
    BY <1>2, <1>7
  <1> HIDE DEF t
  <1>10. Filed(Owner, t.reps)
    BY <1>8 DEF Filed
  <1>11. asked[Owner] = << >> /\ feeding[Owner][1] = << >>
    BY <1>5 DEF Apart, Lined
  <1> QED
    BY <1>3, <1>8, <1>9, <1>10, <1>11, AskApart

LEMMA HandleApart ==
  ASSUME Sound, ~crossed, Apart, Handle, ~crossed'
  PROVE  Apart'
  <1> DEFINE n    == Head(notes)
             rest == Tail(notes)
  <1>1. notes # << >> /\ UNCHANGED <<offers, feeding>>
    BY DEF Handle
  <1>2. n = notes[1] /\ n \in NoteTypes /\ Len(notes) \in Nat \ {0}
    BY <1>1, QueueIs, RestIs
  <1>3. transfer # None => Converting /\ Trusted
    BY DEF Apart, Paired
  <1>4. \A k \in {1} : OwnersFrom(k) => n.op = "owner"
    BY <1>2 DEF OwnersFrom
  <1>5. CASE \E p \in {property, None} : Become(None, p, rest)
    BY <1>1, <1>5, StopApart
  <1>6. CASE n.op = "new" /\ ~Listens(transfer) /\ Become(transfer, property, rest)
    <2>1. CASE transfer = None
      <3>1. Become(None, property, Tail(notes))
        BY <1>6, <2>1
      <3> QED
        BY <1>1, <3>1, StopApart
    <2>2. CASE transfer # None
      <3>1. HasAnswer /\ Announced
        BY <1>2, <1>3, <1>4, <1>6, <2>2
           DEF Converting, AwaitsAnswer, HasAnswer, Refused, AwaitsChunk, HasChunk, Listens, Result
      <3>2. UNCHANGED <<transfer, property, asked, offers, feeding>> /\ notes' = Tail(notes)
        BY <1>1, <1>6 DEF Become
      <3>3. /\ OwnersFrom(2)' /\ Len(notes') >= 1 /\ notes'[1] = notes[2]
        <4>1. OwnersFrom(2 + 1)
          BY <3>1 DEF Announced
        <4> QED
          BY <1>1, <1>2, <1>6, <2>2, <3>1, <3>2, <4>1, TailLined DEF Announced, Apart
      <3>4. Result(TRUE)'
        BY <3>1, <3>3 DEF Announced, Result
      <3>5. HasAnswer'
        BY <3>1, <3>2, <3>4 DEF HasAnswer, Pending, Chunks, Written
      <3>6. Trusted'
        BY <1>3, <2>2, <3>2 DEF Trusted
      <3> QED
        BY <1>1, <1>2, <1>6, <2>2, <3>5, <3>6, GoOnApart DEF Converting
    <2> QED
      BY <2>1, <2>2
  <1>7. CASE /\ n.op = "owner" /\ offers[n.claim] # None /\ transfer' = Started(n.claim)
             /\ Convert(n.claim, "TARGETS", rest) /\ raw' = raw
    BY <1>1, <1>2, <1>7, BeginApart
  <1>8. CASE n.op = "answer" /\ ~n.ok /\ transfer # None /\ NextTarget(transfer, property, rest)
    <2>1. Refused
      BY <1>2, <1>3, <1>4, <1>8
         DEF Converting, AwaitsAnswer, HasAnswer, Refused, AwaitsChunk, HasChunk, Announced, Result
    <2>2. /\ Pending = << >> /\ Chunks = << >> /\ OwnersFrom(2)
          /\ NextTarget(transfer, None, Tail(notes))
      BY <1>8, <2>1 DEF Refused, Result
    <2>3. /\ transfer \in Transfers /\ Filed(transfer.claim, transfer.reps)
          /\ transfer.targets # << >> => Hint \notin Range(offers[transfer.claim])
      BY <1>3, <1>8, QueueIs DEF Trusted
    <2> QED
      BY <1>1, <1>2, <1>8, <2>2, <2>3, NextApart
  <1>9. CASE n.op = "answer" /\ n.ok /\ transfer # None /\ Read(transfer, FALSE, rest)
    <2>1. HasAnswer
      BY <1>2, <1>3, <1>4, <1>9
         DEF Converting, AwaitsAnswer, HasAnswer, Refused, AwaitsChunk, HasChunk, Result
    <2> QED
      BY <1>1, <1>2, <1>9, <2>1, ReadApart
  <1>10. CASE /\ n.op = "new" /\ transfer # None /\ transfer.incremental
              /\ Read(transfer, TRUE, rest)
    <2>1. HasChunk
      BY <1>2, <1>3, <1>4, <1>10
         DEF Converting, AwaitsAnswer, HasAnswer, Refused, AwaitsChunk, HasChunk
    <2> QED
      BY <1>1, <1>2, <1>10, <2>1, ReadApart
  <1> QED
    BY <1>5, <1>6, <1>7, <1>8, <1>9, <1>10, HandleIs
-----------------------------------------------------------------------------
(***************************************************************************)
(* The theorems.                                                           *)
(***************************************************************************)
LEMMA InvInit == Init => Inv
  <1> SUFFICES ASSUME Init PROVE Inv
    OBVIOUS
  <1>1. /\ MaxItem \in Nat /\ MaxClaims \in Nat
    BY TransferAssumption DEF TransferAssumption
  <1>2. Len(offers) = 0 /\ notes = << >> /\ Range(notes) = {} /\ Len(notes) = 0
    BY RangeEmpty DEF Init
  <1>3. << << >>, 0 >> \in Seq(Allowed) \X Nat
    <2>1. << >> \in Seq(Allowed)
      OBVIOUS
    <2> QED
      BY <2>1
  <1>4. TypeOK
    <2>1. /\ GateTypeOK /\ property \in Property \cup {None} /\ transfer \in Transfers \cup {None}
          /\ crossed \in BOOLEAN /\ raw = {}
      BY DEF Init, GateTypeOK
    <2>2. offers \in Seq(Offers \cup {None}) /\ asked \in [Claims -> Seq(Targets)]
      BY DEF Init, Targets
    <2>3. feeding \in [Claims -> Seq(Allowed) \X Nat]
      BY <1>3 DEF Init
    <2> QED
      BY <2>1, <2>2, <2>3 DEF TypeOK, Targets
  <1>5. WithinItem /\ Partners
    BY <1>1, <1>2 DEF Init, WithinItem, Partners, Owner, Claims
  <1>6. Lined /\ Paired /\ HintedNeverAsked
    <2>1. ~LastIsOwner /\ \A i \in 1..Len(notes) : FALSE
      BY <1>2 DEF LastIsOwner
    <2>2. Lined
      BY <2>1 DEF Lined, Init
    <2>3. HintedNeverAsked
      BY <1>2 DEF HintedNeverAsked, Owner
    <2> QED
      BY <2>2, <2>3 DEF Paired, Init
  <1> QED
    BY <1>4, <1>5, <1>6 DEF Inv, Sound, Apart

\* Owners that overlapped did.
LEMMA CrossedStays ==
  ASSUME Sound, Handle, crossed
  PROVE  crossed'
  <1>1. ASSUME NEW t, NEW p, Become(t, p, Tail(notes)) PROVE crossed'
    BY <1>1 DEF Become
  <1>2. ASSUME NEW t, NEW p, NextTarget(t, p, Tail(notes)) PROVE crossed'
    BY <1>2 DEF NextTarget, Convert
  <1>3. ASSUME NEW c, Convert(c, "TARGETS", Tail(notes)) PROVE crossed'
    BY <1>3 DEF Convert
  <1>4. ASSUME NEW chunk \in BOOLEAN, transfer # None, Read(transfer, chunk, Tail(notes))
        PROVE  crossed'
    BY <1>1, <1>2, <1>4, ReadIs
  <1> QED
    BY <1>1, <1>2, <1>3, <1>4, HandleIs

LEMMA InvStep == Inv /\ [Next]_vars => Inv'
  <1> SUFFICES ASSUME Inv, [Next]_vars PROVE Inv'
    OBVIOUS
  <1>1. Sound'
    BY SoundStep DEF Inv
  <1>2. SUFFICES ASSUME ~crossed' PROVE Apart'
    BY <1>1 DEF Inv
  <1>3. Sound
    BY DEF Inv
  <1>4. ASSUME UNCHANGED <<offers, asked, feeding, property, notes, raw, crossed>>,
               transfer' \in {transfer, None}
        PROVE  Apart'
    <2>1. ~crossed /\ Lined /\ Paired /\ HintedNeverAsked
      BY <1>2, <1>4 DEF Inv, Apart
    <2>2. Lined' /\ HintedNeverAsked'
      BY <1>4, <2>1 DEF Lined, HintedNeverAsked, Owner, LastIsOwner
    <2>3. CASE transfer' = transfer
      <3>1. (Converting' <=> Converting) /\ (Trusted' <=> Trusted)
        BY <1>4, <2>3 DEF Converting, AwaitsAnswer, HasAnswer, Refused, AwaitsChunk, HasChunk,
             Pending, Chunks, Written, Announced, Result, OwnersFrom, Trusted
      <3> QED
        BY <1>4, <2>1, <2>2, <2>3, <3>1 DEF Apart, Paired
    <2>4. CASE transfer' = None
      BY <1>4, <2>1, <2>2, <2>4 DEF Apart, Paired
    <2> QED
      BY <1>4, <2>3, <2>4
  <1>5. CASE UNCHANGED vars \/ Pause \/ GiveUp
    BY <1>4, <1>5 DEF vars, serverVars, Pause, GiveUp
  <1>6. ASSUME NEW offer \in Offers \cup {None}, Copy(offer) PROVE Apart'
    <2>1. crossed' = crossed
      BY <1>6 DEF Copy
    <2>2. ~crossed /\ Apart
      BY <1>2, <2>1 DEF Inv
    <2> QED
      BY <1>3, <1>6, <2>2, CopyApart
  <1>7. ASSUME NEW c \in Claims, Answer(c) PROVE Apart'
    <2>1. ~crossed /\ Apart
      BY <1>2, <1>7 DEF Answer, Inv
    <2> QED
      BY <1>2, <1>3, <1>7, <2>1, AnswerApart
  <1>8. ASSUME NEW c \in Claims, Feed(c) PROVE Apart'
    <2>1. ~crossed /\ Apart
      BY <1>2, <1>8 DEF Feed, Inv
    <2> QED
      BY <1>2, <1>3, <1>8, <2>1, FeedApart
  <1>9. CASE Handle
    <2>1. ~crossed
      BY <1>2, <1>3, <1>9, CrossedStays
    <2> QED
      BY <1>2, <1>3, <1>9, <2>1, HandleApart DEF Inv
  <1> QED
    BY <1>5, <1>6, <1>7, <1>8, <1>9 DEF Next

LEMMA Invariance == Spec => []Inv
  BY InvInit, InvStep, PTL DEF Spec

\* The server, the applications and the thread keep to their types.
THEOREM TypeCorrect == Spec => []TypeOK
  <1>1. Inv => TypeOK
    BY DEF Inv, Sound
  <1> QED
    BY <1>1, Invariance, PTL

\* What is held of an item never exceeds its limit, whatever is answered by whom
\* (x11.rs:417-436).
THEOREM HeldWithinLimit == Spec => []WithinItem
  <1>1. Inv => WithinItem
    BY DEF Inv, Sound
  <1> QED
    BY <1>1, Invariance, PTL

\* Unless owners overlapped, nothing but its list is asked of who offers the hint
\* (x11.rs:462-476, 499-515).
THEOREM HintKeepsItsOffer == Spec => []HintedNeverAsked
  <1>1. Inv => HintedNeverAsked
    BY DEF Inv, Apart, HintedNeverAsked
  <1> QED
    BY <1>1, Invariance, PTL

\* Unless owners overlapped, what is filed under a target is what the owner of the offer
\* gave for it (x11.rs:252-274, 480-515).
THEOREM AnswersStayPaired == Spec => []FiledAsGiven
  <1>1. Inv => FiledAsGiven
    BY DEF Inv, Apart, Paired, Filed, FiledAsGiven
  <1> QED
    BY <1>1, Invariance, PTL
=============================================================================
