------------------------- MODULE PreservationProofs -------------------------
(***************************************************************************)
(* Theorems about clipboard preservation, for any windows, events and      *)
(* bounds: what this program offers, to whom it answers, and what it never *)
(* fetches or brings back.                                                 *)
(***************************************************************************)
EXTENDS Preservation, DataLemmas

USE DEF vars, gateVars, serverVars, x11Vars, ghostVars, gtkVars, ServerOnly
-----------------------------------------------------------------------------
(***************************************************************************)
(* The invariant, in five parts besides the types.                         *)
(***************************************************************************)
\* What is on its way to publication was accepted.
Origin ==
  /\ owner = Self => content \in accepted
  /\ approved # None => approved.claim \in accepted
  /\ \A c \in Range(commands) : c.op = "approved" => c.job.claim \in accepted
  /\ \A e \in Range(events) : e.content \in accepted

\* Claims are numbered as they happen, and a note tells this program's own from others.
\* Who is told that its content was saved has it on the clipboard since.
Numbered ==
  /\ own \subseteq 1..claim /\ heard <= claim
  /\ known = Self <=> heard \in own
  /\ \A n \in Range(notes) :
       /\ n.claim <= claim
       /\ n.op = "owner" => (n.by = Self <=> n.claim \in own) /\ (n.gone => n.by = None)
  /\ transfer # None => transfer.claim <= claim /\ transfer.claim \notin own
  /\ \A job \in pending : job.claim <= claim /\ job.claim \notin own
  /\ \A r \in Range(waiting) : r.claim <= claim
  /\ \A e \in Range(events) : e.request # None => e.request.claim <= claim
  /\ \A c \in Range(commands) :
       c.op = "published" /\ c.request # None => \E o \in own : o > c.request.claim

\* Of the present generation there is one content, the last the X11 thread heard of
\* that is not this program's.  Only a publication of a destroyed selection is a
\* generation ahead, until the note of the destruction has been handled.
OfGeneration(job) ==
  job.generation <= generation /\ (job.generation = generation => job.claim = seen)

Current ==
  /\ ownership = generation
  /\ known \in Windows => heard = seen
  /\ xpc = "begin" => known # None
  /\ xpc = "announce" => notes # << >> /\ Head(notes).op = "owner" /\ Head(notes).gone
  /\ transfer # None => OfGeneration(transfer)
  /\ approved # None => OfGeneration(approved) /\ approved.generation = generation
  /\ \A job \in pending : OfGeneration(job)
  /\ \A c \in Range(commands) : c.op = "approved" => OfGeneration(c.job)
  /\ \A e \in Range(events) :
       /\ e.generation <= generation + 1
       /\ e.generation >= generation => e.content = seen
       /\ e.generation = generation + 1 => xpc = "announce"

\* A SAVE_TARGETS is in one place of one queue: still to be read, waiting, about to be
\* published, about to be confirmed, or answered.
Req(x) == IF "request" \in DOMAIN x THEN x.request
          ELSE IF x.op = "save" THEN x ELSE None

Single(q)  == \A i, j \in 1..Len(q) : i # j => Req(q[i]) = None \/ Req(q[i]) # Req(q[j])
Carried(q) == {Req(x) : x \in Range(q)} \ {None}

Once ==
  /\ Single(notes) /\ Single(waiting) /\ Single(events) /\ Single(commands)
  /\ Single(answers)
  /\ Carried(notes) \cap (Carried(waiting) \cup Carried(events)
                            \cup Carried(commands) \cup Carried(answers)) = {}
  /\ Carried(waiting) \cap (Carried(events) \cup Carried(commands)
                              \cup Carried(answers)) = {}
  /\ Carried(events) \cap (Carried(commands) \cup Carried(answers)) = {}
  /\ Carried(commands) \cap Carried(answers) = {}

\* The publication under way stays at the head of its queue.  Until it is claimed, its
\* content is the one that was seen when it was checked; from then on, what it saves is
\* on the clipboard.
Handling ==
  /\ gpc # "idle" => events # << >>
  /\ gpc = "claim" => Head(events).content = judged
  /\ gpc \in {"local", "published"} =>
       Head(events).request = None \/ \E o \in own : o > Head(events).request.claim

Inv == TypeOK /\ Origin /\ Numbered /\ Current /\ Once /\ Handling
-----------------------------------------------------------------------------
(***************************************************************************)
(* Queues of records that carry a request.                                 *)
(***************************************************************************)
LEMMA ReqOfNote ==
  ASSUME NEW n \in Notes
  PROVE  /\ n.op = "save" => n \in Requests /\ Req(n) = n /\ n # None
         /\ n.op # "save" => Req(n) = None
         /\ n.claim \in Nat
  <1>1. CASE n \in Requests
    BY <1>1, PreservationAssumption DEF Requests, Req
  <1>2. CASE n \in [op : {"offer"}, claim : Nat]
    BY <1>2 DEF Req
  <1>3. CASE n \in [op : {"owner"}, by : Windows \cup {Self, None}, gone : BOOLEAN,
                    claim : Nat]
    BY <1>3 DEF Req
  <1> QED
    BY <1>1, <1>2, <1>3 DEF Notes

LEMMA ReqOfRequest ==
  ASSUME NEW r \in Requests
  PROVE  Req(r) = r /\ r # None /\ r.claim \in Nat /\ r \in Notes /\ r.by \in Windows
  BY PreservationAssumption DEF Requests, Req, Notes

LEMMA ReqOfCommand ==
  ASSUME NEW c \in Commands
  PROVE  /\ c.op = "published" => /\ Req(c) = c.request /\ c.request \in Requests \cup {None}
                                  /\ c.content \in Nat
         /\ c.op # "published" => Req(c) = None
         /\ c.op = "approved" => c.job \in Transfers
  <1>1. CASE c \in [op : {"approved"}, job : Transfers]
    BY <1>1 DEF Req
  <1>2. CASE c \in [op : {"local"}]
    BY <1>2 DEF Req
  <1>3. CASE c \in [op : {"published"}, request : Requests \cup {None}, content : Nat]
    BY <1>3 DEF Req
  <1> QED
    BY <1>1, <1>2, <1>3 DEF Commands

LEMMA ReqOfEvent ==
  ASSUME NEW e \in Publications
  PROVE  Req(e) = e.request /\ e.request \in Requests \cup {None}
  BY DEF Req, Publications

LEMMA ReqOfAnswer ==
  ASSUME NEW a \in Answers
  PROVE  Req(a) = a.request /\ a.request \in Requests /\ a.request # None
  BY PreservationAssumption DEF Req, Answers

LEMMA OnceEmpty == Single(<< >>) /\ Carried(<< >>) = {}
  BY RangeEmpty DEF Single, Carried

LEMMA OnceAppend ==
  ASSUME NEW S, NEW q \in Seq(S), NEW e \in S, Single(q), Req(e) \notin Carried(q)
  PROVE  Single(Append(q, e)) /\ Carried(Append(q, e)) = Carried(q) \cup ({Req(e)} \ {None})
  <1>1. Carried(Append(q, e)) = Carried(q) \cup ({Req(e)} \ {None})
    BY RangeAppend DEF Carried
  <1>2. /\ Len(q) \in Nat /\ Len(Append(q, e)) = Len(q) + 1
        /\ \A i \in 1..Len(q) : Append(q, e)[i] = q[i]
        /\ Append(q, e)[Len(q) + 1] = e
    BY AppendProperties, LenProperties
  <1>3. \A i \in 1..(Len(q) + 1) : i \in 1..Len(q) \/ i = Len(q) + 1
    BY <1>2
  <1>4. \A i \in 1..Len(q) : Req(q[i]) = None \/ Req(q[i]) # Req(e)
    <2> TAKE i \in 1..Len(q)
    <2>1. q[i] \in Range(q)
      BY InRange
    <2> QED
      BY <2>1 DEF Carried
  <1>5. Single(Append(q, e))
    BY <1>2, <1>3, <1>4 DEF Single
  <1> QED
    BY <1>1, <1>5

LEMMA OnceTail ==
  ASSUME NEW S, NEW q \in Seq(S), q # << >>, Single(q)
  PROVE  /\ Single(Tail(q)) /\ Carried(Tail(q)) = Carried(q) \ {Req(Head(q))}
         /\ Req(Head(q)) = None \/ Req(Head(q)) \in Carried(q)
  <1>1. /\ Len(q) \in Nat \ {0} /\ Len(Tail(q)) = Len(q) - 1 /\ Head(q) = q[1]
        /\ \A i \in 1..Len(Tail(q)) : Tail(q)[i] = q[i + 1]
    BY HeadTailProperties, EmptySeq
  <1>2. \A i \in 1..Len(Tail(q)) : i + 1 \in 1..Len(q) /\ i + 1 # 1
    BY <1>1
  <1>3. Single(Tail(q))
    BY <1>1, <1>2 DEF Single
  <1>4. Range(q) = {Head(q)} \cup Range(Tail(q))
    BY RangeTail
  <1>5. \A x \in Range(Tail(q)) : Req(x) = None \/ Req(x) # Req(Head(q))
    <2> TAKE x \in Range(Tail(q))
    <2>1. \A t \in Seq(S) : x \in Range(t) => \E i \in 1..Len(t) : x = t[i]
      BY InRange
    <2>2. Tail(q) \in Seq(S)
      BY HeadTailProperties
    <2>3. PICK i \in 1..Len(Tail(q)) : x = Tail(q)[i]
      BY <2>1, <2>2
    <2>4. i + 1 \in 1..Len(q) /\ i + 1 # 1 /\ x = q[i + 1] /\ 1 \in 1..Len(q)
      BY <1>1, <1>2, <2>3
    <2> QED
      BY <1>1, <2>4 DEF Single
  <1> QED
    BY <1>3, <1>4, <1>5 DEF Carried

LEMMA OnceConcat ==
  ASSUME NEW S, NEW p \in Seq(S), NEW q \in Seq(S), Single(p), Single(q),
         Carried(p) \cap Carried(q) = {}
  PROVE  Single(p \o q) /\ Carried(p \o q) = Carried(p) \cup Carried(q)
  <1>1. Carried(p \o q) = Carried(p) \cup Carried(q)
    BY RangeConcat DEF Carried
  <1>2. /\ Len(p) \in Nat /\ Len(q) \in Nat /\ Len(p \o q) = Len(p) + Len(q)
        /\ \A i \in 1..(Len(p) + Len(q)) :
             (p \o q)[i] = IF i <= Len(p) THEN p[i] ELSE q[i - Len(p)]
    BY ConcatProperties, LenProperties
  <1>3. \A i \in 1..Len(p), j \in 1..Len(q) : Req(p[i]) = None \/ Req(p[i]) # Req(q[j])
    <2> TAKE i \in 1..Len(p), j \in 1..Len(q)
    <2>1. p[i] \in Range(p)
      BY InRange
    <2>2. q[j] \in Range(q)
      BY InRange
    <2> QED
      BY <2>1, <2>2 DEF Carried
  <1>4. ASSUME NEW i \in 1..(Len(p) + Len(q)), NEW j \in 1..(Len(p) + Len(q)), i # j
        PROVE  Req((p \o q)[i]) = None \/ Req((p \o q)[i]) # Req((p \o q)[j])
    <2>1. CASE i <= Len(p) /\ j <= Len(p)
      <3>1. i \in 1..Len(p) /\ j \in 1..Len(p)
        BY <1>2, <2>1
      <3> QED
        BY <1>2, <1>4, <2>1, <3>1 DEF Single
    <2>2. CASE i <= Len(p) /\ ~(j <= Len(p))
      <3>1. i \in 1..Len(p) /\ j - Len(p) \in 1..Len(q)
        BY <1>2, <2>2
      <3> QED
        BY <1>2, <1>3, <2>2, <3>1
    <2>3. CASE ~(i <= Len(p)) /\ j <= Len(p)
      <3>1. j \in 1..Len(p) /\ i - Len(p) \in 1..Len(q)
        BY <1>2, <2>3
      <3> QED
        BY <1>2, <1>3, <2>3, <3>1
    <2>4. CASE ~(i <= Len(p)) /\ ~(j <= Len(p))
      <3>1. i - Len(p) \in 1..Len(q) /\ j - Len(p) \in 1..Len(q) /\ i - Len(p) # j - Len(p)
        BY <1>2, <1>4, <2>4
      <3> QED
        BY <1>2, <2>4, <3>1 DEF Single
    <2> QED
      BY <2>1, <2>2, <2>3, <2>4
  <1>5. Single(p \o q)
    BY <1>2, <1>4 DEF Single
  <1> QED
    BY <1>1, <1>5

\* Elements that stand for those of another queue carry what those carry.
LEMMA OnceImage ==
  ASSUME NEW S, NEW T, NEW p \in Seq(S), NEW q \in Seq(T), Len(p) = Len(q),
         \A i \in 1..Len(q) : Req(p[i]) = Req(q[i]), Single(q)
  PROVE  Single(p) /\ Carried(p) = Carried(q)
  <1>1. Single(p)
    BY DEF Single
  <1>2. {Req(x) : x \in Range(p)} = {Req(x) : x \in Range(q)}
    <2>1. Range(p) = {p[i] : i \in 1..Len(p)} /\ Range(q) = {q[i] : i \in 1..Len(q)}
      BY RangeEquality
    <2> QED
      BY <2>1
  <1> QED
    BY <1>1, <1>2 DEF Carried

LEMMA NoRequests == << >> \in Seq(Requests) /\ Len(<< >>) <= 1
  OBVIOUS

\* A request that waits alone.
LEMMA OneRequest ==
  ASSUME NEW r \in Requests
  PROVE  /\ <<r>> \in Seq(Requests) /\ Len(<<r>>) = 1 /\ Range(<<r>>) = {r}
         /\ Single(<<r>>) /\ Carried(<<r>>) = {r}
  <1>1. <<r>> \in Seq(Requests) /\ Len(<<r>>) = 1 /\ <<r>>[1] = r
    OBVIOUS
  <1>2. Range(<<r>>) = {<<r>>[i] : i \in 1..Len(<<r>>)}
    BY <1>1, RangeEquality
  <1>3. Range(<<r>>) = {r}
    BY <1>1, <1>2
  <1> QED
    BY <1>1, <1>3, ReqOfRequest DEF Single, Carried
-----------------------------------------------------------------------------
(***************************************************************************)
(* What answering and serving do to the queues.                            *)
(***************************************************************************)
LEMMA AnswerEffect ==
  ASSUME answers \in Seq(Answers), NEW requests \in Seq(Requests), NEW ok \in BOOLEAN,
         NEW what \in Nat \cup {None}, Answer(requests, ok, what)
  PROVE  /\ answers' \in Seq(Answers)
         /\ \A i \in 1..Len(answers') : i > Len(answers) =>
              answers'[i].ok = ok /\ answers'[i].request \in Range(requests)
         /\ Single(answers) /\ Single(requests) /\ Carried(answers) \cap Carried(requests) = {}
              => Single(answers') /\ Carried(answers') = Carried(answers) \cup Carried(requests)
  <1> DEFINE new == [i \in 1..Len(requests) |->
                       [request |-> requests[i], ok |-> ok, content |-> what]]
  <1>1. /\ Len(requests) \in Nat
        /\ \A i \in 1..Len(requests) : requests[i] \in Requests /\ requests[i] \in Range(requests)
    BY LenProperties, ElementOfSeq, InRange
  <1>2. \A i \in 1..Len(requests) :
          [request |-> requests[i], ok |-> ok, content |-> what] \in Answers
    BY <1>1 DEF Answers
  <1>3. new \in Seq(Answers) /\ Len(new) = Len(requests)
    BY <1>1, <1>2
  <1>4. \A i \in 1..Len(requests) :
          new[i] \in Answers /\ new[i].request = requests[i] /\ new[i].ok = ok
    BY <1>2
  <1> HIDE DEF new
  <1>5. answers' = answers \o new
    BY DEF Answer, new
  <1>6. /\ answers' \in Seq(Answers) /\ Len(answers) \in Nat
        /\ Len(answers') = Len(answers) + Len(new)
        /\ \A i \in 1..(Len(answers) + Len(new)) :
             answers'[i] = IF i <= Len(answers) THEN answers[i] ELSE new[i - Len(answers)]
    BY ZenonT(120), <1>3, <1>5, ConcatProperties, LenProperties
  <1>7. ASSUME NEW i \in 1..Len(answers'), i > Len(answers)
        PROVE  answers'[i].ok = ok /\ answers'[i].request \in Range(requests)
    <2>1. i - Len(answers) \in 1..Len(requests) /\ answers'[i] = new[i - Len(answers)]
      BY <1>1, <1>3, <1>6, <1>7
    <2> QED
      BY <1>1, <1>4, <2>1
  <1>8. ASSUME Single(answers), Single(requests), Carried(answers) \cap Carried(requests) = {}
        PROVE  Single(answers') /\ Carried(answers') = Carried(answers) \cup Carried(requests)
    <2>1. \A i \in 1..Len(requests) : Req(new[i]) = Req(requests[i])
      BY <1>1, <1>4, ReqOfAnswer, ReqOfRequest
    <2>2. Single(new) /\ Carried(new) = Carried(requests)
      BY <1>3, <1>8, <2>1, OnceImage
    <2> QED
      BY <1>3, <1>5, <1>8, <2>2, OnceConcat
  <1> QED
    BY <1>6, <1>7, <1>8

\* Either nothing may be published and the requests wait on, or each gets its event.
LEMMA ServeEffect ==
  ASSUME events \in Seq(Publications), NEW job \in Transfers, NEW requests \in Seq(Requests),
         Serve(job, requests)
  PROVE  \/ events' = events /\ waiting' = requests
         \/ /\ waiting' = << >> /\ events' \in Seq(Publications)
            /\ \A e \in Range(events') :
                 e \in Range(events) \/ /\ e.content = job.claim
                                        /\ e.generation = job.generation
                                        /\ e.request \in Range(requests)
            /\ Single(events) /\ Single(requests) /\ Carried(events) \cap Carried(requests) = {}
                 => Single(events') /\ Carried(events') = Carried(events) \cup Carried(requests)
  <1> DEFINE new == [i \in 1..Len(requests) |-> Publish(job, job.generation, requests[i])]
  <1>1. CASE ~accepts(job.epoch)
    BY <1>1 DEF Serve
  <1>2. CASE accepts(job.epoch)
    <2>1. waiting' = << >> /\ events' = events \o new
      BY <1>2 DEF Serve
    <2>2. /\ Len(requests) \in Nat
          /\ \A i \in 1..Len(requests) :
               requests[i] \in Requests /\ requests[i] \in Range(requests)
      BY LenProperties, ElementOfSeq, InRange
    <2>3. \A i \in 1..Len(requests) : Publish(job, job.generation, requests[i]) \in Publications
      BY <2>2 DEF Publish, Publications, Transfers
    <2>4. new \in Seq(Publications) /\ Len(new) = Len(requests)
      BY <2>2, <2>3
    <2>5. \A i \in 1..Len(requests) :
            /\ new[i] \in Publications /\ new[i].request = requests[i]
            /\ new[i].content = job.claim /\ new[i].generation = job.generation
      BY <2>3 DEF Publish
    <2> HIDE DEF new
    <2>6. events' \in Seq(Publications) /\ Range(events') = Range(events) \cup Range(new)
      BY <2>1, <2>4, RangeConcat
    <2>7. \A e \in Range(new) : /\ e.content = job.claim /\ e.generation = job.generation
                                /\ e.request \in Range(requests)
      <3>1. \A e \in Range(new) : \E i \in 1..Len(new) : e = new[i]
        BY <2>4, InRange
      <3> QED
        BY <2>2, <2>4, <2>5, <3>1
    <2>8. ASSUME Single(events), Single(requests), Carried(events) \cap Carried(requests) = {}
          PROVE  Single(events') /\ Carried(events') = Carried(events) \cup Carried(requests)
      <3>1. \A i \in 1..Len(requests) : Req(new[i]) = Req(requests[i])
        BY <2>2, <2>5, ReqOfEvent, ReqOfRequest
      <3>2. Single(new) /\ Carried(new) = Carried(requests)
        BY <2>4, <2>8, <3>1, OnceImage
      <3> QED
        BY <2>1, <2>4, <2>8, <3>2, OnceConcat
    <2> QED
      BY <2>1, <2>6, <2>7, <2>8
  <1> QED
    BY <1>1, <1>2

\* The same for one request.
LEMMA AnswerOne ==
  ASSUME answers \in Seq(Answers), NEW r \in Requests, NEW ok \in BOOLEAN,
         NEW what \in Nat \cup {None}, Answer(<<r>>, ok, what), Single(answers),
         r \notin Carried(answers)
  PROVE  Single(answers') /\ Carried(answers') = Carried(answers) \cup {r}
  <1> DEFINE one == <<r>>
  <1>1. one \in Seq(Requests) /\ Single(one) /\ Carried(one) = {r}
    BY OneRequest
  <1> HIDE DEF one
  <1>2. Answer(one, ok, what)
    BY DEF one
  <1> QED
    BY <1>1, <1>2, AnswerEffect

LEMMA ServeOne ==
  ASSUME events \in Seq(Publications), NEW job \in Transfers, NEW r \in Requests,
         Serve(job, <<r>>), Single(events), r \notin Carried(events)
  PROVE  \/ events' = events /\ waiting' = <<r>>
         \/ /\ waiting' = << >> /\ Single(events')
            /\ Carried(events') = Carried(events) \cup {r}
  <1> DEFINE one == <<r>>
  <1>1. one \in Seq(Requests) /\ Single(one) /\ Carried(one) = {r}
    BY OneRequest
  <1> HIDE DEF one
  <1>2. Serve(job, one)
    BY DEF one
  <1>3. \/ events' = events /\ waiting' = one
        \/ /\ waiting' = << >> /\ Single(events')
           /\ Carried(events') = Carried(events) \cup {r}
    BY <1>1, <1>2, ServeEffect
  <1> QED
    BY <1>3 DEF one
-----------------------------------------------------------------------------
(***************************************************************************)
(* Types.                                                                  *)
(***************************************************************************)
LEMMA InitInv == Init => Inv
  <1> SUFFICES ASSUME Init PROVE Inv
    OBVIOUS
  <1>1. /\ notes = << >> /\ commands = << >> /\ events = << >> /\ answers = << >>
        /\ waiting = << >>
    BY DEF Init
  <1>2. TypeOK
    <2>1. GateTypeOK
      BY DEF Init, GateTypeOK
    <2>2. /\ notes \in Seq(Notes) /\ commands \in Seq(Commands)
          /\ events \in Seq(Publications) /\ answers \in Seq(Answers)
          /\ waiting \in Seq(Requests) /\ Len(waiting) <= 1
      BY <1>1, EmptySeq
    <2> QED
      BY <2>1, <2>2 DEF Init, TypeOK
  <1>3. Origin
    BY <1>1, RangeEmpty, PreservationAssumption DEF Init, Origin
  <1>4. Numbered
    BY <1>1, RangeEmpty, PreservationAssumption DEF Init, Numbered
  <1>5. Current
    BY <1>1, RangeEmpty, PreservationAssumption DEF Init, Current
  <1>6. Once
    BY <1>1, OnceEmpty DEF Once
  <1>7. Handling
    BY DEF Init, Handling
  <1> QED
    BY <1>2, <1>3, <1>4, <1>5, <1>6, <1>7 DEF Inv

LEMMA NoteType ==
  ASSUME notes \in Seq(Notes), NEW n \in Notes
  PROVE  Append(notes, n) \in Seq(Notes) /\ Range(Append(notes, n)) = Range(notes) \cup {n}
  BY RangeAppend

LEMMA TakeNote ==
  ASSUME notes \in Seq(Notes), notes # << >>
  PROVE  /\ Tail(notes) \in Seq(Notes) /\ Head(notes) \in Notes
         /\ Head(notes) \in Range(notes) /\ Range(Tail(notes)) \subseteq Range(notes)
  BY RangeTail

LEMMA TakeCommand ==
  ASSUME commands \in Seq(Commands), commands # << >>
  PROVE  /\ Tail(commands) \in Seq(Commands) /\ Head(commands) \in Commands
         /\ Head(commands) \in Range(commands)
         /\ Range(Tail(commands)) \subseteq Range(commands)
  BY RangeTail

LEMMA TakeEvent ==
  ASSUME events \in Seq(Publications), events # << >>
  PROVE  /\ Tail(events) \in Seq(Publications) /\ Head(events) \in Publications
         /\ Head(events) \in Range(events) /\ Range(Tail(events)) \subseteq Range(events)
  BY RangeTail

LEMMA EnvironmentType ==
  ASSUME TypeOK,
         \/ \E w \in Windows : Copy(w)
         \/ \E b \in BOOLEAN : Release(b) \/ Pause(b)
         \/ AskSave \/ Offer
         \/ \E job \in pending : Accept(job) \/ Reject(job)
  PROVE  TypeOK'
  <1> USE DEF TypeOK, GateTypeOK
  <1>1. ASSUME NEW w \in Windows, Copy(w) PROVE TypeOK'
    <2>1. OwnerNote(w, FALSE) \in Notes
      BY <1>1 DEF Copy, OwnerNote, Notes
    <2>2. notes' \in Seq(Notes)
      BY <1>1, <2>1, NoteType DEF Copy
    <2>3. claim' \in Nat /\ content' \in Nat /\ owner' = w
      BY <1>1 DEF Copy
    <2> QED
      BY <1>1, <2>2, <2>3 DEF Copy
  <1>2. ASSUME NEW b \in BOOLEAN, Release(b) PROVE TypeOK'
    <2>1. OwnerNote(None, b) \in Notes
      BY <1>2 DEF Release, OwnerNote, Notes
    <2> QED
      BY SMTT(30), <1>2, <2>1, NoteType DEF Release
  <1>3. ASSUME NEW b \in BOOLEAN, Pause(b) PROVE TypeOK'
    BY <1>3 DEF Pause, invalidate
  <1>4. CASE AskSave
    <2>1. [op |-> "save", by |-> owner, claim |-> claim] \in Notes
      BY <1>4 DEF AskSave, Notes, Requests
    <2> QED
      BY <1>4, <2>1, NoteType DEF AskSave
  <1>5. CASE Offer
    <2>1. [op |-> "offer", claim |-> claim] \in Notes
      BY <1>5 DEF Offer, Notes
    <2> QED
      BY SMTT(30), <1>5, <2>1, NoteType DEF Offer
  <1>6. ASSUME NEW job \in pending, Accept(job) PROVE TypeOK'
    <2>1. job \in Transfers /\ job.claim \in Nat /\ [op |-> "approved", job |-> job] \in Commands
      BY DEF Transfers, Commands
    <2>2. commands' \in Seq(Commands)
      <3>1. Append(commands, [op |-> "approved", job |-> job]) \in Seq(Commands)
        BY <2>1, RangeAppend
      <3> QED
        BY <1>6, <3>1 DEF Accept
    <2> QED
      BY ZenonT(120), <1>6, <2>1, <2>2 DEF Accept
  <1>7. ASSUME NEW job \in pending, Reject(job) PROVE TypeOK'
    BY <1>7 DEF Reject
  <1> QED
    BY <1>1, <1>2, <1>3, <1>4, <1>5, <1>6, <1>7

LEMMA X11Type ==
  ASSUME TypeOK, xpc = "begin" => known # None, X11Step \/ Timeout \/ ManagerLost
  PROVE  TypeOK'
  <1> USE DEF TypeOK, GateTypeOK
  <1>1. CASE Destroyed
    <2>1. approved \in Transfers
      BY <1>1 DEF Destroyed
    <2>2. Publish(approved, approved.generation + 1, None) \in Publications
      BY <2>1 DEF Publish, Publications, Transfers
    <2>3. events' \in Seq(Publications)
      BY <1>1, <2>2, RangeAppend DEF Destroyed
    <2> QED
      BY <1>1, <2>3 DEF Destroyed
  <1>2. CASE NewOwner
    <2>1. /\ Head(notes).by \in Windows \cup {Self, None} /\ Head(notes).claim \in Nat
          /\ notes' \in Seq(Notes)
      BY <1>2, TakeNote DEF NewOwner, Notes, Requests
    <2>2. /\ UNCHANGED <<gateVars, serverVars, local, is_manager, waiting, pending, commands,
                         events, answers, accepted, own, gtkVars>>
          /\ generation' = generation + 1 /\ ownership' = generation'
          /\ known' = Head(notes).by /\ transfer' = None /\ approved' = None
          /\ xpc' \in {"begin", "idle"} /\ heard' = Head(notes).claim
          /\ seen' \in {seen, Head(notes).claim}
      BY <1>2 DEF NewOwner
    <2>3. /\ claim \in Nat /\ ownership \in Nat /\ generation \in Nat /\ seen \in Nat
          /\ local \in Windows \cup {Self, None}
      OBVIOUS
    <2> HIDE DEF TypeOK, GateTypeOK
    <2>4. {claim', ownership', generation', heard', seen'} \subseteq Nat
      BY <2>1, <2>2, <2>3
    <2>5. known' \in Windows \cup {Self, None} /\ local' \in Windows \cup {Self, None}
      BY <2>1, <2>2, <2>3
    <2> QED
      BY SMTT(30), <2>1, <2>2, <2>4, <2>5 DEF TypeOK, GateTypeOK
  <1>3. CASE Begin
    <2>1. transfer' \in Transfers \cup {None}
      BY <1>3 DEF Begin, Transfers
    <2>2. {known', local'} \subseteq Windows \cup {Self, None} /\ xpc' = "idle"
      BY <1>3 DEF Begin
    <2>3. UNCHANGED <<gateVars, serverVars, notes, ownership, generation, is_manager, approved,
                      waiting, pending, commands, events, answers, ghostVars, gtkVars>>
      BY <1>3 DEF Begin
    <2> QED
      BY <2>1, <2>2, <2>3
  <1>4. CASE Complete
    BY <1>4, TakeNote DEF Complete, NextNote
  <1>5. CASE Sweep \/ Timeout
    <2>1. answers' \in Seq(Answers)
      BY <1>5, AnswerEffect DEF Sweep, Timeout
    <2>2. waiting' \in Seq(Requests) /\ Len(waiting') <= 1
      BY <1>5, NoRequests DEF Sweep, Timeout
    <2> QED
      BY ZenonT(60), <1>5, <2>1, <2>2 DEF Sweep, Timeout
  <1>6. CASE SaveTargets
    <2> DEFINE r == Head(notes)
    <2>1. r \in Requests /\ notes' \in Seq(Notes)
      BY <1>6, TakeNote, ReqOfNote DEF SaveTargets, NextNote
    <2>2. CASE is_manager /\ eligible /\ r.by = known /\ waiting = << >>
      <3>1. CASE approved # None
        <4>1. approved \in Transfers /\ Serve(approved, <<r>>) /\ answers' = answers
          BY <1>6, <2>2, <3>1 DEF SaveTargets
        <4>2. /\ events' \in Seq(Publications) /\ waiting' \in Seq(Requests)
              /\ Len(waiting') <= 1
          <5>1. <<r>> \in Seq(Requests) /\ Len(<<r>>) <= 1
            BY <2>1, OneRequest
          <5>2. \/ events' = events /\ waiting' = <<r>>
                \/ waiting' = << >> /\ events' \in Seq(Publications)
            BY <4>1, <5>1, ServeEffect
          <5> QED
            BY <5>1, <5>2, NoRequests
        <4> QED
          BY <1>6, <2>1, <4>1, <4>2 DEF SaveTargets
      <3>2. CASE approved = None
        <4>1. waiting' = Append(<< >>, r) /\ UNCHANGED <<events, answers>>
          BY <1>6, <2>2, <3>2 DEF SaveTargets
        <4>2. waiting' \in Seq(Requests) /\ Len(waiting') = 1
          BY <2>1, <4>1
        <4> QED
          BY <1>6, <2>1, <4>1, <4>2 DEF SaveTargets
      <3> QED
        BY <3>1, <3>2
    <2>3. CASE ~(is_manager /\ eligible /\ r.by = known /\ waiting = << >>)
      <3>1. UNCHANGED <<waiting, events>> /\ (answers' = answers \/ Answer(<<r>>, FALSE, None))
        BY <1>6, <2>3 DEF SaveTargets
      <3>2. answers' \in Seq(Answers)
        BY <2>1, <3>1, AnswerEffect, OneRequest
      <3> QED
        BY <1>6, <2>1, <3>1, <3>2 DEF SaveTargets
    <2> QED
      BY <2>2, <2>3
  <1>7. CASE Approved
    <2> DEFINE job == Head(commands).job
    <2>1. job \in Transfers /\ commands' \in Seq(Commands)
      BY <1>7, TakeCommand, ReqOfCommand DEF Approved, NextCommand
    <2>2. CASE approved' = job /\ Serve(job, waiting)
      <3>1. events' \in Seq(Publications) /\ waiting' \in Seq(Requests) /\ Len(waiting') <= 1
        BY <2>1, <2>2, ServeEffect, NoRequests
      <3> QED
        BY SMTT(30), <1>7, <2>1, <2>2, <3>1 DEF Approved
    <2>3. CASE UNCHANGED <<approved, waiting, events>>
      BY <1>7, <2>1, <2>3 DEF Approved
    <2> QED
      BY <1>7, <2>2, <2>3 DEF Approved
  <1>8. CASE LocalOwner
    BY SMTT(30), <1>8, TakeCommand DEF LocalOwner, NextCommand
  <1>9. CASE Published
    <2> DEFINE c == Head(commands)
    <2>1. commands' \in Seq(Commands) /\ c.request \in Requests \cup {None} /\ c.content \in Nat
      BY <1>9, TakeCommand, ReqOfCommand DEF Published, NextCommand
    <2>2. answers' = answers \/ (c.request \in Requests /\ Answer(<<c.request>>, TRUE, c.content))
      BY <1>9, <2>1 DEF Published
    <2>3. answers' \in Seq(Answers)
      BY <2>1, <2>2, AnswerEffect, OneRequest
    <2> QED
      BY <1>9, <2>1, <2>3 DEF Published
  <1>10. CASE ManagerLost
    BY ZenonT(60), <1>10 DEF ManagerLost
  <1> QED
    BY <1>1, <1>2, <1>3, <1>4, <1>5, <1>6, <1>7, <1>8, <1>9, <1>10 DEF X11Step

\* The commands a publication sends.
LocalMsg        == [op |-> "local"]
PublishedMsg(e) == [op |-> "published", request |-> e.request, content |-> e.content]

LEMMA CommandsType ==
  /\ LocalMsg \in Commands /\ LocalMsg.op = "local" /\ Req(LocalMsg) = None
  /\ \A e \in Publications :
       /\ PublishedMsg(e) \in Commands /\ PublishedMsg(e).op = "published"
       /\ PublishedMsg(e).request = e.request /\ Req(PublishedMsg(e)) = e.request
  <1>1. LocalMsg \in Commands /\ LocalMsg.op = "local"
    BY DEF LocalMsg, Commands
  <1>2. ASSUME NEW e \in Publications
        PROVE  /\ PublishedMsg(e) \in Commands /\ PublishedMsg(e).op = "published"
               /\ PublishedMsg(e).request = e.request
    BY DEF PublishedMsg, Commands, Publications
  <1> QED
    BY <1>1, <1>2, ReqOfCommand

LEMMA GtkType ==
  ASSUME TypeOK, Handling, GtkStep \/ GdkRefuses
  PROVE  TypeOK'
  <1> USE DEF TypeOK, GateTypeOK
  <1> DEFINE e == Head(events)
  <1>1. gpc # "idle" => /\ e \in Publications /\ Tail(events) \in Seq(Publications)
                        /\ e.content \in Nat
    BY TakeEvent DEF Handling, Publications
  <1>2. CASE Poll
    <2>1. events' \in Seq(Publications) /\ gpc' \in {"idle", "claim"} /\ judged' \in Nat
      BY <1>2, TakeEvent DEF Poll
    <2> QED
      BY <1>2, <2>1 DEF Poll
  <1>3. CASE Claim
    <2>1. claim' = claim + 1 /\ claim' \in Nat
      BY <1>3 DEF Claim
    <2>2. OwnerNote(Self, FALSE) \in Notes
      BY <2>1 DEF OwnerNote, Notes
    <2>3. notes' \in Seq(Notes)
      BY <1>3, <2>2, NoteType DEF Claim
    <2>4. /\ owner' = Self /\ content' \in Nat /\ own' \subseteq Nat
          /\ gpc' = "local" /\ judged' = 0
          /\ UNCHANGED <<gateVars, x11Vars, pending, commands, events, answers, accepted, heard,
                         seen>>
      BY <1>1, <1>3, <2>1 DEF Claim
    <2> QED
      BY <2>1, <2>3, <2>4
  <1>4. CASE GdkRefuses
    BY <1>1, <1>4 DEF GdkRefuses
  <1>5. CASE TellLocal
    <2>1. commands' \in Seq(Commands)
      <3>1. commands' = Append(commands, LocalMsg)
        BY <1>5 DEF TellLocal, LocalMsg
      <3> QED
        BY <3>1, CommandsType, RangeAppend
    <2> QED
      BY <1>5, <2>1 DEF TellLocal
  <1>6. CASE TellPublished
    <2>1. commands' \in Seq(Commands) /\ events' \in Seq(Publications)
      <3>1. /\ gpc = "published" /\ events' = Tail(events)
            /\ commands' = Append(commands, PublishedMsg(e))
        BY <1>6 DEF TellPublished, PublishedMsg
      <3> QED
        BY <1>1, <3>1, CommandsType, RangeAppend
    <2> QED
      BY <1>6, <2>1 DEF TellPublished
  <1> QED
    BY <1>2, <1>3, <1>4, <1>5, <1>6 DEF GtkStep

LEMMA StepType ==
  ASSUME TypeOK, Current, Handling, [Next]_vars
  PROVE  TypeOK'
  <1>1. CASE UNCHANGED vars \/ AtRest
    BY ZenonT(120), <1>1 DEF AtRest, TypeOK, GateTypeOK
  <1> QED
    BY <1>1, EnvironmentType, X11Type, GtkType DEF Next, Current
-----------------------------------------------------------------------------
(***************************************************************************)
(* Where a publication comes from.                                         *)
(***************************************************************************)
LEMMA OriginStep ==
  ASSUME TypeOK, Origin, Handling, [Next]_vars
  PROVE  Origin'
  <1>1. /\ notes \in Seq(Notes) /\ commands \in Seq(Commands) /\ events \in Seq(Publications)
        /\ waiting \in Seq(Requests) /\ {transfer, approved} \subseteq Transfers \cup {None}
        /\ pending \subseteq Transfers
    BY DEF TypeOK
  <1>2. ASSUME UNCHANGED <<accepted, commands, events>>,
               UNCHANGED <<owner, content>> \/ owner' # Self, approved' \in {approved, None}
        PROVE  Origin'
    BY <1>2 DEF Origin
  <1>3. ASSUME NEW w \in Windows, Copy(w) PROVE Origin'
    BY <1>2, <1>3, PreservationAssumption DEF Copy
  <1>4. ASSUME NEW b \in BOOLEAN, Release(b) \/ Pause(b) PROVE Origin'
    BY <1>2, <1>4, PreservationAssumption DEF Release, Pause
  <1>5. CASE \/ AskSave \/ Offer \/ NewOwner \/ Begin \/ Complete \/ Sweep \/ Timeout
             \/ ManagerLost \/ AtRest \/ UNCHANGED vars
    BY <1>2, <1>5
       DEF AskSave, Offer, NewOwner, Begin, Complete, NextNote, Sweep, Timeout, ManagerLost, AtRest
  <1>6. ASSUME NEW job \in pending, Accept(job) PROVE Origin'
    <2> DEFINE c == [op |-> "approved", job |-> job]
    <2>1. c \in Commands
      BY <1>1 DEF Commands
    <2>2. CASE accepts(job.epoch)
      <3>1. /\ commands' = Append(commands, c) /\ accepted' = accepted \cup {job.claim}
            /\ UNCHANGED <<owner, content, approved, events>>
        BY <1>6, <2>2 DEF Accept
      <3>2. Range(commands') = Range(commands) \cup {c}
        BY <1>1, <2>1, <3>1, RangeAppend
      <3> QED
        BY <3>1, <3>2 DEF Origin
    <2>3. CASE ~accepts(job.epoch)
      BY <1>2, <1>6, <2>3 DEF Accept
    <2> QED
      BY <2>2, <2>3
  <1>7. ASSUME NEW job \in pending, Reject(job) PROVE Origin'
    BY <1>2, <1>7 DEF Reject
  <1>8. CASE Destroyed
    <2> DEFINE e == Publish(approved, approved.generation + 1, None)
    <2>1. /\ approved \in Transfers /\ approved # None /\ approved' = None
          /\ UNCHANGED <<owner, content, commands, accepted>>
          /\ events' = events \/ events' = Append(events, e)
      BY <1>1, <1>8 DEF Destroyed
    <2>2. e \in Publications /\ e.content \in accepted
      BY <2>1 DEF Origin, Publish, Publications, Transfers
    <2>3. Range(events') \subseteq Range(events) \cup {e}
      BY ZenonT(120), <1>1, <2>1, <2>2, RangeAppend
    <2> QED
      BY <2>1, <2>2, <2>3 DEF Origin
  <1>9. CASE SaveTargets
    <2> DEFINE r == Head(notes)
    <2>1. r \in Requests /\ UNCHANGED <<owner, content, approved, commands, accepted>>
      BY <1>1, <1>9, TakeNote, ReqOfNote DEF SaveTargets, NextNote
    <2>2. events' = events \/ (approved # None /\ Serve(approved, <<r>>))
      BY <1>9 DEF SaveTargets
    <2>3. CASE approved # None /\ Serve(approved, <<r>>)
      <3>1. \A e \in Range(events') : e \in Range(events) \/ e.content = approved.claim
        BY <1>1, <2>1, <2>3, ServeEffect, OneRequest
      <3> QED
        BY <2>1, <2>3, <3>1 DEF Origin
    <2> QED
      BY <1>2, <2>1, <2>2, <2>3
  <1>10. CASE Approved
    <2> DEFINE job == Head(commands).job
    <2>1. /\ job \in Transfers /\ commands' = Tail(commands) /\ job.claim \in accepted
          /\ Range(commands') \subseteq Range(commands)
          /\ UNCHANGED <<owner, content, accepted>>
      BY <1>1, <1>10, TakeCommand, ReqOfCommand DEF Approved, NextCommand, Origin
    <2>2. CASE approved' = job /\ Serve(job, waiting)
      <3>1. \A e \in Range(events') : e \in Range(events) \/ e.content = job.claim
        BY <1>1, <2>1, <2>2, ServeEffect
      <3> QED
        BY <2>1, <2>2, <3>1 DEF Origin
    <2>3. CASE UNCHANGED <<approved, waiting, events>>
      BY <2>1, <2>3 DEF Origin
    <2> QED
      BY <1>10, <2>2, <2>3 DEF Approved
  <1>11. CASE LocalOwner \/ Published
    <2>1. Range(commands') \subseteq Range(commands)
      BY <1>1, <1>11, TakeCommand DEF LocalOwner, Published, NextCommand
    <2>2. UNCHANGED <<owner, content, accepted, events>> /\ approved' \in {approved, None}
      BY <1>11 DEF LocalOwner, Published
    <2> QED
      BY <2>1, <2>2 DEF Origin
  <1>12. CASE Poll \/ GdkRefuses
    <2>1. Range(events') \subseteq Range(events)
      BY <1>1, <1>12, TakeEvent DEF Poll, GdkRefuses, Handling
    <2> QED
      BY <1>12, <2>1 DEF Poll, GdkRefuses, Origin
  <1>13. CASE Claim
    <2>1. Head(events).content \in accepted
      BY <1>1, <1>13, TakeEvent DEF Claim, Handling, Origin
    <2> QED
      BY <1>13, <2>1 DEF Claim, Origin
  <1>14. CASE TellLocal \/ TellPublished
    <2> DEFINE e == Head(events)
    <2>1. gpc # "idle" /\ e \in Publications /\ Range(events') \subseteq Range(events)
      BY <1>1, <1>14, TakeEvent DEF TellLocal, TellPublished, Handling
    <2>2. commands' = Append(commands, LocalMsg) \/ commands' = Append(commands, PublishedMsg(e))
      BY <1>14 DEF TellLocal, TellPublished, LocalMsg, PublishedMsg
    <2>3. PICK c \in Commands : commands' = Append(commands, c) /\ c.op # "approved"
      BY <2>1, <2>2, CommandsType
    <2>4. Range(commands') = Range(commands) \cup {c}
      BY <1>1, <2>3, RangeAppend
    <2>5. UNCHANGED <<owner, content, approved, accepted>>
      BY <1>14 DEF TellLocal, TellPublished
    <2> QED
      BY <2>1, <2>3, <2>4, <2>5 DEF Origin
  <1> QED
    BY <1>3, <1>4, <1>5, <1>6, <1>7, <1>8, <1>9, <1>10, <1>11, <1>12, <1>13, <1>14
       DEF Next, X11Step, GtkStep
-----------------------------------------------------------------------------
(***************************************************************************)
(* Claims are numbered as they happen.                                     *)
(***************************************************************************)
\* What is in the queues has a claim that is a number.
LEMMA Numbers ==
  ASSUME TypeOK
  PROVE  /\ \A n \in Range(notes) : n.claim \in Nat
         /\ \A r \in Range(waiting) : r.claim \in Nat
         /\ \A e \in Range(events) : e.request # None => e.request.claim \in Nat
         /\ transfer # None => transfer.claim \in Nat
         /\ \A job \in pending : job.claim \in Nat
  <1>1. /\ Range(notes) \subseteq Notes /\ Range(waiting) \subseteq Requests
        /\ Range(events) \subseteq Publications
    BY RangeType DEF TypeOK
  <1>2. \A j \in Transfers : j.claim \in Nat
    BY DEF Transfers
  <1> QED
    BY <1>1, <1>2, ReqOfNote, ReqOfRequest, ReqOfEvent DEF TypeOK

\* The steps that claim nothing for this program and hear of no new owner.
LEMMA NumberedKept ==
  ASSUME TypeOK, Numbered, UNCHANGED <<own, known, heard>>, claim' \in Nat, claim' >= claim,
         \A n \in Range(notes') : n \in Range(notes) \/
           /\ n.claim <= claim'
           /\ n.op = "owner" => (n.by = Self <=> n.claim \in own) /\ (n.gone => n.by = None),
         transfer' \in {transfer, None}, pending' \subseteq pending \cup ({transfer} \ {None}),
         \A r \in Range(waiting') : r \in Range(waiting) \/ r.claim <= claim,
         \A e \in Range(events') :
           e \in Range(events) \/ (e.request # None => e.request.claim <= claim),
         \A c \in Range(commands') : c \in Range(commands) \/ c.op # "published",
         \A r \in Range(waiting') : r.claim \in Nat,
         \A e \in Range(events') : e.request # None => e.request.claim \in Nat
  PROVE  Numbered'
  <1>1. claim \in Nat /\ heard \in Nat
    BY DEF TypeOK
  <1>2. own' \subseteq 1..claim' /\ heard' <= claim' /\ (known' = Self <=> heard' \in own')
    BY <1>1 DEF Numbered
  <1>3. \A n \in Range(notes') :
          /\ n.claim <= claim'
          /\ n.op = "owner" => (n.by = Self <=> n.claim \in own') /\ (n.gone => n.by = None)
    <2> TAKE n \in Range(notes')
    <2>1. CASE n \in Range(notes)
      <3>1. n.claim \in Nat /\ n.claim <= claim
        BY <2>1, Numbers DEF Numbered
      <3> QED
        BY <1>1, <2>1, <3>1 DEF Numbered
    <2> QED
      BY <2>1
  <1>4. ASSUME NEW c \in Nat, c <= claim PROVE c <= claim'
    BY <1>1, <1>4
  <1>5. transfer' # None => transfer'.claim <= claim' /\ transfer'.claim \notin own'
    BY <1>4, Numbers DEF Numbered
  <1>6. \A job \in pending' : job.claim <= claim' /\ job.claim \notin own'
    BY <1>4, Numbers DEF Numbered
  <1>7. \A r \in Range(waiting') : r.claim <= claim'
    BY <1>4, Numbers DEF Numbered
  <1>8. \A e \in Range(events') : e.request # None => e.request.claim <= claim'
    BY <1>4, Numbers DEF Numbered
  <1>9. \A c \in Range(commands') :
          c.op = "published" /\ c.request # None => \E o \in own' : o > c.request.claim
    BY DEF Numbered
  <1> QED
    BY <1>2, <1>3, <1>5, <1>6, <1>7, <1>8, <1>9 DEF Numbered

LEMMA NumberedByOthers ==
  ASSUME TypeOK, Numbered, TypeOK',
         \/ \E w \in Windows : Copy(w)
         \/ \E b \in BOOLEAN : Release(b) \/ Pause(b)
         \/ AskSave \/ Offer
         \/ \E job \in pending : Accept(job) \/ Reject(job)
  PROVE  Numbered'
  <1>1. /\ claim \in Nat /\ notes \in Seq(Notes) /\ commands \in Seq(Commands)
        /\ pending \subseteq Transfers
    BY DEF TypeOK
  <1>2. /\ \A r \in Range(waiting) : r.claim \in Nat
        /\ \A e \in Range(events) : e.request # None => e.request.claim \in Nat
    BY Numbers
  <1>3. ASSUME NEW n \in Notes, notes' = Append(notes, n), claim' \in {claim, claim + 1},
               n.claim = claim', n.op = "owner" => n.by # Self /\ (n.gone => n.by = None),
               n.op = "owner" => claim' = claim + 1,
               UNCHANGED <<x11Vars, pending, events, commands, own, heard>>
        PROVE  Numbered'
    <2>1. Range(notes') = Range(notes) \cup {n}
      BY <1>1, <1>3, RangeAppend
    <2>2. claim' \in Nat /\ claim' >= claim /\ claim + 1 \notin own
      BY <1>1, <1>3 DEF Numbered
    <2>3. n.claim <= claim'
      BY <1>3, <2>2
    <2> QED
      BY <1>2, <1>3, <2>1, <2>2, <2>3, NumberedKept
  <1>4. ASSUME NEW w \in Windows, Copy(w) PROVE Numbered'
    <2> DEFINE n == OwnerNote(w, FALSE)
    <2>1. /\ n \in Notes /\ n.claim = claim' /\ n.op = "owner" /\ n.by = w /\ n.gone = FALSE
      BY <1>1, <1>4 DEF OwnerNote, Notes, Copy
    <2> QED
      BY <1>3, <1>4, <2>1, PreservationAssumption DEF Copy
  <1>5. ASSUME NEW b \in BOOLEAN, Release(b) PROVE Numbered'
    <2> DEFINE n == OwnerNote(None, b)
    <2>1. /\ n \in Notes /\ n.claim = claim' /\ n.op = "owner" /\ n.by = None
      BY <1>1, <1>5 DEF OwnerNote, Notes, Release
    <2> QED
      BY <1>3, <1>5, <2>1, PreservationAssumption DEF Release
  <1>6. CASE AskSave
    <2> DEFINE n == [op |-> "save", by |-> owner, claim |-> claim]
    <2>1. /\ n \in Notes /\ n.claim = claim /\ n.op # "owner"
      BY <1>1, <1>6 DEF Notes, Requests, AskSave
    <2> QED
      BY <1>3, <1>6, <2>1 DEF AskSave
  <1>7. CASE Offer
    <2> DEFINE n == [op |-> "offer", claim |-> claim]
    <2>1. /\ n \in Notes /\ n.claim = claim /\ n.op # "owner"
      BY <1>1, <1>7 DEF Notes, Offer
    <2> QED
      BY <1>3, <1>7, <2>1 DEF Offer
  <1>8. ASSUME NEW b \in BOOLEAN, Pause(b) PROVE Numbered'
    BY <1>1, <1>2, <1>8, NumberedKept DEF Pause
  <1>9. ASSUME NEW job \in pending, Accept(job) PROVE Numbered'
    <2> DEFINE c == [op |-> "approved", job |-> job]
    <2>1. c \in Commands
      BY <1>1 DEF Commands
    <2>2. Range(commands') \subseteq Range(commands) \cup {c}
      <3>1. commands' = commands \/ commands' = Append(commands, c)
        BY <1>9 DEF Accept
      <3>2. Range(Append(commands, c)) = Range(commands) \cup {c}
        BY <1>1, <2>1, RangeAppend
      <3> QED
        BY <3>1, <3>2
    <2>3. /\ UNCHANGED <<serverVars, notes, x11Vars, events, own, heard>>
          /\ pending' \subseteq pending
      BY <1>9 DEF Accept
    <2> QED
      BY <1>1, <1>2, <2>2, <2>3, NumberedKept
  <1>10. ASSUME NEW job \in pending, Reject(job) PROVE Numbered'
    BY <1>1, <1>2, <1>10, NumberedKept DEF Reject
  <1> QED
    BY <1>4, <1>5, <1>6, <1>7, <1>8, <1>9, <1>10

LEMMA NumberedByX11 ==
  ASSUME TypeOK, Numbered, TypeOK', xpc = "begin" => known # None,
         X11Step \/ Timeout \/ ManagerLost
  PROVE  Numbered'
  <1>1. /\ claim \in Nat /\ notes \in Seq(Notes) /\ commands \in Seq(Commands)
        /\ events \in Seq(Publications) /\ waiting \in Seq(Requests)
        /\ {transfer, approved} \subseteq Transfers \cup {None} /\ pending \subseteq Transfers
    BY DEF TypeOK
  <1>2. /\ \A r \in Range(waiting) : r.claim \in Nat /\ r.claim <= claim
        /\ \A e \in Range(events) : e.request # None => e.request.claim \in Nat
    BY Numbers DEF Numbered
  <1>3. ASSUME UNCHANGED <<own, known, heard, claim>>,
               Range(notes') \subseteq Range(notes), Range(commands') \subseteq Range(commands),
               transfer' \in {transfer, None},
               pending' \subseteq pending \cup ({transfer} \ {None}),
               \A r \in Range(waiting') : r.claim \in Nat /\ r.claim <= claim,
               \A e \in Range(events') : e \in Range(events) \/
                 (e.request # None => e.request.claim \in Nat /\ e.request.claim <= claim)
        PROVE  Numbered'
    BY <1>1, <1>2, <1>3, NumberedKept
  <1>4. CASE Destroyed
    <2> DEFINE e == Publish(approved, approved.generation + 1, None)
    <2>1. approved \in Transfers /\ (events' = events \/ events' = Append(events, e))
      BY <1>1, <1>4 DEF Destroyed
    <2>2. e \in Publications /\ e.request = None
      BY <2>1 DEF Publish, Publications, Transfers
    <2>3. Range(events') \subseteq Range(events) \cup {e}
      <3>1. Range(Append(events, e)) = Range(events) \cup {e}
        BY <1>1, <2>2, RangeAppend
      <3> QED
        BY <2>1, <3>1
    <2> QED
      BY <1>2, <1>3, <1>4, <2>2, <2>3 DEF Destroyed
  <1>5. CASE NewOwner
    <2> DEFINE n == Head(notes)
    <2>1. /\ n \in Range(notes) /\ n.op = "owner" /\ Range(notes') \subseteq Range(notes)
          /\ known' = n.by /\ heard' = n.claim /\ transfer' = None
          /\ UNCHANGED <<claim, own, waiting, pending, commands, events>>
      BY <1>1, <1>5, TakeNote DEF NewOwner
    <2> QED
      BY <2>1 DEF Numbered
  <1>6. CASE Begin
    <2>1. \/ transfer' = transfer
          \/ known # Self /\ transfer'.claim = heard
      BY <1>6 DEF Begin
    <2>2. UNCHANGED <<claim, own, known, heard, notes, waiting, pending, commands, events>>
      BY <1>6 DEF Begin
    <2>3. transfer' # None => transfer'.claim <= claim' /\ transfer'.claim \notin own'
      BY <2>1, <2>2 DEF Numbered
    <2> QED
      BY <2>2, <2>3 DEF Numbered
  <1>7. CASE Complete
    <2>1. Range(notes') \subseteq Range(notes)
      BY <1>1, <1>7, TakeNote DEF Complete, NextNote
    <2> QED
      BY <1>2, <1>3, <1>7, <2>1 DEF Complete
  <1>8. CASE Sweep \/ Timeout
    <2>1. Range(waiting') = {}
      BY <1>8, RangeEmpty DEF Sweep, Timeout
    <2> QED
      BY <1>3, <1>8, <2>1 DEF Sweep, Timeout
  <1>9. CASE SaveTargets
    <2> DEFINE r == Head(notes)
    <2>1. /\ r \in Requests /\ r \in Range(notes) /\ Range(notes') \subseteq Range(notes)
          /\ UNCHANGED <<claim, own, known, heard, transfer, pending, commands>>
      BY <1>1, <1>9, TakeNote, ReqOfNote DEF SaveTargets, NextNote
    <2>2. r.claim \in Nat /\ r.claim <= claim /\ <<r>> \in Seq(Requests) /\ Range(<<r>>) = {r}
      BY <2>1, ReqOfRequest, OneRequest DEF Numbered
    <2>3. \/ approved # None /\ Serve(approved, <<r>>)
          \/ events' = events /\ (waiting' = waiting \/ waiting' = <<r>>)
      <3>1. Append(<< >>, r) = <<r>>
        BY <2>1
      <3> QED
        BY <1>9, <3>1 DEF SaveTargets
    <2>4. CASE approved # None /\ Serve(approved, <<r>>)
      <3>1. \/ events' = events /\ waiting' = <<r>>
            \/ /\ waiting' = << >>
               /\ \A e \in Range(events') : e \in Range(events) \/ e.request \in Range(<<r>>)
        BY <1>1, <2>2, <2>4, ServeEffect
      <3>2. CASE events' = events /\ waiting' = <<r>>
        BY <1>3, <2>1, <2>2, <3>2
      <3>3. CASE /\ waiting' = << >>
                 /\ \A e \in Range(events') : e \in Range(events) \/ e.request \in Range(<<r>>)
        <4>1. \A e \in Range(events') : e \in Range(events) \/
                (e.request.claim \in Nat /\ e.request.claim <= claim)
          BY <2>2, <3>3
        <4>2. Range(waiting') = {}
          BY <3>3, RangeEmpty
        <4> QED
          BY <1>3, <2>1, <4>1, <4>2
      <3> QED
        BY <3>1, <3>2, <3>3
    <2>5. CASE events' = events /\ (waiting' = waiting \/ waiting' = <<r>>)
      BY <1>2, <1>3, <2>1, <2>2, <2>5
    <2> QED
      BY <2>3, <2>4, <2>5
  <1>10. CASE Approved
    <2> DEFINE job == Head(commands).job
    <2>1. /\ job \in Transfers /\ Range(commands') \subseteq Range(commands)
          /\ UNCHANGED <<claim, own, known, heard, notes, transfer, pending>>
      BY <1>1, <1>10, TakeCommand, ReqOfCommand DEF Approved, NextCommand
    <2>2. CASE Serve(job, waiting)
      <3>1. \/ events' = events /\ waiting' = waiting
            \/ /\ waiting' = << >>
               /\ \A e \in Range(events') : e \in Range(events) \/ e.request \in Range(waiting)
        BY <1>1, <2>1, <2>2, ServeEffect
      <3>2. CASE events' = events /\ waiting' = waiting
        BY <1>2, <1>3, <2>1, <3>2
      <3>3. CASE /\ waiting' = << >>
                 /\ \A e \in Range(events') : e \in Range(events) \/ e.request \in Range(waiting)
        <4>1. Range(waiting') = {}
          BY <3>3, RangeEmpty
        <4> QED
          BY <1>2, <1>3, <2>1, <3>3, <4>1
      <3> QED
        BY <3>1, <3>2, <3>3
    <2>3. CASE UNCHANGED <<waiting, events>>
      BY <1>2, <1>3, <2>1, <2>3
    <2> QED
      BY <1>10, <2>2, <2>3 DEF Approved
  <1>11. CASE LocalOwner \/ Published
    <2>1. Range(commands') \subseteq Range(commands)
      BY <1>1, <1>11, TakeCommand DEF LocalOwner, Published, NextCommand
    <2> QED
      BY <1>2, <1>3, <1>11, <2>1 DEF LocalOwner, Published
  <1>12. CASE ManagerLost
    BY <1>2, <1>3, <1>12 DEF ManagerLost
  <1> QED
    BY <1>4, <1>5, <1>6, <1>7, <1>8, <1>9, <1>10, <1>11, <1>12 DEF X11Step

LEMMA NumberedByGtk ==
  ASSUME TypeOK, Numbered, Handling, TypeOK', GtkStep \/ GdkRefuses
  PROVE  Numbered'
  <1> DEFINE e == Head(events)
  <1>1. /\ claim \in Nat /\ heard \in Nat /\ notes \in Seq(Notes) /\ commands \in Seq(Commands)
        /\ events \in Seq(Publications) /\ events # << >>
    BY DEF TypeOK, Handling, GtkStep, Poll, Claim, GdkRefuses, TellLocal, TellPublished
  <1>2. /\ e \in Publications /\ e \in Range(events)
        /\ events' \in {events, Tail(events)} /\ Range(events') \subseteq Range(events)
        /\ UNCHANGED <<heard, known, transfer, pending, waiting>>
    BY <1>1, TakeEvent DEF GtkStep, Poll, Claim, GdkRefuses, TellLocal, TellPublished
  <1>3. CASE Claim
    <2> DEFINE n == OwnerNote(Self, FALSE)
    <2>1. /\ claim' = claim + 1 /\ own' = own \cup {claim'} /\ notes' = Append(notes, n)
          /\ commands' = commands
      BY <1>3 DEF Claim
    <2>2. n \in Notes /\ n.op = "owner" /\ n.by = Self /\ n.gone = FALSE /\ n.claim = claim'
      BY <1>1, <2>1 DEF OwnerNote, Notes
    <2> HIDE DEF n
    <2>3. Range(notes') = Range(notes) \cup {n}
      BY <1>1, <2>1, <2>2, RangeAppend
    <2>4. \A c \in Nat : c <= claim => c <= claim' /\ c # claim' /\ claim' > c
      BY <1>1, <2>1
    <2>5. own' \subseteq 1..claim'
      <3>1. own \subseteq 1..claim
        BY DEF Numbered
      <3>2. 1..claim \subseteq 1..claim' /\ claim' \in 1..claim'
        BY <1>1, <2>1
      <3> QED
        BY <2>1, <3>1, <3>2
    <2>6. heard' <= claim' /\ (known' = Self <=> heard' \in own')
      BY <1>1, <1>2, <2>1, <2>4 DEF Numbered
    <2>7. \A m \in Range(notes') :
            /\ m.claim <= claim'
            /\ m.op = "owner" => (m.by = Self <=> m.claim \in own') /\ (m.gone => m.by = None)
      <3> TAKE m \in Range(notes')
      <3>1. CASE m = n
        BY <1>1, <2>1, <2>2, <3>1
      <3>2. CASE m \in Range(notes)
        <4>1. m.claim \in Nat /\ m.claim <= claim
          BY <3>2, Numbers DEF Numbered
        <4> QED
          BY <2>1, <2>4, <3>2, <4>1 DEF Numbered
      <3> QED
        BY <2>3, <3>1, <3>2
    <2>8. /\ transfer' # None => transfer'.claim <= claim' /\ transfer'.claim \notin own'
          /\ \A job \in pending' : job.claim <= claim' /\ job.claim \notin own'
          /\ \A r \in Range(waiting') : r.claim <= claim'
          /\ \A f \in Range(events') : f.request # None => f.request.claim <= claim'
      BY <1>2, <2>1, <2>4, Numbers DEF Numbered
    <2>9. \A c \in Range(commands') :
            c.op = "published" /\ c.request # None => \E o \in own' : o > c.request.claim
      BY <2>1 DEF Numbered
    <2> QED
      BY <2>5, <2>6, <2>7, <2>8, <2>9 DEF Numbered
  <1>4. CASE Poll \/ GdkRefuses
    <2>1. UNCHANGED <<own, claim, notes, commands>>
      BY <1>4 DEF Poll, GdkRefuses
    <2> QED
      BY <1>2, <2>1 DEF Numbered
  <1>5. CASE TellLocal \/ TellPublished
    <2>1. \/ commands' = Append(commands, LocalMsg)
          \/ gpc = "published" /\ commands' = Append(commands, PublishedMsg(e))
      BY <1>5 DEF TellLocal, TellPublished, LocalMsg, PublishedMsg
    <2>2. gpc = "published" => e.request = None \/ \E o \in own : o > e.request.claim
      BY DEF Handling
    <2>3. \A c \in Range(commands') : c \in Range(commands) \/
            (c.op = "published" /\ c.request # None => \E o \in own : o > c.request.claim)
      <3>1. CASE commands' = Append(commands, LocalMsg)
        <4>1. Range(commands') = Range(commands) \cup {LocalMsg}
          BY <1>1, <3>1, CommandsType, RangeAppend
        <4> QED
          BY <4>1, CommandsType
      <3>2. CASE gpc = "published" /\ commands' = Append(commands, PublishedMsg(e))
        <4> DEFINE c == PublishedMsg(e)
        <4>1. c \in Commands /\ c.request = e.request
          BY <1>2, CommandsType
        <4> HIDE DEF c
        <4>2. Range(commands') = Range(commands) \cup {c}
          BY <1>1, <3>2, <4>1, RangeAppend DEF c
        <4> QED
          BY <2>2, <3>2, <4>1, <4>2
      <3> QED
        BY <2>1, <3>1, <3>2
    <2>4. UNCHANGED <<own, claim, notes>>
      BY <1>5 DEF TellLocal, TellPublished
    <2> QED
      BY <1>2, <2>3, <2>4 DEF Numbered
  <1> QED
    BY <1>3, <1>4, <1>5 DEF GtkStep

LEMMA NumberedStep ==
  ASSUME TypeOK, Numbered, Current, Handling, TypeOK', [Next]_vars
  PROVE  Numbered'
  <1>1. CASE UNCHANGED vars \/ AtRest
    BY <1>1 DEF AtRest, Numbered
  <1> QED
    BY <1>1, NumberedByOthers, NumberedByX11, NumberedByGtk DEF Next, Current
-----------------------------------------------------------------------------
(***************************************************************************)
(* Generations.                                                            *)
(***************************************************************************)
\* The steps that announce no new generation.
LEMMA CurrentKept ==
  ASSUME TypeOK, Current, UNCHANGED <<ownership, generation, known, heard, seen, xpc>>,
         \/ xpc # "announce" \/ notes' = notes
         \/ \E n \in Notes : notes' = Append(notes, n),
         transfer' \in {transfer, None}, pending' \subseteq pending \cup ({transfer} \ {None}),
         \/ approved' \in {approved, None}
         \/ OfGeneration(approved') /\ approved'.generation = generation,
         \A c \in Range(commands') :
           c \in Range(commands) \/ (c.op = "approved" => c.job \in pending),
         \A e \in Range(events') :
           e \in Range(events) \/ (e.generation = generation /\ e.content = seen)
  PROVE  Current'
  <1>1. generation \in Nat /\ notes \in Seq(Notes)
    BY DEF TypeOK
  <1>2. /\ ownership' = generation' /\ (known' \in Windows => heard' = seen')
        /\ (xpc' = "begin" => known' # None)
    BY DEF Current
  <1>3. xpc' = "announce" => notes' # << >> /\ Head(notes').op = "owner" /\ Head(notes').gone
    <2> SUFFICES ASSUME xpc = "announce", NEW n \in Notes, notes' = Append(notes, n)
                 PROVE  notes' # << >> /\ Head(notes').op = "owner" /\ Head(notes').gone
      BY DEF Current
    <2>1. notes # << >> /\ Head(notes).op = "owner" /\ Head(notes).gone
      BY DEF Current
    <2>2. Len(notes) \in Nat \ {0} /\ Len(Append(notes, n)) = Len(notes) + 1
      BY <1>1, <2>1, LenProperties, EmptySeq, AppendProperties
    <2>3. Append(notes, n)[1] = notes[1] /\ Append(notes, n) # << >>
      BY <1>1, <2>2, AppendProperties, EmptySeq
    <2>4. Head(Append(notes, n)) = Append(notes, n)[1] /\ Head(notes) = notes[1]
      BY <1>1, <2>1, <2>3, AppendProperties, HeadTailProperties
    <2> QED
      BY <2>1, <2>3, <2>4
  <1>4. (transfer # None => OfGeneration(transfer))'
    BY DEF Current, OfGeneration
  <1>5. (approved # None => OfGeneration(approved) /\ approved.generation = generation)'
    BY DEF Current, OfGeneration
  <1>6. (\A job \in pending : OfGeneration(job))'
    BY DEF Current, OfGeneration
  <1>7. (\A c \in Range(commands) : c.op = "approved" => OfGeneration(c.job))'
    BY DEF Current, OfGeneration
  <1>8. \A e \in Range(events') :
          /\ e.generation <= generation' + 1
          /\ e.generation >= generation' => e.content = seen'
          /\ e.generation = generation' + 1 => xpc' = "announce"
    BY <1>1 DEF Current
  <1> QED
    BY <1>2, <1>3, <1>4, <1>5, <1>6, <1>7, <1>8 DEF Current

LEMMA CurrentByOthers ==
  ASSUME TypeOK, Current, Handling,
         \/ \E w \in Windows : Copy(w)
         \/ \E b \in BOOLEAN : Release(b) \/ Pause(b)
         \/ AskSave \/ Offer
         \/ \E job \in pending : Accept(job) \/ Reject(job)
         \/ GtkStep \/ GdkRefuses
  PROVE  Current'
  <1>1. /\ claim \in Nat /\ notes \in Seq(Notes) /\ commands \in Seq(Commands)
        /\ events \in Seq(Publications) /\ pending \subseteq Transfers
    BY DEF TypeOK
  <1>2. ASSUME NEW w \in Windows, Copy(w) PROVE Current'
    <2>1. OwnerNote(w, FALSE) \in Notes
      BY <1>1, <1>2 DEF OwnerNote, Notes, Copy
    <2> QED
      BY <1>2, <2>1, CurrentKept DEF Copy
  <1>3. ASSUME NEW b \in BOOLEAN, Release(b) PROVE Current'
    <2>1. OwnerNote(None, b) \in Notes
      BY <1>1, <1>3 DEF OwnerNote, Notes, Release
    <2> QED
      BY <1>3, <2>1, CurrentKept DEF Release
  <1>4. CASE AskSave
    <2>1. [op |-> "save", by |-> owner, claim |-> claim] \in Notes
      BY <1>1, <1>4 DEF Notes, Requests, AskSave
    <2> QED
      BY <1>4, <2>1, CurrentKept DEF AskSave
  <1>5. CASE Offer
    <2>1. [op |-> "offer", claim |-> claim] \in Notes
      BY <1>1, <1>5 DEF Notes, Offer
    <2> QED
      BY <1>5, <2>1, CurrentKept DEF Offer
  <1>6. ASSUME NEW b \in BOOLEAN, Pause(b) PROVE Current'
    BY <1>6, CurrentKept DEF Pause
  <1>7. ASSUME NEW job \in pending, Accept(job) PROVE Current'
    <2> DEFINE c == [op |-> "approved", job |-> job]
    <2>1. c \in Commands
      BY <1>1 DEF Commands
    <2>2. \A x \in Range(commands') : x \in Range(commands) \/ x = c
      <3>1. commands' = commands \/ commands' = Append(commands, c)
        BY <1>7 DEF Accept
      <3>2. Range(Append(commands, c)) = Range(commands) \cup {c}
        BY <1>1, <2>1, RangeAppend
      <3> QED
        BY <3>1, <3>2
    <2>3. UNCHANGED <<notes, x11Vars, events, heard, seen>> /\ pending' \subseteq pending
      BY <1>7 DEF Accept
    <2> QED
      BY <2>2, <2>3, CurrentKept
  <1>8. ASSUME NEW job \in pending, Reject(job) PROVE Current'
    BY <1>8, CurrentKept DEF Reject
  <1>9. CASE Poll \/ GdkRefuses
    <2>1. Range(events') \subseteq Range(events)
      BY <1>1, <1>9, TakeEvent DEF Poll, GdkRefuses, Handling
    <2> QED
      BY <1>9, <2>1, CurrentKept DEF Poll, GdkRefuses
  <1>10. CASE Claim
    <2>1. OwnerNote(Self, FALSE) \in Notes
      BY <1>1, <1>10 DEF OwnerNote, Notes, Claim
    <2> QED
      BY <1>10, <2>1, CurrentKept DEF Claim
  <1>11. CASE TellLocal \/ TellPublished
    <2> DEFINE e == Head(events)
    <2>1. e \in Publications /\ Range(events') \subseteq Range(events)
      BY <1>1, <1>11, TakeEvent DEF TellLocal, TellPublished, Handling
    <2>2. PICK c \in Commands : commands' = Append(commands, c) /\ c.op # "approved"
      <3>1. commands' = Append(commands, LocalMsg) \/ commands' = Append(commands, PublishedMsg(e))
        BY <1>11 DEF TellLocal, TellPublished, LocalMsg, PublishedMsg
      <3> QED
        BY <2>1, <3>1, CommandsType
    <2>3. Range(commands') = Range(commands) \cup {c}
      BY <1>1, <2>2, RangeAppend
    <2>4. UNCHANGED <<notes, x11Vars, pending, heard, seen>>
      BY <1>11 DEF TellLocal, TellPublished
    <2> QED
      BY <2>1, <2>2, <2>3, <2>4, CurrentKept
  <1> QED
    BY <1>2, <1>3, <1>4, <1>5, <1>6, <1>7, <1>8, <1>9, <1>10, <1>11 DEF GtkStep

LEMMA CurrentByX11 ==
  ASSUME TypeOK, Numbered, Current, X11Step \/ Timeout \/ ManagerLost
  PROVE  Current'
  <1>1. /\ generation \in Nat /\ notes \in Seq(Notes) /\ commands \in Seq(Commands)
        /\ events \in Seq(Publications) /\ waiting \in Seq(Requests)
        /\ {transfer, approved} \subseteq Transfers \cup {None} /\ pending \subseteq Transfers
        /\ known \in Windows \cup {Self, None}
    BY DEF TypeOK
  <1>2. /\ \A e \in Range(events) : e.generation \in Nat
        /\ \A j \in Transfers : j.generation \in Nat
        /\ \A c \in Range(commands) : c.op = "approved" => c.job \in Transfers
    <2>1. Range(events) \subseteq Publications /\ Range(commands) \subseteq Commands
      BY <1>1, RangeType
    <2> QED
      BY <2>1, ReqOfCommand DEF Publications, Transfers
  <1>3. CASE Destroyed
    <2> DEFINE e == Publish(approved, approved.generation + 1, None)
    <2>1. /\ approved \in Transfers /\ approved # None
          /\ (events' = events \/ events' = Append(events, e))
          /\ notes # << >> /\ Head(notes).op = "owner" /\ Head(notes).gone
          /\ approved' = None /\ xpc' = "announce"
          /\ UNCHANGED <<notes, ownership, generation, known, transfer, pending, commands,
                         heard, seen>>
      BY <1>1, <1>3 DEF Destroyed
    <2>2. e \in Publications /\ e.generation = generation + 1 /\ e.content = seen
      BY <2>1 DEF Publish, Publications, Transfers, Current, OfGeneration
    <2> HIDE DEF e
    <2>3. \A x \in Range(events') : x \in Range(events) \/ x = e
      <3>1. Range(Append(events, e)) = Range(events) \cup {e}
        BY <1>1, <2>2, RangeAppend
      <3> QED
        BY <2>1, <3>1
    <2>4. \A x \in Range(events') : /\ x.generation <= generation + 1
                                    /\ x.generation >= generation => x.content = seen
      BY <1>1, <1>2, <2>2, <2>3 DEF Current
    <2> QED
      BY <2>1, <2>4 DEF Current, OfGeneration
  <1>4. CASE NewOwner
    <2> DEFINE n == Head(notes)
    <2>1. /\ n \in Range(notes) /\ n.op = "owner" /\ (n.gone => n.by = None)
          /\ generation' = generation + 1 /\ ownership' = generation'
          /\ known' = n.by /\ transfer' = None /\ approved' = None /\ heard' = n.claim
          /\ seen' = (IF n.by = Self \/ n.gone THEN seen ELSE n.claim)
          /\ xpc' \in {"begin", "idle"} /\ (xpc' = "begin" => n.by # None)
          /\ UNCHANGED <<pending, commands, events>>
      BY <1>1, <1>4, TakeNote DEF NewOwner, Numbered
    <2>2. known' \in Windows => heard' = seen'
      BY <2>1, PreservationAssumption
    <2>3. \A j \in Transfers : j.generation <= generation => OfGeneration(j)'
      BY <1>1, <1>2, <2>1 DEF OfGeneration
    <2>4. /\ \A job \in pending' : OfGeneration(job)'
          /\ \A c \in Range(commands') : c.op = "approved" => OfGeneration(c.job)'
      BY <1>1, <1>2, <2>1, <2>3 DEF Current, OfGeneration
    <2>5. \A e \in Range(events) :
            /\ e.generation <= generation + 1
            /\ e.generation = generation + 1 => n.gone /\ e.content = seen
      BY <1>1, <1>2 DEF Current
    <2>6. \A e \in Range(events') :
            /\ e.generation <= generation' + 1
            /\ e.generation >= generation' => e.content = seen'
            /\ e.generation = generation' + 1 => xpc' = "announce"
      BY <1>1, <1>2, <2>1, <2>5
    <2> QED
      BY <2>1, <2>2, <2>4, <2>6 DEF Current, OfGeneration
  <1>5. CASE Begin
    <2>1. /\ xpc = "begin" /\ xpc' = "idle"
          /\ \/ transfer' = transfer
             \/ /\ known # Self
                /\ transfer' = [owner |-> known, generation |-> generation, epoch |-> epoch,
                                claim |-> heard]
          /\ UNCHANGED <<notes, ownership, generation, known, approved, pending, commands,
                         events, heard, seen>>
      BY <1>5 DEF Begin
    <2>2. known # Self => heard = seen
      BY <1>1, <2>1 DEF Current
    <2>3. transfer' # None => OfGeneration(transfer')
      BY <1>1, <2>1, <2>2 DEF Current, OfGeneration
    <2>4. \A e \in Range(events) : e.generation # generation + 1
      BY <2>1 DEF Current
    <2> QED
      BY <2>1, <2>3, <2>4 DEF Current, OfGeneration
  <1>6. CASE Complete
    BY <1>6, CurrentKept DEF Complete, NextNote
  <1>7. CASE Sweep \/ Timeout \/ ManagerLost
    BY <1>7, CurrentKept DEF Sweep, Timeout, ManagerLost
  <1>8. CASE SaveTargets
    <2> DEFINE r == Head(notes)
    <2>1. /\ r \in Requests /\ xpc = "idle"
          /\ UNCHANGED <<ownership, generation, known, heard, seen, xpc, transfer, approved,
                         pending, commands>>
      BY <1>1, <1>8, TakeNote, ReqOfNote DEF SaveTargets, NextNote
    <2>2. events' = events \/ (approved # None /\ Serve(approved, <<r>>))
      BY <1>8 DEF SaveTargets
    <2>3. CASE approved # None /\ Serve(approved, <<r>>)
      <3>1. \A e \in Range(events') : e \in Range(events) \/
              (e.generation = approved.generation /\ e.content = approved.claim)
        BY <1>1, <2>1, <2>3, ServeEffect, OneRequest
      <3>2. approved.generation = generation /\ approved.claim = seen
        BY <2>3 DEF Current, OfGeneration
      <3> QED
        BY <2>1, <3>1, <3>2, CurrentKept
    <2> QED
      BY <2>1, <2>2, <2>3, CurrentKept
  <1>9. CASE Approved
    <2> DEFINE job == Head(commands).job
    <2>1. /\ job \in Transfers /\ OfGeneration(job) /\ Range(commands') \subseteq Range(commands)
          /\ xpc = "idle"
          /\ UNCHANGED <<notes, ownership, generation, known, heard, seen, xpc, transfer,
                         pending>>
      BY <1>1, <1>9, TakeCommand, ReqOfCommand DEF Approved, NextCommand, Current
    <2>2. CASE generation = job.generation /\ approved' = job /\ Serve(job, waiting)
      <3>1. \A e \in Range(events') : e \in Range(events) \/
              (e.generation = job.generation /\ e.content = job.claim)
        BY <1>1, <2>1, <2>2, ServeEffect
      <3>2. job.claim = seen
        BY <2>1, <2>2 DEF OfGeneration
      <3> QED
        BY <2>1, <2>2, <3>1, <3>2, CurrentKept
    <2>3. CASE UNCHANGED <<approved, waiting, events>>
      BY <2>1, <2>3, CurrentKept
    <2> QED
      BY <1>9, <2>2, <2>3 DEF Approved
  <1>10. CASE LocalOwner \/ Published
    <2>1. Range(commands') \subseteq Range(commands)
      BY <1>1, <1>10, TakeCommand DEF LocalOwner, Published, NextCommand
    <2> QED
      BY <1>10, <2>1, CurrentKept DEF LocalOwner, Published
  <1> QED
    BY <1>3, <1>4, <1>5, <1>6, <1>7, <1>8, <1>9, <1>10 DEF X11Step

LEMMA CurrentStep ==
  ASSUME TypeOK, Numbered, Current, Handling, [Next]_vars
  PROVE  Current'
  <1>1. CASE UNCHANGED vars \/ AtRest
    BY <1>1 DEF AtRest, Current, OfGeneration
  <1> QED
    BY <1>1, CurrentByOthers, CurrentByX11 DEF Next
-----------------------------------------------------------------------------
(***************************************************************************)
(* Where a request is.                                                     *)
(***************************************************************************)
\* A queue grows by something that carries no request, or loses its head.
LEMMA OncePlain ==
  ASSUME NEW S, NEW q \in Seq(S), NEW e \in S, Single(q), Req(e) = None
  PROVE  Single(Append(q, e)) /\ Carried(Append(q, e)) = Carried(q)
  <1>1. Req(e) \notin Carried(q)
    BY DEF Carried
  <1>2. Single(Append(q, e)) /\ Carried(Append(q, e)) = Carried(q) \cup ({Req(e)} \ {None})
    BY <1>1, OnceAppend
  <1>3. {Req(e)} \ {None} = {}
    OBVIOUS
  <1> QED
    BY <1>2, <1>3

LEMMA OnceHead ==
  ASSUME NEW S, NEW q \in Seq(S), q # << >>, Single(q), Req(Head(q)) = None
  PROVE  Single(Tail(q)) /\ Carried(Tail(q)) = Carried(q)
  <1>1. Req(Head(q)) \notin Carried(q)
    BY DEF Carried
  <1> QED
    BY <1>1, OnceTail

\* The request of a queued element is carried.
LEMMA CarriedAt ==
  ASSUME NEW S, NEW q \in Seq(S), NEW r, r # None, r \in Carried(q)
  PROVE  \E i \in 1..Len(q) : Req(q[i]) = r
  <1>1. PICK x \in Range(q) : Req(x) = r
    BY DEF Carried
  <1> QED
    BY <1>1, InRange

LEMMA OnceByOthers ==
  ASSUME TypeOK, Once,
         \/ \E w \in Windows : Copy(w)
         \/ \E b \in BOOLEAN : Release(b) \/ Pause(b)
         \/ AskSave \/ Offer
         \/ \E job \in pending : Accept(job) \/ Reject(job)
  PROVE  Once'
  <1>1. /\ claim \in Nat /\ notes \in Seq(Notes) /\ commands \in Seq(Commands)
        /\ events \in Seq(Publications) /\ answers \in Seq(Answers)
        /\ waiting \in Seq(Requests) /\ pending \subseteq Transfers
    BY DEF TypeOK
  <1>2. ASSUME NEW n \in Notes, n.op # "save", notes' = Append(notes, n),
               UNCHANGED <<waiting, events, commands, answers>>
        PROVE  Once'
    <2>1. Single(notes') /\ Carried(notes') = Carried(notes)
      BY <1>1, <1>2, ReqOfNote, OncePlain DEF Once
    <2> QED
      BY <1>2, <2>1 DEF Once
  <1>3. ASSUME NEW w \in Windows, Copy(w) PROVE Once'
    <2>1. OwnerNote(w, FALSE) \in Notes /\ OwnerNote(w, FALSE).op # "save"
      BY <1>1, <1>3 DEF OwnerNote, Notes, Copy
    <2> QED
      BY <1>2, <1>3, <2>1 DEF Copy
  <1>4. ASSUME NEW b \in BOOLEAN, Release(b) PROVE Once'
    <2>1. OwnerNote(None, b) \in Notes /\ OwnerNote(None, b).op # "save"
      BY <1>1, <1>4 DEF OwnerNote, Notes, Release
    <2> QED
      BY <1>2, <1>4, <2>1 DEF Release
  <1>5. CASE Offer
    <2> DEFINE n == [op |-> "offer", claim |-> claim]
    <2>1. n \in Notes /\ n.op # "save"
      BY <1>1, <1>5 DEF Notes, Offer
    <2> QED
      BY <1>2, <1>5, <2>1 DEF Offer
  <1>6. CASE AskSave
    <2> DEFINE r == [op |-> "save", by |-> owner, claim |-> claim]
    <2>1. r \in Requests /\ r.op = "save"
      BY <1>1, <1>6 DEF Requests, AskSave
    <2>2. /\ \A i \in 1..Len(notes) : notes[i] # r
          /\ \A i \in 1..Len(waiting) : waiting[i] # r
          /\ \A i \in 1..Len(events) : events[i].request # r
          /\ \A i \in 1..Len(commands) : commands[i].op = "published" => commands[i].request # r
          /\ \A i \in 1..Len(answers) : answers[i].request # r
          /\ notes' = Append(notes, r)
          /\ UNCHANGED <<waiting, events, commands, answers>>
      BY <1>6 DEF AskSave
    <2> HIDE DEF r
    <2>3. r # None /\ Req(r) = r /\ r \in Notes
      BY <2>1, ReqOfRequest
    <2>4. r \notin Carried(notes)
      <3>1. \A i \in 1..Len(notes) : Req(notes[i]) # r
        BY <1>1, <2>2, <2>3, ReqOfNote, ElementOfSeq
      <3> QED
        BY <1>1, <2>3, <3>1, CarriedAt
    <2>5. r \notin Carried(waiting)
      <3>1. \A i \in 1..Len(waiting) : Req(waiting[i]) # r
        BY <1>1, <2>2, ReqOfRequest, ElementOfSeq
      <3> QED
        BY <1>1, <2>3, <3>1, CarriedAt
    <2>6. r \notin Carried(events)
      <3>1. \A i \in 1..Len(events) : Req(events[i]) # r
        BY <1>1, <2>2, ReqOfEvent, ElementOfSeq
      <3> QED
        BY <1>1, <2>3, <3>1, CarriedAt
    <2>7. r \notin Carried(commands)
      <3>1. \A i \in 1..Len(commands) : Req(commands[i]) # r
        BY <1>1, <2>2, <2>3, ReqOfCommand, ElementOfSeq
      <3> QED
        BY <1>1, <2>3, <3>1, CarriedAt
    <2>8. r \notin Carried(answers)
      <3>1. \A i \in 1..Len(answers) : Req(answers[i]) # r
        BY <1>1, <2>2, ReqOfAnswer, ElementOfSeq
      <3> QED
        BY <1>1, <2>3, <3>1, CarriedAt
    <2>9. Single(notes') /\ Carried(notes') = Carried(notes) \cup {r}
      BY <1>1, <2>2, <2>3, <2>4, OnceAppend DEF Once
    <2> QED
      BY <2>2, <2>5, <2>6, <2>7, <2>8, <2>9 DEF Once
  <1>7. ASSUME NEW b \in BOOLEAN, Pause(b) PROVE Once'
    BY <1>7 DEF Pause, Once
  <1>8. ASSUME NEW job \in pending, Accept(job) PROVE Once'
    <2> DEFINE c == [op |-> "approved", job |-> job]
    <2>1. c \in Commands /\ c.op # "published"
      BY <1>1 DEF Commands
    <2>2. UNCHANGED <<notes, waiting, events, answers>>
      BY <1>8 DEF Accept
    <2>3. commands' = commands \/ commands' = Append(commands, c)
      BY <1>8 DEF Accept
    <2> HIDE DEF c
    <2>4. CASE commands' = Append(commands, c)
      <3>1. Single(commands') /\ Carried(commands') = Carried(commands)
        BY <1>1, <2>1, <2>4, ReqOfCommand, OncePlain DEF Once
      <3> QED
        BY <2>2, <3>1 DEF Once
    <2> QED
      BY <2>2, <2>3, <2>4 DEF Once
  <1>9. ASSUME NEW job \in pending, Reject(job) PROVE Once'
    BY <1>9 DEF Reject, Once
  <1> QED
    BY <1>3, <1>4, <1>5, <1>6, <1>7, <1>8, <1>9

LEMMA OnceByX11 ==
  ASSUME TypeOK, Once, X11Step \/ Timeout \/ ManagerLost
  PROVE  Once'
  <1>1. /\ notes \in Seq(Notes) /\ commands \in Seq(Commands)
        /\ events \in Seq(Publications) /\ answers \in Seq(Answers)
        /\ waiting \in Seq(Requests) /\ {transfer, approved} \subseteq Transfers \cup {None}
    BY DEF TypeOK
  <1>2. CASE Destroyed
    <2> DEFINE e == Publish(approved, approved.generation + 1, None)
    <2>1. /\ approved \in Transfers /\ (events' = events \/ events' = Append(events, e))
          /\ UNCHANGED <<notes, waiting, commands, answers>>
      BY <1>1, <1>2 DEF Destroyed
    <2>2. e \in Publications /\ e.request = None
      BY <2>1 DEF Publish, Publications, Transfers
    <2> HIDE DEF e
    <2>3. CASE events' = Append(events, e)
      <3>1. Single(events') /\ Carried(events') = Carried(events)
        BY <1>1, <2>2, <2>3, ReqOfEvent, OncePlain DEF Once
      <3> QED
        BY <2>1, <3>1 DEF Once
    <2> QED
      BY <2>1, <2>3 DEF Once
  <1>3. CASE NewOwner \/ Complete
    <2>1. /\ notes # << >> /\ Head(notes).op # "save" /\ notes' = Tail(notes)
          /\ UNCHANGED <<waiting, events, commands, answers>>
      BY <1>3 DEF NewOwner, Complete, NextNote
    <2>2. Req(Head(notes)) = None
      BY <1>1, <2>1, TakeNote, ReqOfNote
    <2>3. Single(notes') /\ Carried(notes') = Carried(notes)
      BY <1>1, <2>1, <2>2, OnceHead DEF Once
    <2> QED
      BY <2>1, <2>3 DEF Once
  <1>4. CASE Begin \/ ManagerLost
    BY <1>4 DEF Begin, ManagerLost, Once
  <1>5. CASE Sweep \/ Timeout
    <2>1. /\ waiting' = << >> /\ Answer(waiting, FALSE, None)
          /\ UNCHANGED <<notes, events, commands>>
      BY <1>5 DEF Sweep, Timeout
    <2>2. Single(answers') /\ Carried(answers') = Carried(answers) \cup Carried(waiting)
      BY <1>1, <2>1, AnswerEffect DEF Once
    <2>3. Single(waiting') /\ Carried(waiting') = {}
      BY <2>1, OnceEmpty
    <2> QED
      BY <2>1, <2>2, <2>3 DEF Once
  <1>6. CASE SaveTargets
    <2> DEFINE r == Head(notes)
    <2>1. /\ r \in Requests /\ notes # << >> /\ notes' = Tail(notes)
          /\ UNCHANGED commands
      BY <1>1, <1>6, TakeNote, ReqOfNote DEF SaveTargets, NextNote
    <2>2. /\ <<r>> \in Seq(Requests) /\ Single(<<r>>) /\ Carried(<<r>>) = {r}
          /\ Append(<< >>, r) = <<r>>
      BY <2>1, OneRequest
    <2>3. /\ Single(notes') /\ Carried(notes') = Carried(notes) \ {r} /\ r \in Carried(notes)
      BY ZenonT(120), <1>1, <2>1, ReqOfRequest, OnceTail DEF Once
    <2>4. r \notin Carried(waiting) \cup Carried(events) \cup Carried(commands) \cup Carried(answers)
      BY <2>3 DEF Once
    <2>5. \/ waiting = << >> /\ Serve(approved, <<r>>) /\ approved # None /\ answers' = answers
          \/ waiting = << >> /\ waiting' = <<r>> /\ UNCHANGED <<events, answers>>
          \/ UNCHANGED <<waiting, events>> /\ (answers' = answers \/ Answer(<<r>>, FALSE, None))
      BY <1>6, <2>2 DEF SaveTargets
    <2>6. CASE waiting = << >> /\ Serve(approved, <<r>>) /\ approved # None /\ answers' = answers
      <3>1. \/ events' = events /\ waiting' = <<r>>
            \/ /\ waiting' = << >> /\ Single(events')
               /\ Carried(events') = Carried(events) \cup {r}
        BY <1>1, <2>1, <2>4, <2>6, ServeOne DEF Once
      <3> QED
        BY <2>1, <2>2, <2>3, <2>4, <2>6, <3>1, OnceEmpty DEF Once
    <2>7. CASE waiting = << >> /\ waiting' = <<r>> /\ UNCHANGED <<events, answers>>
      BY <2>1, <2>2, <2>3, <2>4, <2>7 DEF Once
    <2>8. CASE /\ UNCHANGED <<waiting, events>>
               /\ answers' = answers \/ Answer(<<r>>, FALSE, None)
      <3>1. \/ answers' = answers
            \/ Single(answers') /\ Carried(answers') = Carried(answers) \cup {r}
        BY <1>1, <2>1, <2>4, <2>8, AnswerOne DEF Once
      <3> QED
        BY <2>1, <2>3, <2>4, <2>8, <3>1 DEF Once
    <2> QED
      BY <2>5, <2>6, <2>7, <2>8
  <1>7. CASE Approved
    <2> DEFINE job == Head(commands).job
    <2>1. /\ job \in Transfers /\ commands # << >> /\ commands' = Tail(commands)
          /\ Req(Head(commands)) = None
          /\ UNCHANGED <<notes, answers>>
      BY <1>1, <1>7, TakeCommand, ReqOfCommand DEF Approved, NextCommand
    <2>2. Single(commands') /\ Carried(commands') = Carried(commands)
      BY <1>1, <2>1, OnceHead DEF Once
    <2>3. UNCHANGED <<waiting, events>> \/ Serve(job, waiting)
      BY <1>7 DEF Approved
    <2>4. \/ UNCHANGED <<waiting, events>>
          \/ /\ waiting' = << >> /\ Single(events')
             /\ Carried(events') = Carried(events) \cup Carried(waiting)
      BY <1>1, <2>1, <2>3, ServeEffect DEF Once
    <2> QED
      BY <2>1, <2>2, <2>4, OnceEmpty DEF Once
  <1>8. CASE LocalOwner
    <2>1. /\ commands # << >> /\ commands' = Tail(commands) /\ Req(Head(commands)) = None
          /\ UNCHANGED <<notes, waiting, events, answers>>
      BY <1>1, <1>8, TakeCommand, ReqOfCommand DEF LocalOwner, NextCommand
    <2>2. Single(commands') /\ Carried(commands') = Carried(commands)
      BY <1>1, <2>1, OnceHead DEF Once
    <2> QED
      BY <2>1, <2>2 DEF Once
  <1>9. CASE Published
    <2> DEFINE r == Head(commands).request
    <2>1. /\ commands # << >> /\ commands' = Tail(commands) /\ Req(Head(commands)) = r
          /\ r \in Requests \cup {None} /\ Head(commands).content \in Nat
          /\ UNCHANGED <<notes, waiting, events>>
      BY <1>1, <1>9, TakeCommand, ReqOfCommand DEF Published, NextCommand
    <2>2. /\ Single(commands') /\ Carried(commands') = Carried(commands) \ {r}
          /\ r = None \/ r \in Carried(commands)
      BY <1>1, <2>1, OnceTail DEF Once
    <2>3. CASE r = None
      <3>1. answers' = answers
        BY <1>9, <2>3 DEF Published
      <3> QED
        BY <2>1, <2>2, <3>1 DEF Once
    <2>4. CASE r # None
      <3>1. Answer(<<r>>, TRUE, Head(commands).content) /\ r \in Requests
        BY <1>9, <2>1, <2>4 DEF Published
      <3>2. r \notin Carried(answers)
        BY <2>2, <2>4 DEF Once
      <3>3. Single(answers') /\ Carried(answers') = Carried(answers) \cup {r}
        BY <1>1, <2>1, <3>1, <3>2, AnswerOne DEF Once
      <3> QED
        BY <2>1, <2>2, <2>4, <3>2, <3>3 DEF Once
    <2> QED
      BY <2>3, <2>4
  <1> QED
    BY <1>2, <1>3, <1>4, <1>5, <1>6, <1>7, <1>8, <1>9 DEF X11Step

LEMMA OnceByGtk ==
  ASSUME TypeOK, Once, Handling, GtkStep \/ GdkRefuses
  PROVE  Once'
  <1> DEFINE e == Head(events)
  <1>1. /\ claim \in Nat /\ notes \in Seq(Notes) /\ commands \in Seq(Commands)
        /\ events \in Seq(Publications) /\ events # << >>
    BY DEF TypeOK, Handling, GtkStep, Poll, Claim, GdkRefuses, TellLocal, TellPublished
  <1>2. e \in Publications /\ UNCHANGED <<waiting, answers>>
    BY <1>1, TakeEvent DEF GtkStep, Poll, Claim, GdkRefuses, TellLocal, TellPublished
  <1>3. /\ Single(Tail(events)) /\ Carried(Tail(events)) = Carried(events) \ {e.request}
        /\ e.request = None \/ e.request \in Carried(events)
    BY <1>1, <1>2, ReqOfEvent, OnceTail DEF Once
  <1>4. CASE Poll \/ GdkRefuses
    <2>1. UNCHANGED <<notes, commands>> /\ events' \in {events, Tail(events)}
      BY <1>4 DEF Poll, GdkRefuses
    <2> QED
      BY <1>2, <1>3, <2>1 DEF Once
  <1>5. CASE Claim
    <2> DEFINE n == OwnerNote(Self, FALSE)
    <2>1. claim' = claim + 1 /\ notes' = Append(notes, n) /\ UNCHANGED <<events, commands>>
      BY <1>5 DEF Claim
    <2>2. n \in Notes /\ n.op # "save"
      BY <1>1, <2>1 DEF OwnerNote, Notes
    <2> HIDE DEF n
    <2>3. Single(notes') /\ Carried(notes') = Carried(notes)
      BY <1>1, <2>1, <2>2, ReqOfNote, OncePlain DEF Once
    <2> QED
      BY <1>2, <2>1, <2>3 DEF Once
  <1>6. CASE TellLocal
    <2>1. commands' = Append(commands, LocalMsg) /\ UNCHANGED <<notes, events>>
      BY <1>6 DEF TellLocal, LocalMsg
    <2>2. Single(commands') /\ Carried(commands') = Carried(commands)
      BY <1>1, <2>1, CommandsType, OncePlain DEF Once
    <2> QED
      BY <1>2, <2>1, <2>2 DEF Once
  <1>7. CASE TellPublished
    <2> DEFINE c == PublishedMsg(e)
    <2>1. /\ commands' = Append(commands, c) /\ events' = Tail(events) /\ UNCHANGED notes
          /\ c \in Commands /\ Req(c) = e.request
      BY <1>2, <1>7, CommandsType DEF TellPublished, PublishedMsg
    <2> HIDE DEF c
    <2>2. e.request \notin Carried(commands)
      BY <1>3 DEF Once, Carried
    <2>3. Single(commands') /\ Carried(commands') = Carried(commands) \cup ({e.request} \ {None})
      BY <1>1, <2>1, <2>2, OnceAppend DEF Once
    <2> QED
      BY <1>2, <1>3, <2>1, <2>3 DEF Once
  <1> QED
    BY <1>4, <1>5, <1>6, <1>7 DEF GtkStep

LEMMA OnceStep ==
  ASSUME TypeOK, Once, Handling, [Next]_vars
  PROVE  Once'
  <1>1. CASE UNCHANGED vars \/ AtRest
    BY <1>1 DEF AtRest, Once
  <1> QED
    BY <1>1, OnceByOthers, OnceByX11, OnceByGtk DEF Next
-----------------------------------------------------------------------------
(***************************************************************************)
(* The publication under way.                                              *)
(***************************************************************************)
LEMMA HeadKept ==
  ASSUME NEW S, NEW p \in Seq(S), NEW q \in Seq(S), p # << >>
  PROVE  p \o q # << >> /\ Head(p \o q) = Head(p)
  <1>1. /\ Len(p) \in Nat \ {0} /\ Len(q) \in Nat /\ p \o q \in Seq(S)
        /\ Len(p \o q) = Len(p) + Len(q) /\ (p \o q)[1] = p[1]
    BY ConcatProperties, LenProperties, EmptySeq
  <1>2. p \o q # << >>
    BY <1>1, EmptySeq
  <1> QED
    BY <1>1, <1>2, HeadTailProperties

LEMMA HandlingStep ==
  ASSUME TypeOK, Numbered, Current, Handling, TypeOK', [Next]_vars
  PROVE  Handling'
  <1>1. /\ events \in Seq(Publications) /\ claim \in Nat /\ generation \in Nat
        /\ approved \in Transfers \cup {None} /\ waiting \in Seq(Requests)
    BY DEF TypeOK
  <1>2. ASSUME UNCHANGED <<gtkVars, own>>,
               events' = events \/ \E new \in Seq(Publications) : events' = events \o new
        PROVE  Handling'
    <2>1. events # << >> => events' # << >> /\ Head(events') = Head(events)
      BY <1>1, <1>2, HeadKept
    <2> QED
      BY <1>2, <2>1 DEF Handling
  <1>3. ASSUME UNCHANGED <<gtkVars, own>>, NEW job \in Transfers, NEW requests \in Seq(Requests),
               Serve(job, requests)
        PROVE  Handling'
    <2> DEFINE new == [i \in 1..Len(requests) |-> Publish(job, job.generation, requests[i])]
    <2>1. Len(requests) \in Nat /\ \A i \in 1..Len(requests) : requests[i] \in Requests
      BY LenProperties, ElementOfSeq
    <2>2. \A i \in 1..Len(requests) : Publish(job, job.generation, requests[i]) \in Publications
      BY <2>1 DEF Publish, Publications, Transfers
    <2>3. new \in Seq(Publications)
      BY <2>1, <2>2
    <2>4. events' = events \/ events' = events \o new
      BY <1>3 DEF Serve
    <2> QED
      BY <1>2, <1>3, <2>3, <2>4
  <1>4. ASSUME NEW w \in Windows, Copy(w) PROVE Handling'
    BY <1>2, <1>4 DEF Copy
  <1>5. ASSUME NEW b \in BOOLEAN, Release(b) \/ Pause(b) PROVE Handling'
    BY <1>2, <1>5 DEF Release, Pause
  <1>6. ASSUME NEW job \in pending, Accept(job) \/ Reject(job) PROVE Handling'
    BY <1>2, <1>6 DEF Accept, Reject
  <1>7. CASE \/ AskSave \/ Offer \/ NewOwner \/ Begin \/ Complete \/ Sweep \/ Timeout
             \/ LocalOwner \/ Published \/ ManagerLost \/ AtRest \/ UNCHANGED vars
    BY <1>2, <1>7 DEF AskSave, Offer, NewOwner, Begin, Complete, Sweep, Timeout, LocalOwner,
                      Published, ManagerLost, AtRest
  <1>8. CASE Destroyed
    <2> DEFINE e == Publish(approved, approved.generation + 1, None)
    <2>1. /\ approved \in Transfers /\ UNCHANGED <<gtkVars, own>>
          /\ events' = events \/ events' = Append(events, e)
      BY <1>1, <1>8 DEF Destroyed
    <2>2. e \in Publications
      BY <2>1 DEF Publish, Publications, Transfers
    <2> HIDE DEF e
    <2>3. <<e>> \in Seq(Publications) /\ Append(events, e) = events \o <<e>>
      BY <1>1, <2>2
    <2> QED
      BY <1>2, <2>1, <2>3
  <1>9. CASE SaveTargets
    <2> DEFINE r == Head(notes)
    <2>1. r \in Requests /\ UNCHANGED <<gtkVars, own>>
      BY <1>9, TakeNote, ReqOfNote DEF SaveTargets, NextNote, TypeOK
    <2>2. events' = events \/ (approved # None /\ Serve(approved, <<r>>))
      BY <1>9 DEF SaveTargets
    <2>3. <<r>> \in Seq(Requests)
      BY <2>1
    <2> QED
      BY <1>1, <1>2, <1>3, <2>1, <2>2, <2>3
  <1>10. CASE Approved
    <2> DEFINE job == Head(commands).job
    <2>1. job \in Transfers /\ UNCHANGED <<gtkVars, own>>
      BY <1>10, TakeCommand, ReqOfCommand DEF Approved, NextCommand, TypeOK
    <2>2. events' = events \/ Serve(job, waiting)
      BY <1>10 DEF Approved
    <2> QED
      BY <1>1, <1>2, <1>3, <2>1, <2>2
  <1>11. CASE Poll
    <2>1. CASE mayPublish(Head(events))
      <3>1. Head(events).generation = generation /\ Head(events) \in Range(events)
        BY <1>1, <1>11, <2>1, TakeEvent DEF mayPublish, Poll, Current
      <3>2. Head(events).content = seen
        BY <1>1, <3>1 DEF Current
      <3> QED
        BY <1>11, <2>1, <3>2 DEF Poll, Handling
    <2>2. CASE ~mayPublish(Head(events))
      BY <1>11, <2>2 DEF Poll, Handling
    <2> QED
      BY <2>1, <2>2
  <1>12. CASE Claim
    <2>1. /\ events # << >> /\ UNCHANGED events /\ gpc' = "local"
          /\ own' = own \cup {claim'} /\ claim' = claim + 1
      BY <1>12 DEF Claim, Handling
    <2>2. Head(events).request # None =>
            Head(events).request.claim \in Nat /\ Head(events).request.claim <= claim
      BY <1>1, <2>1, TakeEvent, Numbers DEF Numbered
    <2>3. Head(events).request # None => claim' > Head(events).request.claim
      BY <1>1, <2>1, <2>2
    <2> QED
      BY <2>1, <2>3 DEF Handling
  <1>13. CASE TellLocal
    BY <1>13 DEF TellLocal, Handling
  <1>14. CASE GdkRefuses \/ TellPublished
    BY <1>14 DEF GdkRefuses, TellPublished, Handling
  <1> QED
    BY <1>4, <1>5, <1>6, <1>7, <1>8, <1>9, <1>10, <1>11, <1>12, <1>13, <1>14
       DEF Next, X11Step, GtkStep
-----------------------------------------------------------------------------
(***************************************************************************)
(* The theorems.                                                           *)
(***************************************************************************)
LEMMA StepInv == Inv /\ [Next]_vars => Inv'
  <1> SUFFICES ASSUME Inv, [Next]_vars PROVE Inv'
    OBVIOUS
  <1>1. TypeOK'
    BY StepType DEF Inv
  <1> QED
    BY <1>1, OriginStep, NumberedStep, CurrentStep, OnceStep, HandlingStep DEF Inv

LEMMA Invariant == Spec => []Inv
  BY InitInv, StepInv, PTL DEF Spec

\* Every queue holds what its reader expects, whoever wrote it, and one SAVE_TARGETS
\* waits at most (Backend.requests, x11.rs 191-194).
THEOREM TypeCorrect == Spec => []TypeOK
  <1>1. Inv => TypeOK
    BY DEF Inv
  <1> QED
    BY <1>1, Invariant, PTL

\* What this program offers was accepted by the writer, through any number of owners,
\* generations and publications still on their way (x11.rs 229-242, ui.rs 592-598).
THEOREM OfferedWasAccepted == Spec => []OffersOnlyAccepted
  <1>1. Inv => OffersOnlyAccepted
    BY DEF Inv, Origin, OffersOnlyAccepted
  <1> QED
    BY <1>1, Invariant, PTL

\* This program's own content never enters the pipeline again (x11.rs 159-169, 248,
\* 313-318): begin compares the owner of the last note read, and a note of its own
\* tells the claim to be its own.
THEOREM OwnIsNeverCaptured == Spec => []NoRecapture
  <1>1. Inv => NoRecapture
    BY DEF Inv, Numbered, NoRecapture
  <1> QED
    BY <1>1, Invariant, PTL

\* A requestor of SAVE_TARGETS gets one answer at most, for the request is at one place
\* of the note queue, the wait, the publications, the confirmations and the answers
\* (x11.rs 191-194, 205-208, 538).
THEOREM AnswerIsOnly == Spec => []AnsweredOnce
  <1>1. Inv => AnsweredOnce
    <2> SUFFICES ASSUME Inv, NEW i \in 1..Len(answers), NEW j \in 1..Len(answers),
                        answers[i].request = answers[j].request
                 PROVE  i = j
      BY DEF AnsweredOnce
    <2>1. answers[i] \in Answers /\ answers[j] \in Answers
      BY ElementOfSeq DEF Inv, TypeOK
    <2> QED
      BY <2>1, ReqOfAnswer DEF Inv, Once, Single
  <1> QED
    BY <1>1, Invariant, PTL

\* What is put on the clipboard had not been replaced or cleared, as far as the X11 thread
\* knew, when the GTK thread compared the generations: one generation has one content, and
\* the publication waits unchanged from that check to the claim, whatever happens meanwhile
\* (ui.rs 592-593, 500; x11.rs 236, 243-244).
THEOREM PublishesWhatWasChecked == Spec => NoRevivalPastCheck
  <1>1. Inv /\ [Next]_vars => [owner' = Self /\ claim' # claim => content' = judged]_vars
    <2> SUFFICES ASSUME Inv, [Next]_vars, owner' = Self, claim' # claim
                 PROVE  content' = judged
      OBVIOUS
    <2>1. CASE Claim
      BY <2>1 DEF Claim, Inv, Handling
    <2>2. CASE Poll \/ TellLocal \/ TellPublished \/ GdkRefuses
      BY <2>2 DEF Poll, TellLocal, TellPublished, GdkRefuses
    <2>3. ASSUME NEW w \in Windows, Copy(w) PROVE FALSE
      BY <2>3, PreservationAssumption DEF Copy
    <2>4. ASSUME NEW b \in BOOLEAN, Release(b) \/ Pause(b) PROVE FALSE
      BY <2>4, PreservationAssumption DEF Release, Pause
    <2>5. ASSUME NEW job \in pending, Accept(job) \/ Reject(job) PROVE FALSE
      BY <2>5 DEF Accept, Reject
    <2>6. CASE AskSave \/ Offer \/ AtRest \/ UNCHANGED vars
      BY <2>6 DEF AskSave, Offer, AtRest
    <2>7. CASE X11Step \/ Timeout \/ ManagerLost
      BY <2>7 DEF X11Step, Destroyed, NewOwner, Begin, Complete, Sweep, SaveTargets, Approved,
                  LocalOwner, Published, Timeout, ManagerLost
    <2> QED
      BY <2>1, <2>2, <2>3, <2>4, <2>5, <2>6, <2>7 DEF Next, GtkStep
  <1> QED
    BY <1>1, Invariant, PTL DEF Spec, NoRevivalPastCheck

\* A positive answer to SAVE_TARGETS follows the publication: this program has claimed the
\* selection since the claim that was to be saved (ui.rs 592-598, x11.rs 170-174).
THEOREM SavedIsPublished == Spec => SavedBeforeAnswer
  <1> DEFINE Saved == \A i \in 1..Len(answers') :
               i > Len(answers) /\ answers'[i].ok => \E c \in own : c > answers'[i].request.claim
  <1>1. Inv /\ [Next]_vars => [Saved]_vars
    <2> SUFFICES ASSUME Inv, [Next]_vars PROVE Saved
      OBVIOUS
    <2>1. /\ notes \in Seq(Notes) /\ commands \in Seq(Commands) /\ answers \in Seq(Answers)
          /\ waiting \in Seq(Requests)
      BY DEF Inv, TypeOK
    <2>2. CASE answers' = answers
      <3>1. Len(answers) \in Nat
        BY <2>1, LenProperties
      <3> QED
        BY <2>2, <3>1
    <2>3. CASE Sweep \/ Timeout
      BY <2>1, <2>3, AnswerEffect DEF Sweep, Timeout
    <2>4. CASE SaveTargets
      <3>1. Head(notes) \in Requests
        BY <2>1, <2>4, TakeNote, ReqOfNote DEF SaveTargets, NextNote
      <3>2. answers' = answers \/ Answer(<<Head(notes)>>, FALSE, None)
        BY <2>4 DEF SaveTargets
      <3> QED
        BY <2>1, <2>2, <3>1, <3>2, OneRequest, AnswerEffect
    <2>5. CASE Published
      <3> DEFINE c == Head(commands)
                 r == c.request
      <3>1. /\ c \in Range(commands) /\ c.op = "published" /\ c.content \in Nat
            /\ r \in Requests \cup {None}
        BY <2>1, <2>5, TakeCommand, ReqOfCommand DEF Published, NextCommand
      <3>2. answers' = answers \/ (r # None /\ Answer(<<r>>, TRUE, c.content))
        BY <2>5 DEF Published
      <3>3. CASE r # None /\ Answer(<<r>>, TRUE, c.content)
        <4>1. r \in Requests /\ \E o \in own : o > r.claim
          BY <3>1, <3>3 DEF Inv, Numbered
        <4>2. <<r>> \in Seq(Requests) /\ Range(<<r>>) = {r}
          BY <4>1, OneRequest
        <4>3. \A i \in 1..Len(answers') : i > Len(answers) => answers'[i].request \in Range(<<r>>)
          BY <2>1, <3>1, <3>3, <4>2, AnswerEffect
        <4> QED
          BY <4>1, <4>2, <4>3
      <3> QED
        BY <2>2, <3>2, <3>3
    <2>6. ASSUME NEW w \in Windows, Copy(w) PROVE answers' = answers
      BY <2>6 DEF Copy
    <2>7. ASSUME NEW b \in BOOLEAN, Release(b) \/ Pause(b) PROVE answers' = answers
      BY <2>7 DEF Release, Pause
    <2>8. ASSUME NEW job \in pending, Accept(job) \/ Reject(job) PROVE answers' = answers
      BY <2>8 DEF Accept, Reject
    <2>9. CASE AskSave \/ Offer \/ GtkStep \/ GdkRefuses \/ AtRest \/ UNCHANGED vars
      BY <2>2, <2>9 DEF AskSave, Offer, GtkStep, Poll, Claim, TellLocal, TellPublished, GdkRefuses,
                        AtRest
    <2>10. CASE Destroyed \/ NewOwner \/ Begin \/ Complete \/ Approved \/ LocalOwner \/ ManagerLost
      BY <2>2, <2>10 DEF Destroyed, NewOwner, Begin, Complete, Approved, LocalOwner, ManagerLost
    <2> QED
      BY <2>2, <2>3, <2>4, <2>5, <2>6, <2>7, <2>8, <2>9, <2>10 DEF Next, X11Step
  <1> QED
    BY <1>1, Invariant, PTL DEF Spec, SavedBeforeAnswer
=============================================================================
