---------------------------- MODULE Preservation ----------------------------
(***************************************************************************)
(* Clipboard preservation: how ClipLedge keeps what a window offered after *)
(* the window is gone or asks for it with SAVE_TARGETS.                    *)
(*                                                                         *)
(* Three parties act: the applications, which take, clear and lose the     *)
(* CLIPBOARD selection at the X server; the X11 thread, which learns of it *)
(* by XFixes notes read later (src/clipboard/x11.rs); and the GTK thread,  *)
(* which alone can own a selection and publishes what the X11 thread asks  *)
(* for (src/ui.rs 477-600).  The capture pipeline between them (Capture)   *)
(* is a set of jobs that are accepted or rejected some time later.         *)
(* The GTK thread checks a publication, claims the selection and tells the *)
(* X11 thread in steps of their own: the other two act in between.         *)
(*                                                                         *)
(* Every change of the selection's owner at the server is a claim; what it *)
(* offers is named by the claim that first offered it.                     *)
(***************************************************************************)
EXTENDS Gate, Sequences

CONSTANTS
  Windows,    \* windows of other applications
  Self,       \* this program's own window
  None,       \* no window, no content, no job
  Events,     \* what happens besides copying: see the actions of the environment
  MaxClaims,  \* changes of the owner by other applications
  MaxEpoch    \* invalidations

\* A SAVE_TARGETS, by the claim whose content it is about, and a fetch of one.
Requests  == [op : {"save"}, by : Windows, claim : Nat]
Transfers == [owner : Windows, generation : Nat, epoch : Nat, claim : Nat]

ASSUME PreservationAssumption ==
  /\ Self \notin Windows /\ None \notin Windows /\ Self # None
  /\ None \notin Requests /\ None \notin Transfers
  /\ MaxClaims \in Nat /\ MaxEpoch \in Nat

VARIABLES
  owner,       \* X server: owner of CLIPBOARD
  content,     \* X server: what that owner offers
  claim,       \* X server: changes of the owner so far
  notes,       \* X server -> X11 thread
  ownership,   \* Gate.ownership
  generation,  \* Backend.generation
  known,       \* Backend.owner
  local,       \* Backend.local
  is_manager,  \* Backend.is_manager
  xpc,         \* what the X11 thread still has to do for a note
  transfer,    \* Backend.transfer, with what it fetches
  approved,    \* Backend.approved
  waiting,     \* Backend.requests, at most one
  pending,     \* captures on their way through decoder and writer
  commands,    \* GTK and writer -> X11 thread
  events,      \* X11 thread -> GTK; the head stays until its handling ends
  gpc,         \* what the GTK thread still has to do for the head
  answers,     \* X11 thread -> requestors of SAVE_TARGETS
  accepted,    \* history variable: what the writer accepted
  own,         \* history variable: claims made by this program
  heard,       \* history variable: last claim the X11 thread read of
  seen,        \* history variable: the last of them that may yet be preserved
  judged       \* history variable: what was seen when a publication was let through

serverVars == <<owner, content, claim>>
x11Vars    == <<ownership, generation, known, local, is_manager, xpc, transfer,
                approved, waiting>>
ghostVars  == <<accepted, own, heard, seen>>
gtkVars    == <<gpc, judged>>
vars == <<gateVars, serverVars, notes, x11Vars, pending, commands, events,
          answers, ghostVars, gtkVars>>

Init ==
  /\ paused = FALSE /\ locked = FALSE /\ key_ready = TRUE
  /\ capacity = TRUE /\ backend = TRUE /\ epoch = 0
  /\ owner = None /\ content = None /\ claim = 0 /\ notes = <<>>
  /\ ownership = 0 /\ generation = 0 /\ known = None /\ local = None
  /\ is_manager = TRUE /\ xpc = "idle"
  /\ transfer = None /\ approved = None /\ waiting = <<>>
  /\ pending = {} /\ commands = <<>> /\ events = <<>> /\ answers = <<>>
  /\ accepted = {} /\ own = {} /\ heard = 0 /\ seen = 0
  /\ gpc = "idle" /\ judged = 0
-----------------------------------------------------------------------------
(***************************************************************************)
(* The applications and the user.                                          *)
(***************************************************************************)
OwnerNote(by, gone) == [op |-> "owner", by |-> by, gone |-> gone, claim |-> claim']
ServerOnly ==
  UNCHANGED <<gateVars, x11Vars, pending, commands, events, answers, accepted,
              heard, seen, gtkVars>>

Copy(w) ==
  /\ claim < MaxClaims
  /\ claim' = claim + 1
  /\ owner' = w /\ content' = claim'
  /\ notes' = Append(notes, OwnerNote(w, FALSE))
  /\ UNCHANGED own
  /\ ServerOnly

\* The owner gives the selection up, or its window is destroyed.
Release(gone) ==
  /\ owner \in Windows /\ claim < MaxClaims
  /\ (IF gone THEN "Exit" ELSE "Clear") \in Events
  /\ claim' = claim + 1
  /\ owner' = None /\ content' = None
  /\ notes' = Append(notes, OwnerNote(None, gone))
  /\ UNCHANGED own
  /\ ServerOnly

\* The owner asks the clipboard manager to save its content, once a claim.
AskSave ==
  /\ owner \in Windows /\ "Save" \in Events
  /\ LET request == [op |-> "save", by |-> owner, claim |-> claim]
     IN  /\ \A i \in 1..Len(notes) : notes[i] # request
         /\ \A i \in 1..Len(waiting) : waiting[i] # request
         /\ \A i \in 1..Len(events) : events[i].request # request
         /\ \A i \in 1..Len(commands) :
              commands[i].op = "published" => commands[i].request # request
         /\ \A i \in 1..Len(answers) : answers[i].request # request
         /\ notes' = Append(notes, request)
  /\ UNCHANGED <<serverVars, own>>
  /\ ServerOnly

\* The owner converts what the X11 thread asks for; an owner that has lost the
\* selection answers in vain, for the note of it is read first.
Offer ==
  /\ transfer # None /\ claim = transfer.claim
  /\ LET offer == [op |-> "offer", claim |-> claim]
     IN  /\ \A i \in 1..Len(notes) : notes[i] # offer
         /\ notes' = Append(notes, offer)
  /\ UNCHANGED <<serverVars, own>>
  /\ ServerOnly

\* pause(), both stores: a handler of the GTK thread, so not during a publication.
Pause(value) ==
  /\ gpc = "idle" /\ "Pause" \in Events /\ epoch < MaxEpoch
  /\ paused' = value
  /\ invalidate
  /\ UNCHANGED <<locked, key_ready, capacity, backend, serverVars, notes, x11Vars,
                 pending, commands, events, answers, ghostVars, gtkVars>>

\* The capture pipeline ends with the writer's verdict.
Accept(job) ==
  /\ pending' = pending \ {job}
  /\ IF accepts(job.epoch)
       THEN /\ commands' = Append(commands, [op |-> "approved", job |-> job])
            /\ accepted' = accepted \cup {job.claim}
       ELSE UNCHANGED <<commands, accepted>>
  /\ UNCHANGED <<gateVars, serverVars, notes, x11Vars, events, answers, own, heard,
                 seen, gtkVars>>
Reject(job) ==
  /\ "Reject" \in Events
  /\ pending' = pending \ {job}
  /\ UNCHANGED <<gateVars, serverVars, notes, x11Vars, commands, events, answers,
                 ghostVars, gtkVars>>
-----------------------------------------------------------------------------
(***************************************************************************)
(* The X11 thread.                                                         *)
(***************************************************************************)
NextNote(op) ==
  /\ xpc = "idle" /\ notes # <<>>
  /\ Head(notes).op = op
  /\ notes' = Tail(notes)
NextCommand(op) ==
  /\ xpc = "idle" /\ commands # <<>>
  /\ Head(commands).op = op
  /\ commands' = Tail(commands)

Answer(requests, ok, what) ==
  answers' = answers \o [i \in 1..Len(requests) |->
                           [request |-> requests[i], ok |-> ok, content |-> what]]
Publish(job, gen, request) ==
  [content |-> job.claim, generation |-> gen, epoch |-> job.epoch, request |-> request]

\* Mutant of Serve: the requests are not taken out.
ServeAgain(job, requests) ==
  /\ events' = events \o (IF accepts(job.epoch)
                            THEN [i \in 1..Len(requests) |->
                                    Publish(job, job.generation, requests[i])]
                            ELSE <<>>)
  /\ waiting' = requests

\* serve_requests: what waits is answered with what is approved.
Serve(job, requests) ==
  IF accepts(job.epoch)
    THEN /\ events' = events \o [i \in 1..Len(requests) |->
                                   Publish(job, job.generation, requests[i])]
         /\ waiting' = <<>>
    ELSE UNCHANGED events /\ waiting' = requests

\* A selection destroyed with its window: publish what was approved of it, a
\* generation ahead of the one still to be announced.
Destroyed ==
  /\ xpc = "idle" /\ notes # <<>>
  /\ LET n == Head(notes)
     IN  n.op = "owner" /\ n.gone
  /\ is_manager /\ approved # None
  /\ approved' = None
  /\ events' = IF approved.owner = known /\ accepts(approved.epoch)
                 THEN Append(events, Publish(approved, approved.generation + 1, None))
                 ELSE events
  /\ xpc' = "announce"
  /\ UNCHANGED <<gateVars, serverVars, notes, ownership, generation, known, local,
                 is_manager, transfer, waiting, pending, commands, answers,
                 ghostVars, gtkVars>>

\* The rest of XfixesSelectionNotify: a new generation, known to all; the owner
\* is looked at if it is another program's and the gate is open.
NewOwner ==
  /\ notes # <<>> /\ notes' = Tail(notes)
  /\ LET n == Head(notes)
     IN  /\ n.op = "owner"
         /\ xpc = "announce" \/ (xpc = "idle" /\ ~(n.gone /\ is_manager /\ approved # None))
         /\ generation' = generation + 1
         /\ ownership' = generation'
         /\ known' = n.by
         /\ transfer' = None /\ approved' = None
         /\ IF n.by \notin {None, local} /\ eligible
              THEN xpc' = "begin" ELSE xpc' = "idle"
         /\ heard' = n.claim
         /\ seen' = IF n.by = Self \/ n.gone THEN seen ELSE n.claim
  /\ UNCHANGED <<gateVars, serverVars, local, is_manager, waiting, pending,
                 commands, events, answers, accepted, own, gtkVars>>

\* Mutant of Begin: this process is not recognised.
BeginAnyOwner ==
  /\ xpc = "begin"
  /\ transfer' = [owner |-> known, generation |-> generation, epoch |-> epoch,
                  claim |-> heard]
  /\ xpc' = "idle"
  /\ UNCHANGED <<gateVars, serverVars, notes, ownership, generation, known, local,
                 is_manager, approved, waiting, pending, commands, events, answers,
                 ghostVars, gtkVars>>

\* begin: a window of this process is remembered, another's content is fetched.
\* A note names its claim only in the model: known and generation stand for it.
Begin ==
  /\ xpc = "begin"
  /\ IF known = Self
       THEN local' = known /\ UNCHANGED transfer
       ELSE /\ transfer' = [owner |-> known, generation |-> generation,
                            epoch |-> epoch, claim |-> heard]
            /\ UNCHANGED local
  /\ xpc' = "idle"
  /\ UNCHANGED <<gateVars, serverVars, notes, ownership, generation, known,
                 is_manager, approved, waiting, pending, commands, events, answers,
                 ghostVars, gtkVars>>

\* Mutant of Complete: what was fetched is preserved, accepted or not.
CompleteApproves ==
  /\ NextNote("offer")
  /\ approved' = transfer
  /\ transfer' = None
  /\ UNCHANGED <<gateVars, serverVars, ownership, generation, known, local,
                 is_manager, xpc, pending, waiting, commands, events, answers,
                 ghostVars, gtkVars>>

\* The transfer completes and enters the pipeline; its round trips are one here.
Complete ==
  /\ NextNote("offer")
  /\ pending' = pending \cup (IF transfer # None /\ accepts(transfer.epoch)
                               THEN {transfer} ELSE {})
  /\ transfer' = None
  /\ UNCHANGED <<gateVars, serverVars, ownership, generation, known, local,
                 is_manager, xpc, approved, waiting, commands, events, answers,
                 ghostVars, gtkVars>>

\* No progress for two seconds, ten in all: who waits for it is refused.
Timeout ==
  /\ xpc = "idle" /\ transfer # None /\ "Timeout" \in Events
  /\ transfer' = None /\ waiting' = <<>>
  /\ Answer(waiting, FALSE, None)
  /\ UNCHANGED <<gateVars, serverVars, notes, ownership, generation, known, local,
                 is_manager, xpc, approved, pending, commands, events,
                 ghostVars, gtkVars>>

\* The loop forgets and refuses everything while the gate is closed.
Sweep ==
  /\ xpc = "idle" /\ ~eligible
  /\ transfer # None \/ approved # None \/ waiting # <<>>
  /\ transfer' = None /\ approved' = None /\ waiting' = <<>>
  /\ Answer(waiting, FALSE, None)
  /\ UNCHANGED <<gateVars, serverVars, notes, ownership, generation, known, local,
                 is_manager, xpc, pending, commands, events,
                 ghostVars, gtkVars>>

\* Mutant of SaveTargets: requests may queue up.
SaveTargetsQueue ==
  /\ NextNote("save")
  /\ LET r == Head(notes)
     IN  IF is_manager /\ eligible /\ r.by = known
           THEN /\ waiting' = Append(waiting, r)
                /\ UNCHANGED <<events, answers>>
           ELSE /\ Answer(<<r>>, FALSE, None)
                /\ UNCHANGED <<waiting, events>>
  /\ UNCHANGED <<gateVars, serverVars, ownership, generation, known, local,
                 is_manager, xpc, transfer, approved, pending, commands,
                 ghostVars, gtkVars>>

\* SelectionRequest for SAVE_TARGETS.
SaveTargets ==
  /\ NextNote("save")
  /\ LET r == Head(notes)
     IN  IF is_manager /\ eligible /\ r.by = known /\ waiting = <<>>
           THEN /\ IF approved # None
                     THEN Serve(approved, <<r>>)
                     ELSE waiting' = Append(waiting, r) /\ UNCHANGED events
                /\ UNCHANGED answers
           ELSE /\ IF is_manager THEN Answer(<<r>>, FALSE, None) ELSE UNCHANGED answers
                /\ UNCHANGED <<waiting, events>>
  /\ UNCHANGED <<gateVars, serverVars, ownership, generation, known, local,
                 is_manager, xpc, transfer, approved, pending, commands,
                 ghostVars, gtkVars>>

\* Another program takes CLIPBOARD_MANAGER.
ManagerLost ==
  /\ xpc = "idle" /\ is_manager /\ "Manager" \in Events
  /\ is_manager' = FALSE /\ approved' = None
  /\ UNCHANGED <<gateVars, serverVars, notes, ownership, generation, known, local,
                 xpc, transfer, waiting, pending, commands, events, answers,
                 ghostVars, gtkVars>>

Approved ==
  /\ NextCommand("approved")
  /\ LET job == Head(commands).job
     IN  IF known = job.owner /\ generation = job.generation /\ accepts(job.epoch)
           THEN approved' = job /\ Serve(job, waiting)
           ELSE UNCHANGED <<approved, waiting, events>>
  /\ UNCHANGED <<gateVars, serverVars, notes, ownership, generation, known, local,
                 is_manager, xpc, transfer, pending, answers,
                 ghostVars, gtkVars>>

\* The owner is asked of the server only now.
LocalOwner ==
  /\ NextCommand("local")
  /\ local' = owner
  /\ transfer' = None /\ approved' = None
  /\ UNCHANGED <<gateVars, serverVars, notes, ownership, generation, known,
                 is_manager, xpc, waiting, pending, events, answers,
                 ghostVars, gtkVars>>

Published ==
  /\ NextCommand("published")
  /\ LET c == Head(commands)
     IN  IF c.request = None THEN UNCHANGED answers
                             ELSE Answer(<<c.request>>, TRUE, c.content)
  /\ UNCHANGED <<gateVars, serverVars, notes, x11Vars, pending, events,
                 ghostVars, gtkVars>>

X11Step ==
  \/ Destroyed \/ NewOwner \/ Begin \/ Complete \/ Sweep \/ SaveTargets
  \/ Approved \/ LocalOwner \/ Published
-----------------------------------------------------------------------------
(***************************************************************************)
(* The GTK thread: an event is checked (poll), then publish() makes this   *)
(* program the owner at the server, unless GDK refuses, and the X11 thread *)
(* is told.  It and the applications may act before each of these steps.   *)
(***************************************************************************)
\* Mutant of mayPublish: the ownership generation is not compared.
mayPublishAnyOwner(e) == accepts(e.epoch)

\* What poll asks of an event.  The ownership is loaded last, and only this thread
\* pauses: that load decides.
mayPublish(e) == accepts(e.epoch) /\ ownership = e.generation
Poll ==
  /\ gpc = "idle" /\ events # <<>>
  /\ IF mayPublish(Head(events))
       THEN gpc' = "claim" /\ judged' = seen /\ UNCHANGED events
       ELSE events' = Tail(events) /\ UNCHANGED gtkVars
  /\ UNCHANGED <<gateVars, serverVars, notes, x11Vars, pending, commands, answers,
                 ghostVars>>

\* publish(): set_content, whatever has happened since the check.
Claim ==
  /\ gpc = "claim"
  /\ gpc' = "local" /\ judged' = 0
  /\ claim' = claim + 1
  /\ owner' = Self /\ content' = Head(events).content
  /\ own' = own \cup {claim'}
  /\ notes' = Append(notes, OwnerNote(Self, FALSE))
  /\ UNCHANGED <<gateVars, x11Vars, pending, commands, events, answers, accepted,
                 heard, seen>>

\* Mutant of GdkRefuses: the result of publish is ignored.
GdkIgnored ==
  /\ gpc = "claim" /\ "Gdk" \in Events
  /\ gpc' = "idle" /\ judged' = 0
  /\ events' = Tail(events)
  /\ commands' = Append(commands, [op |-> "published", content |-> None,
                                   request |-> Head(events).request])
  /\ UNCHANGED <<gateVars, serverVars, notes, x11Vars, pending, answers, ghostVars>>

GdkRefuses ==
  /\ gpc = "claim" /\ "Gdk" \in Events
  /\ gpc' = "idle" /\ judged' = 0
  /\ events' = Tail(events)
  /\ UNCHANGED <<gateVars, serverVars, notes, x11Vars, pending, commands, answers,
                 ghostVars>>

TellLocal ==
  /\ gpc = "local"
  /\ gpc' = "published"
  /\ commands' = Append(commands, [op |-> "local"])
  /\ UNCHANGED <<gateVars, serverVars, notes, x11Vars, pending, events, answers,
                 ghostVars, judged>>

TellPublished ==
  /\ gpc = "published"
  /\ gpc' = "idle"
  /\ LET e == Head(events)
     IN  commands' = Append(commands, [op |-> "published", request |-> e.request,
                                       content |-> e.content])
  /\ events' = Tail(events)
  /\ UNCHANGED <<gateVars, serverVars, notes, x11Vars, pending, answers, ghostVars,
                 judged>>

GtkStep == Poll \/ Claim \/ TellLocal \/ TellPublished

AtRest ==
  /\ xpc = "idle" /\ notes = <<>> /\ commands = <<>> /\ events = <<>>
  /\ pending = {} /\ transfer = None /\ gpc = "idle"
  /\ UNCHANGED vars

Next ==
  \/ \E w \in Windows : Copy(w)
  \/ \E b \in BOOLEAN : Release(b) \/ Pause(b)
  \/ AskSave \/ Offer
  \/ \E job \in pending : Accept(job) \/ Reject(job)
  \/ X11Step \/ Timeout \/ ManagerLost
  \/ GtkStep \/ GdkRefuses
  \/ AtRest

Spec == Init /\ [][Next]_vars
FairSpec ==
  /\ Spec
  /\ WF_vars(X11Step) /\ WF_vars(GtkStep)
  /\ WF_vars(\E job \in pending : Accept(job))
-----------------------------------------------------------------------------
(***************************************************************************)
(* What preservation promises.                                             *)
(***************************************************************************)
Notes == Requests \cup [op : {"offer"}, claim : Nat]
                  \cup [op : {"owner"}, by : Windows \cup {Self, None}, gone : BOOLEAN,
                        claim : Nat]
Commands == [op : {"approved"}, job : Transfers] \cup [op : {"local"}]
              \cup [op : {"published"}, request : Requests \cup {None}, content : Nat]
Publications == [content : Nat, generation : Nat, epoch : Nat,
                 request : Requests \cup {None}]
Answers == [request : Requests, ok : BOOLEAN, content : Nat \cup {None}]

\* Every variable keeps its type; at most one request waits.
TypeOK ==
  /\ GateTypeOK
  /\ owner \in Windows \cup {Self, None} /\ content \in Nat \cup {None}
  /\ {claim, ownership, generation, heard, seen} \subseteq Nat
  /\ notes \in Seq(Notes) /\ commands \in Seq(Commands)
  /\ events \in Seq(Publications) /\ answers \in Seq(Answers)
  /\ {known, local} \subseteq Windows \cup {Self, None}
  /\ is_manager \in BOOLEAN
  /\ xpc \in {"idle", "announce", "begin"}
  /\ gpc \in {"idle", "claim", "local", "published"} /\ judged \in Nat
  /\ {transfer, approved} \subseteq Transfers \cup {None}
  /\ pending \subseteq Transfers
  /\ waiting \in Seq(Requests) /\ Len(waiting) <= 1
  /\ accepted \subseteq Nat /\ own \subseteq Nat

\* What this program offers as its own was accepted by the writer, which judged
\* it for secrets and exclusions: nothing rejected or still undecided is ever
\* preserved (architecture.md 16; x11.rs 175-185, 229-242, 535-548).
OffersOnlyAccepted == owner = Self => content \in accepted

\* What a publication puts on the clipboard had not been replaced or cleared by
\* another program as far as the X11 thread knew when poll compared the
\* generations, however long the event had waited by then (ui.rs 592-593, x11.rs
\* 236, 243-244).  What it learns between that check and the claim comes too late:
\* content' = seen does not hold.
NoRevivalPastCheck ==
  [][owner' = Self /\ claim' # claim => content' = judged]_vars

\* What this program itself offers is never fetched or captured again, whether
\* the note or LocalOwner comes first (x11.rs 159-169, 248, 313-318).
NoRecapture ==
  /\ transfer # None => transfer.claim \notin own
  /\ \A job \in pending : job.claim \notin own

\* A SAVE_TARGETS is answered at most once (x11.rs 191-194, 205-208, 538).
AnsweredOnce ==
  \A i, j \in 1..Len(answers) : answers[i].request = answers[j].request => i = j

\* A positive answer comes after the content was put on the clipboard: who saved
\* may exit without losing it, for this program offers it or someone took over
\* (ui.rs 500-508, 596-598, x11.rs 170-174).
SavedBeforeAnswer ==
  [][\A i \in 1..Len(answers') :
       i > Len(answers) /\ answers'[i].ok => \E c \in own : c > answers'[i].request.claim]_vars

\* architecture.md 17, privacy.md 25: the destruction of a source whose capture
\* was accepted requests publication.  The request overtakes the generation it
\* carries, and the GTK thread drops it.
DestroyedIsPreserved == (xpc = "announce" /\ events # <<>>) ~> owner # None
=============================================================================
