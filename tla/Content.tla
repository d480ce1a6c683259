------------------------------- MODULE Content ------------------------------
(***************************************************************************)
(* What the decoder makes of a raw capture: prepare (src/content.rs), which *)
(* refuses an item as a whole or keeps the representations whose category  *)
(* the settings allow.                                                     *)
(*                                                                         *)
(* A representation is its MIME type and what prepare finds out about its  *)
(* bytes: plain, a secret, a web address, or broken.  Two of the four text *)
(* types stand for all, and one image type.  Decoding, previews, search    *)
(* words and the digest follow from the representations and are left out.  *)
(***************************************************************************)
EXTENDS Naturals, Sequences, Functions, Select

TextMimes  == {"UTF8_STRING", "STRING"}
FileMimes  == {"x-special/gnome-copied-files", "text/uri-list"}
Allowlist  == TextMimes \cup FileMimes \cup {"text/html", "image/png"}
SensitiveMimes == {"x-kde-passwordmanagerhint"}

\* What each kind of bytes may turn out to be; images are not searched for secrets.
Traits(mime) ==
  CASE mime \in TextMimes   -> {"plain", "secret", "url"}
    [] mime = "image/png"   -> {"plain", "broken"}
    [] mime \in FileMimes   -> {"plain", "secret", "broken"}
    [] OTHER                -> {"plain", "secret"}

Categories == {"text", "links", "rich_text", "images", "files"}

Refused(why) == [ok |-> FALSE, why |-> why]

SelectMimes(reps, S) == SelectIn(reps, {r \in Range(reps) : r.mime \in S})

\* The text that decides whether the item is a link.
IsLink(reps) ==
  LET texts == SelectMimes(reps, TextMimes)
  IN  texts # << >> /\ Head(texts).trait = "url"

\* Mutant of kept: the text of a link counts as text.
keptAsText(reps, enabled) ==
  SelectIn(reps, {r \in Range(reps) :
    CASE r.mime = "text/html"  -> "rich_text" \in enabled
      [] r.mime \in FileMimes  -> "files" \in enabled
      [] r.mime = "image/png"  -> "images" \in enabled
      [] OTHER                 -> "text" \in enabled})

\* The representations of enabled categories.
kept(reps, enabled) ==
  SelectIn(reps, {r \in Range(reps) :
    CASE r.mime = "text/html"  -> "rich_text" \in enabled
      [] r.mime \in FileMimes  -> "files" \in enabled
      [] r.mime = "image/png"  -> "images" \in enabled
      [] OTHER                 -> "text" \in enabled \/ IsLink(reps)})

Kind(reps, link) ==
  IF SelectMimes(reps, {"image/png"}) # << >> THEN "Image"
  ELSE IF SelectMimes(reps, FileMimes) # << >> THEN "Files"
  ELSE IF link THEN "Link"
  ELSE IF SelectMimes(reps, {"text/html"}) # << >> THEN "Rich text" ELSE "Text"

\* The file list that is read, and the image that is decoded.
FilesOf(reps) ==
  LET gnome == SelectMimes(reps, {"x-special/gnome-copied-files"})
  IN  IF gnome # << >> THEN gnome ELSE SelectMimes(reps, FileMimes)
ImageOf(reps) == SelectMimes(reps, {"image/png"})
Broken(reps)  == reps # << >> /\ Head(reps).trait = "broken"

\* contains_secret looks at everything but images.
HasSecret(reps) == \E i \in DOMAIN reps : reps[i].trait = "secret"

Finish(out, link) ==
  IF out = << >> THEN Refused("unsupported")
  ELSE IF Broken(FilesOf(out)) THEN Refused("invalid-files")
  ELSE IF Broken(ImageOf(out)) THEN Refused("invalid-image")
  ELSE [ok |-> TRUE, reps |-> {r.mime : r \in Range(out)}, kind |-> Kind(out, link)]

\* Mutant of prepare: secrets are looked for in what the categories leave.
prepareThenSearch(c, s) ==
  LET listed == SelectMimes(c.reps, Allowlist)
      out    == kept(listed, s.enabled)
  IN  IF c.large THEN Refused("oversized")
      ELSE IF \/ SelectMimes(c.reps, SensitiveMimes) # << >>
              \/ c.excluded
              \/ s.detect /\ HasSecret(out)
      THEN Refused("excluded")
      ELSE IF IsLink(listed) /\ "links" \notin s.enabled THEN Refused("category-disabled")
      ELSE Finish(out, IsLink(listed))

\* c: an item's representations in the order they came, whether they are too large
\* together, and whether their source is excluded; s: the settings.
prepare(c, s) ==
  LET listed == SelectMimes(c.reps, Allowlist)
      out    == kept(listed, s.enabled)
  IN  IF c.large THEN Refused("oversized")
      ELSE IF \/ SelectMimes(c.reps, SensitiveMimes) # << >>
              \/ c.excluded
              \/ s.detect /\ HasSecret(c.reps)
      THEN Refused("excluded")
      ELSE IF IsLink(listed) /\ "links" \notin s.enabled THEN Refused("category-disabled")
      ELSE Finish(out, IsLink(listed))
-----------------------------------------------------------------------------
(***************************************************************************)
(* The decoder given some item under some settings.                        *)
(***************************************************************************)
CONSTANT MaxReps   \* representations of an item

ASSUME ContentAssumption == MaxReps \in Nat

VARIABLES
  settings,   \* the settings it reads
  item,       \* the item it was given, or Nothing
  result      \* what prepare made of it

vars == <<settings, item, result>>

Representations == UNION {[mime : {m}, trait : Traits(m)] :
                            m \in Allowlist \cup SensitiveMimes \cup {"other"}}
Captures == [reps : UNION {[1..n -> Representations] : n \in 0..MaxReps},
             large : BOOLEAN, excluded : BOOLEAN]
AllSettings == [enabled : SUBSET Categories, detect : BOOLEAN]

Nothing == [reps |-> << >>, large |-> FALSE, excluded |-> FALSE]

Init ==
  /\ settings \in AllSettings
  /\ item = Nothing /\ result = prepare(Nothing, settings)

Decode(c) ==
  /\ item' = c /\ result' = prepare(c, settings)
  /\ UNCHANGED settings

Next == item = Nothing /\ \E c \in Captures : Decode(c)

Spec == Init /\ [][Next]_vars
-----------------------------------------------------------------------------
(***************************************************************************)
(* What prepare promises, stated without its order of steps.                 *)
(***************************************************************************)
All == Range(item.reps)

\* The text that stands for the item, if it has one.
IsFirstText(i) ==
  /\ item.reps[i].mime \in TextMimes
  /\ \A j \in 1..(i - 1) : item.reps[j].mime \notin TextMimes
Link == \E i \in DOMAIN item.reps : IsFirstText(i) /\ item.reps[i].trait = "url"

\* The category a representation counts for.
CategoryOf(r) ==
  CASE r.mime = "text/html" -> "rich_text"
    [] r.mime = "image/png" -> "images"
    [] r.mime \in FileMimes -> "files"
    [] OTHER -> IF Link THEN "links" ELSE "text"

Allowed == {r \in All : r.mime \in Allowlist /\ CategoryOf(r) \in settings.enabled}

\* Nothing of an item is kept if anything in it forbids it, even in a representation no
\* category would let through (content.rs:139-144, privacy.md:17-20): a hint, a secret,
\* its source, its size, or a link where links are not wanted.
ForbiddenAsAWhole ==
  result.ok => /\ ~item.large /\ ~item.excluded
               /\ \A r \in All : r.mime \notin SensitiveMimes
               /\ settings.detect => \A r \in All : r.trait # "secret"
               /\ Link => "links" \in settings.enabled

\* The kinds an item may be shown as, by a representation of theirs.
Shows(r, kind) ==
  CASE kind = "Image"     -> r.mime = "image/png"
    [] kind = "Files"     -> r.mime \in FileMimes
    [] kind = "Link"      -> CategoryOf(r) = "links"
    [] kind = "Rich text" -> r.mime = "text/html"
    [] OTHER              -> CategoryOf(r) = "text"

\* Of an item that is kept, exactly the representations of enabled categories are, and
\* the shelf shows it as the kind of one of them; one that nothing forbids and some
\* category wants is kept unless it is broken (content.rs:145-258, README.md:202-205).
KeptByCategory ==
  /\ result.ok => /\ result.reps = {r.mime : r \in Allowed}
                  /\ \E r \in Allowed : Shows(r, result.kind)
  /\ ~result.ok => \/ result.why \in {"oversized", "excluded", "category-disabled"}
                   \/ Allowed = {}
                   \/ \E r \in Allowed : r.trait = "broken"
=============================================================================
