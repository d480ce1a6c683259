----------------------------- MODULE ContentProofs --------------------------
(***************************************************************************)
(* Theorems about what the decoder makes of an item, for items of any      *)
(* number of representations in any order, under any settings: what        *)
(* forbids an item forbids all of it, and what is kept is what the         *)
(* enabled categories want.                                                *)
(***************************************************************************)
EXTENDS Content, DataLemmas

-----------------------------------------------------------------------------
(***************************************************************************)
(* Selections of representations.                                          *)
(***************************************************************************)
\* A sequence is empty when nothing is in it, and begins with something that is.
LEMMA EmptyIs ==
  ASSUME NEW T, NEW q \in Seq(T)
  PROVE  /\ q = << >> <=> Range(q) = {}
         /\ q # << >> => Head(q) \in Range(q) /\ Head(q) = q[1] /\ Len(q) \in Nat \ {0}
  <1>1. q = << >> => Range(q) = {}
    BY RangeEmpty
  <1>2. q # << >> => Head(q) \in Range(q) /\ Head(q) = q[1] /\ Len(q) \in Nat \ {0}
    BY RangeTail, HeadTailProperties, EmptySeq, LenProperties
  <1> QED
    BY <1>1, <1>2

LEMMA SelectMimesIs ==
  ASSUME NEW T, NEW reps \in Seq(T), NEW S
  PROVE  LET q == SelectMimes(reps, S)
         IN  /\ q \in Seq(T) /\ Range(q) = {r \in Range(reps) : r.mime \in S}
             /\ q = << >> <=> \A r \in Range(reps) : r.mime \notin S
             /\ q # << >> => Head(q) \in Range(reps) /\ Head(q).mime \in S
  <1> DEFINE q == SelectMimes(reps, S)
             V == {r \in Range(reps) : r.mime \in S}
  <1>1. q \in Seq(T \cap V) /\ Range(q) = Range(reps) \cap V
    BY SelectInSelects DEF SelectMimes
  <1>2. T \cap V \subseteq T
    OBVIOUS
  <1>3. q \in Seq(T)
    BY <1>1, <1>2
  <1>4. Range(q) = V
    BY <1>1
  <1> HIDE DEF q
  <1>5. /\ q = << >> <=> Range(q) = {}
        /\ q # << >> => Head(q) \in Range(q)
    BY <1>3, EmptyIs
  <1> QED
    BY <1>3, <1>4, <1>5 DEF q

\* The index of the first text.
FirstText(reps, i) ==
  /\ i \in 1..Len(reps) /\ reps[i].mime \in TextMimes
  /\ \A j \in 1..(i - 1) : reps[j].mime \notin TextMimes

\* The text that decides is the first of the item, wherever it stands among what is not
\* on the list.
LEMMA IsLinkIs ==
  ASSUME NEW T, NEW reps \in Seq(T)
  PROVE  IsLink(SelectMimes(reps, Allowlist)) <=>
           \E i : FirstText(reps, i) /\ reps[i].trait = "url"
  <1> DEFINE listed == SelectMimes(reps, Allowlist)
             texts  == SelectMimes(listed, TextMimes)
             V      == {r \in Range(reps) : r.mime \in Allowlist}
             W      == {r \in Range(listed) : r.mime \in TextMimes}
  <1>1. listed \in Seq(T) /\ Range(listed) = V
    BY SelectMimesIs
  <1>2. texts \in Seq(T) /\ Range(texts) = W
    BY <1>1, SelectMimesIs
  <1>a. listed = SelectIn(reps, V) /\ texts = SelectIn(listed, W)
    BY DEF SelectMimes
  <1> HIDE DEF listed, texts, V, W
  <1>3. Len(reps) \in Nat /\ Len(listed) \in Nat /\ Len(texts) \in Nat
    BY <1>1, <1>2, LenProperties
  <1>4. PICK h \in [1..Len(listed) -> 1..Len(reps)] :
          /\ \A i, j \in 1..Len(listed) : i < j => h[i] < h[j]
          /\ \A i \in 1..Len(listed) : listed[i] = reps[h[i]]
          /\ \A j \in 1..Len(reps) : reps[j] \in V => \E i \in 1..Len(listed) : h[i] = j
    BY SMTT(30), <1>a, SelectInOrder
  <1>5. texts # << >> =>
          \E i \in 1..Len(listed) : /\ Head(texts) = listed[i] /\ listed[i] \in W
                                    /\ \A j \in 1..(i - 1) : listed[j] \notin W
    BY ZenonT(30), <1>1, <1>a, SelectInSelects
  <1>6. \A j \in 1..Len(reps) : reps[j].mime \in TextMimes => reps[j] \in V
    <2>1. \A j \in 1..Len(reps) : reps[j] \in Range(reps)
      BY InRange
    <2> QED
      BY <2>1 DEF Allowlist, V
  <1>7. \A i \in 1..Len(listed) : listed[i] \in W <=> listed[i].mime \in TextMimes
    <2>1. \A i \in 1..Len(listed) : listed[i] \in Range(listed)
      BY <1>1, InRange
    <2> QED
      BY <2>1 DEF W
  \* The first text of the list is the first of the item.
  <1>8. texts # << >> => \E i : FirstText(reps, i) /\ Head(texts) = reps[i]
    <2>1. SUFFICES ASSUME texts # << >>
                   PROVE  \E i : FirstText(reps, i) /\ Head(texts) = reps[i]
      OBVIOUS
    <2>2. PICK k \in 1..Len(listed) : /\ Head(texts) = listed[k] /\ listed[k] \in W
                                      /\ \A j \in 1..(k - 1) : listed[j] \notin W
      BY <1>5, <2>1
    <2>3. h[k] \in 1..Len(reps) /\ listed[k] = reps[h[k]] /\ reps[h[k]].mime \in TextMimes
      BY <1>4, <1>7, <2>2
    <2>4. ASSUME NEW j \in 1..(h[k] - 1), reps[j].mime \in TextMimes PROVE FALSE
      <3>1. j \in 1..Len(reps) /\ j < h[k]
        BY <1>3, <2>3
      <3>2. PICK m \in 1..Len(listed) : h[m] = j
        BY <1>4, <1>6, <2>4, <3>1
      <3>3. m # k /\ ~(k < m)
        BY <1>4, <2>3, <3>1, <3>2
      <3>4. m \in 1..(k - 1)
        BY <1>3, <3>3
      <3>5. listed[m].mime \in TextMimes
        BY <1>4, <2>4, <3>2
      <3> QED
        BY <1>7, <2>2, <3>2, <3>4, <3>5
    <2> QED
      BY <2>2, <2>3, <2>4 DEF FirstText
  <1>9. ASSUME NEW i, FirstText(reps, i) PROVE texts # << >>
    <2>1. PICK m \in 1..Len(listed) : h[m] = i
      BY <1>4, <1>6, <1>9 DEF FirstText
    <2>2. listed[m].mime \in TextMimes /\ listed[m] \in W
      BY <1>4, <1>7, <1>9, <2>1 DEF FirstText
    <2> QED
      BY <1>2, <2>2, RangeEmpty
  <1>10. \A i, k : FirstText(reps, i) /\ FirstText(reps, k) => i = k
    <2>1. SUFFICES ASSUME NEW i, NEW k, FirstText(reps, i), FirstText(reps, k) PROVE i = k
      OBVIOUS
    <2>2. i \in 1..Len(reps) /\ k \in 1..Len(reps)
      BY <2>1 DEF FirstText
    <2>3. i < k => i \in 1..(k - 1)
      BY <1>3, <2>2
    <2>4. k < i => k \in 1..(i - 1)
      BY <1>3, <2>2
    <2>5. ~(i < k) /\ ~(k < i)
      BY <2>1, <2>3, <2>4 DEF FirstText
    <2> QED
      BY <1>3, <2>2, <2>5
  <1>11. IsLink(listed) <=> texts # << >> /\ Head(texts).trait = "url"
    BY DEF IsLink, texts
  <1>12. IsLink(listed) <=> \E i : FirstText(reps, i) /\ reps[i].trait = "url"
    BY <1>8, <1>9, <1>10, <1>11
  <1> QED
    BY <1>12 DEF listed
-----------------------------------------------------------------------------
(***************************************************************************)
(* What prepare does with an item.                                         *)
(***************************************************************************)
Listed(c)   == SelectMimes(c.reps, Allowlist)
Left(c, s)  == kept(Listed(c), s.enabled)

LEMMA PrepareIs ==
  ASSUME NEW c, NEW s
  PROVE  \/ prepare(c, s) \in {Refused("oversized"), Refused("excluded"), Refused("category-disabled")}
         \/ /\ ~c.large /\ ~c.excluded /\ SelectMimes(c.reps, SensitiveMimes) = << >>
            /\ ~(s.detect /\ HasSecret(c.reps))
            /\ IsLink(Listed(c)) => "links" \in s.enabled
            /\ prepare(c, s) = Finish(Left(c, s), IsLink(Listed(c)))
  BY DEF prepare, Listed, Left

LEMMA FinishIs ==
  ASSUME NEW out, NEW link
  PROVE  \/ out = << >> /\ Finish(out, link) = Refused("unsupported")
         \/ Broken(FilesOf(out)) /\ Finish(out, link) = Refused("invalid-files")
         \/ Broken(ImageOf(out)) /\ Finish(out, link) = Refused("invalid-image")
         \/ /\ out # << >>
            /\ Finish(out, link) = [ok |-> TRUE, reps |-> {r.mime : r \in Range(out)},
                                    kind |-> Kind(out, link)]
  BY DEF Finish
-----------------------------------------------------------------------------
(***************************************************************************)
(* The invariant.                                                          *)
(***************************************************************************)
Inv ==
  /\ settings \in AllSettings
  /\ item \in [reps : Seq(Representations), large : BOOLEAN, excluded : BOOLEAN]
  /\ result = prepare(item, settings)

LEMMA Invariance == Spec => []Inv
  <1>1. Init => Inv
    BY DEF Init, Inv, Nothing
  <1>2. ASSUME Inv, [Next]_vars PROVE Inv'
    <2>1. CASE UNCHANGED vars
      BY <1>2, <2>1 DEF Inv, vars
    <2>2. CASE \E c \in Captures : Decode(c)
      <3>1. PICK c \in Captures : Decode(c)
        BY <2>2
      <3>2. PICK n \in 0..MaxReps : c.reps \in [1..n -> Representations]
        BY <3>1 DEF Captures
      <3>3. c.reps \in Seq(Representations)
        BY <3>2, ContentAssumption, SeqDef DEF ContentAssumption
      <3>4. c \in [reps : Seq(Representations), large : BOOLEAN, excluded : BOOLEAN]
        BY <3>1, <3>3 DEF Captures
      <3> QED
        BY <1>2, <3>1, <3>4 DEF Inv, Decode
    <2> QED
      BY <1>2, <2>1, <2>2 DEF Next
  <1> QED
    BY <1>1, <1>2, PTL DEF Spec

LEMMA ItemIs ==
  ASSUME Inv
  PROVE  /\ item.reps \in Seq(Representations) /\ All = Range(item.reps)
         /\ DOMAIN item.reps = 1..Len(item.reps)
         /\ Link <=> IsLink(Listed(item))
  <1>1. item.reps \in Seq(Representations) /\ DOMAIN item.reps = 1..Len(item.reps)
    BY LenProperties DEF Inv
  <1>2. IsLink(Listed(item)) <=> \E i : FirstText(item.reps, i) /\ item.reps[i].trait = "url"
    BY <1>1, IsLinkIs DEF Listed
  <1>3. \A i : FirstText(item.reps, i) <=> i \in DOMAIN item.reps /\ IsFirstText(i)
    BY <1>1 DEF FirstText, IsFirstText
  <1> QED
    BY <1>1, <1>2, <1>3 DEF Link, All
-----------------------------------------------------------------------------
(***************************************************************************)
(* What forbids an item.                                                   *)
(***************************************************************************)
LEMMA KeptIs ==
  ASSUME Inv, result.ok
  PROVE  /\ ~item.large /\ ~item.excluded /\ SelectMimes(item.reps, SensitiveMimes) = << >>
         /\ ~(settings.detect /\ HasSecret(item.reps))
         /\ Link => "links" \in settings.enabled
         /\ Left(item, settings) # << >>
         /\ result = [ok |-> TRUE, reps |-> {r.mime : r \in Range(Left(item, settings))},
                      kind |-> Kind(Left(item, settings), Link)]
  <1>1. \A why : ~Refused(why).ok
    BY DEF Refused
  <1>2. result = prepare(item, settings) /\ (Link <=> IsLink(Listed(item)))
    BY ItemIs DEF Inv
  <1>3. /\ ~item.large /\ ~item.excluded /\ SelectMimes(item.reps, SensitiveMimes) = << >>
        /\ ~(settings.detect /\ HasSecret(item.reps))
        /\ IsLink(Listed(item)) => "links" \in settings.enabled
        /\ result = Finish(Left(item, settings), IsLink(Listed(item)))
    BY <1>1, <1>2, PrepareIs
  <1>4. IsLink(Listed(item)) \in BOOLEAN
    BY DEF IsLink
  <1>5. /\ Left(item, settings) # << >>
        /\ result = [ok |-> TRUE, reps |-> {r.mime : r \in Range(Left(item, settings))},
                     kind |-> Kind(Left(item, settings), IsLink(Listed(item)))]
    BY <1>1, <1>3, FinishIs
  <1>6. Kind(Left(item, settings), Link) = Kind(Left(item, settings), IsLink(Listed(item)))
    BY <1>2 DEF Kind
  <1> QED
    BY <1>2, <1>3, <1>5, <1>6

LEMMA ForbiddenIs == Inv => ForbiddenAsAWhole
  <1> SUFFICES ASSUME Inv, result.ok PROVE ForbiddenAsAWhole
    BY DEF ForbiddenAsAWhole
  <1>1. /\ item.reps \in Seq(Representations) /\ All = Range(item.reps)
        /\ DOMAIN item.reps = 1..Len(item.reps)
    BY ItemIs
  <1>2. \A r \in All : r.mime \notin SensitiveMimes
    BY <1>1, KeptIs, SelectMimesIs
  <1>3. ASSUME settings.detect, NEW r \in All PROVE r.trait # "secret"
    <2>1. PICK i \in DOMAIN item.reps : r = item.reps[i]
      BY <1>1, <1>3, InRange
    <2> QED
      BY <1>3, <2>1, KeptIs DEF HasSecret
  <1> QED
    BY <1>2, <1>3, KeptIs DEF ForbiddenAsAWhole
-----------------------------------------------------------------------------
(***************************************************************************)
(* What is kept.                                                           *)
(***************************************************************************)
\* Whether a representation stays, if the item is a link or not.
Stays(r, enabled, link) ==
  CASE r.mime = "text/html"  -> "rich_text" \in enabled
    [] r.mime \in FileMimes  -> "files" \in enabled
    [] r.mime = "image/png"  -> "images" \in enabled
    [] OTHER                 -> "text" \in enabled \/ link

LEMMA LeftIs ==
  ASSUME Inv, Link => "links" \in settings.enabled
  PROVE  Left(item, settings) \in Seq(Representations) /\ Range(Left(item, settings)) = Allowed
  <1> DEFINE listed == Listed(item)
             enabled == settings.enabled
             V == {r \in Range(listed) :
                     CASE r.mime = "text/html"  -> "rich_text" \in enabled
                       [] r.mime \in FileMimes  -> "files" \in enabled
                       [] r.mime = "image/png"  -> "images" \in enabled
                       [] OTHER                 -> "text" \in enabled \/ IsLink(listed)}
             out == Left(item, settings)
  <1>1. item.reps \in Seq(Representations) /\ All = Range(item.reps) /\ (Link <=> IsLink(listed))
    BY ItemIs
  <1>2. listed \in Seq(Representations) /\ Range(listed) = {r \in All : r.mime \in Allowlist}
    BY <1>1, SelectMimesIs DEF Listed
  <1>3. out = SelectIn(listed, V)
    BY DEF Left, kept
  <1>4. out \in Seq(Representations \cap V) /\ Range(out) = Range(listed) \cap V
    <2> HIDE DEF V, listed, out
    <2> QED
      BY <1>2, <1>3, SelectInSelects
  <1>5. out \in Seq(Representations)
    <2>1. Representations \cap V \subseteq Representations
      OBVIOUS
    <2> HIDE DEF V, listed, out
    <2> QED
      BY <1>4, <2>1
  <1>6. \A r : r.mime \in Allowlist =>
          (CategoryOf(r) \in enabled <=> Stays(r, enabled, IsLink(listed)))
    <2> HIDE DEF listed, enabled
    <2> QED
      BY <1>1 DEF CategoryOf, Stays, FileMimes, enabled
  <1>7. \A r : r \in V <=> r \in Range(listed) /\ Stays(r, enabled, IsLink(listed))
    BY DEF Stays
  <1> HIDE DEF V, listed, out
  <1>8. \A r : r \in Range(out) <=> r \in Allowed
    BY <1>2, <1>4, <1>6, <1>7 DEF Allowed, enabled
  <1>9. Range(out) = Allowed
    BY <1>8
  <1> QED
    BY <1>5, <1>9 DEF out

LEMMA ShownIs ==
  ASSUME Inv, result.ok
  PROVE  \E r \in Allowed : Shows(r, result.kind)
  <1> DEFINE out == Left(item, settings)
  <1>1. /\ Link => "links" \in settings.enabled
        /\ out # << >> /\ result.kind = Kind(out, Link)
    BY KeptIs
  <1>2. out \in Seq(Representations) /\ Range(out) = Allowed
    BY <1>1, LeftIs
  <1> HIDE DEF out
  <1>3. \A S : SelectMimes(out, S) # << >> <=> \E r \in Allowed : r.mime \in S
    BY <1>2, SelectMimesIs
  <1>4. \A r \in Allowed : r.mime \in Allowlist
    BY DEF Allowed
  <1>5. CASE \E r \in Allowed : r.mime = "image/png"
    <2>1. result.kind = "Image"
      BY <1>1, <1>3, <1>5 DEF Kind
    <2> QED
      BY <1>5, <2>1 DEF Shows
  <1>6. CASE /\ ~\E r \in Allowed : r.mime = "image/png"
             /\ \E r \in Allowed : r.mime \in FileMimes
    <2>1. SelectMimes(out, {"image/png"}) = << >> /\ SelectMimes(out, FileMimes) # << >>
      <3>1. SelectMimes(out, {"image/png"}) = << >>
        BY <1>3, <1>6
      <3>2. SelectMimes(out, FileMimes) # << >>
        BY <1>3, <1>6
      <3> QED
        BY <3>1, <3>2
    <2>2. result.kind = "Files"
      BY <1>1, <2>1 DEF Kind
    <2> QED
      BY <1>6, <2>2 DEF Shows
  <1>7. CASE ~\E r \in Allowed : r.mime = "image/png" \/ r.mime \in FileMimes
    <2>1. /\ SelectMimes(out, {"image/png"}) = << >> /\ SelectMimes(out, FileMimes) = << >>
      BY <1>3, <1>7
    <2>2. CASE Link
      <3>1. result.kind = "Link"
        BY <1>1, <2>1, <2>2 DEF Kind
      <3>2. PICK i \in DOMAIN item.reps : IsFirstText(i)
        BY <2>2 DEF Link
      <3> DEFINE r == item.reps[i]
      <3>3. r \in All /\ r.mime \in TextMimes
        BY <3>2, ItemIs, InRange DEF IsFirstText
      <3>4. CategoryOf(r) = "links" /\ r.mime \in Allowlist
        BY <2>2, <3>3 DEF CategoryOf, TextMimes, FileMimes, Allowlist
      <3>5. r \in Allowed
        BY <1>1, <2>2, <3>3, <3>4 DEF Allowed
      <3> QED
        BY <3>1, <3>4, <3>5 DEF Shows
    <2>3. CASE ~Link /\ \E r \in Allowed : r.mime = "text/html"
      <3>1. result.kind = "Rich text"
        BY <1>1, <1>3, <2>1, <2>3 DEF Kind
      <3> QED
        BY <2>3, <3>1 DEF Shows
    <2>4. CASE ~Link /\ ~\E r \in Allowed : r.mime = "text/html"
      <3>1. SelectMimes(out, {"text/html"}) = << >>
        BY <1>3, <2>4
      <3>2. result.kind = "Text"
        BY <1>1, <2>1, <2>4, <3>1 DEF Kind
      <3>3. PICK r \in Allowed : TRUE
        BY <1>1, <1>2, EmptyIs
      <3>4. CategoryOf(r) = "text"
        BY <1>7, <2>4 DEF CategoryOf
      <3> QED
        BY <3>2, <3>4 DEF Shows
    <2> QED
      BY <2>2, <2>3, <2>4
  <1> QED
    BY <1>5, <1>6, <1>7

LEMMA RefusedIs ==
  ASSUME Inv, ~result.ok
  PROVE  \/ result.why \in {"oversized", "excluded", "category-disabled"}
         \/ Allowed = {}
         \/ \E r \in Allowed : r.trait = "broken"
  <1> DEFINE out == Left(item, settings)
  <1>1. result = prepare(item, settings) /\ (Link <=> IsLink(Listed(item)))
    BY ItemIs DEF Inv
  <1>2. CASE result \in {Refused("oversized"), Refused("excluded"), Refused("category-disabled")}
    BY <1>2 DEF Refused
  <1>3. CASE /\ Link => "links" \in settings.enabled
             /\ result = Finish(out, IsLink(Listed(item)))
    <2>1. out \in Seq(Representations) /\ Range(out) = Allowed
      BY <1>3, LeftIs
    <2>2. out = << >> \/ Broken(FilesOf(out)) \/ Broken(ImageOf(out))
      <3>1. ~ \E reps, kind : result = [ok |-> TRUE, reps |-> reps, kind |-> kind]
        OBVIOUS
      <3> QED
        BY <1>3, <3>1, FinishIs
    <2> HIDE DEF out
    <2>3. CASE out = << >>
      BY <2>1, <2>3, EmptyIs
    <2>4. ASSUME NEW S, Broken(SelectMimes(out, S)) PROVE \E r \in Allowed : r.trait = "broken"
      <3>1. SelectMimes(out, S) # << >> /\ Head(SelectMimes(out, S)).trait = "broken"
        BY <2>4 DEF Broken
      <3>2. Head(SelectMimes(out, S)) \in Range(out)
        BY <2>1, <3>1, SelectMimesIs
      <3> QED
        BY <2>1, <3>1, <3>2
    <2> QED
      BY <2>2, <2>3, <2>4 DEF FilesOf, ImageOf
  <1> HIDE DEF out
  <1> QED
    BY <1>1, <1>2, <1>3, PrepareIs DEF out
-----------------------------------------------------------------------------
(***************************************************************************)
(* The theorems.                                                           *)
(***************************************************************************)
\* Nothing of an item is kept if anything in it forbids it, in whichever representation
\* it is and whichever categories are enabled (content.rs:136-168).
THEOREM NothingForbiddenIsKept == Spec => []ForbiddenAsAWhole
  BY Invariance, ForbiddenIs, PTL

\* Of an item that is kept, exactly what the enabled categories want is, and it is shown
\* as the kind of something of that; nothing else is refused unless it is broken
\* (content.rs:145-258).
THEOREM KeptIsWhatIsWanted == Spec => []KeptByCategory
  <1>1. Inv => KeptByCategory
    <2>1. ASSUME Inv, result.ok
          PROVE  result.reps = {r.mime : r \in Allowed} /\ \E r \in Allowed : Shows(r, result.kind)
      <3>1. /\ result.reps = {r.mime : r \in Range(Left(item, settings))}
            /\ Link => "links" \in settings.enabled
        BY <2>1, KeptIs
      <3> QED
        BY <2>1, <3>1, LeftIs, ShownIs
    <2> QED
      BY <2>1, RefusedIs DEF KeptByCategory
  <1> QED
    BY <1>1, Invariance, PTL
=============================================================================
