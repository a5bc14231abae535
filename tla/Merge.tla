-------------------------------- MODULE Merge --------------------------------
(***************************************************************************)
(* Composition of configurations, internal/server/merge/merge.go: overlays *)
(* are merged one after the other into a base.  Go ranges over a map in an *)
(* order it picks anew each time, so the keys of an overlay are handled in *)
(* any order; the keys of a nested mapping are handled before the next key *)
(* of the mapping around it, as mergeOne calls itself.                     *)
(*                                                                         *)
(* A document is a function from paths (sequences of keys) to what is      *)
(* there: a scalar, an array or a mapping, whose values are one key        *)
(* further.  mergeOne puts values where they are in the overlay, so that a *)
(* path says where in either document.                                     *)
(*                                                                         *)
(* Abstracted: YAML's text (a document that is not a mapping is a scalar   *)
(* here, one that cannot be parsed as well) and Marshal, which cannot fail *)
(* on what Unmarshal made.                                                 *)
(***************************************************************************)
EXTENDS Naturals, Sequences, SequencesExt

CONSTANTS
  Keys,    \* of mappings: strings
  Items,   \* what scalars are and arrays consist of
  Jobs     \* bound: what is composed, [base, overlays]

VisualPatchKey == "x-metacubexd-visual-patch"

\* One of the three targets stands for all: the others are alike.
Target == "rules"
Prepend == "prepend-rules"
Append_ == "append-rules"
directives == {Prepend, Append_}

Paths == Seq(Keys)

Node == [kind : {"scalar", "array", "map"}, items : Seq(Items)]
Array(items) == [kind |-> "array", items |-> items]

IsPlainObject(doc, path) == path \in DOMAIN doc /\ doc[path].kind = "map"

\* Whatever has a place is in a mapping.
IsDocument(doc) ==
  /\ doc \in [DOMAIN doc -> Node]
  /\ DOMAIN doc \subseteq Paths
  /\ <<>> \in DOMAIN doc
  /\ \A p \in DOMAIN doc \ {<<>>} : IsPlainObject(doc, Front(p))

ASSUME MergeAssumption ==
  /\ directives \cup {Target, VisualPatchKey} \subseteq Keys
  /\ \A job \in Jobs :
       /\ IsDocument(job.base)
       /\ job.overlays \in Seq(ToSet(job.overlays))
       /\ \A overlay \in ToSet(job.overlays) : IsDocument(overlay)

VARIABLES
  acc,        \* the accumulator
  overlays,   \* the overlays still to be merged, the present one first
  todo,       \* paths into the present overlay still to be handled
  stage,      \* "next" overlay, "merging", "done" or "error"
  before      \* history: the accumulator when the present overlay was begun

mergeVars == <<acc, overlays, todo, stage, before>>

-----------------------------------------------------------------------------
(* Documents *)

Children(doc, path) == {p \in DOMAIN doc \ {<<>>} : Front(p) = path}

\* What is at a path and further on.
Below(doc, path) == {p \in DOMAIN doc : IsPrefix(path, p)}
Part(doc, path)  == [p \in Below(doc, path) |-> doc[p]]

\* The elements of an array, nothing of anything else (of a missing key, too).
asArray(doc, path) ==
  IF path \in DOMAIN doc /\ doc[path].kind = "array" THEN doc[path].items ELSE <<>>

\* acc[k] = v, for the value of another document or for a new array.
With(doc, path, part) ==
  [p \in (DOMAIN doc \ Below(doc, path)) \cup DOMAIN part |->
     IF p \in DOMAIN part THEN part[p] ELSE doc[p]]
OnlyArray(path, items) == [p \in {path} |-> Array(items)]

-----------------------------------------------------------------------------
(* MergeConfigs *)

\* The base is parsed first.
Parsed(base) == IF IsPlainObject(base, <<>>) THEN "next" ELSE "error"

MergeInit ==
  \E job \in Jobs :
    /\ acc = job.base
    /\ before = job.base
    /\ overlays = job.overlays
    /\ todo = {}
    /\ stage = Parsed(job.base)

\* The next overlay is parsed; one that is no mapping ends it all.
BeginOverlay ==
  /\ stage = "next" /\ overlays # <<>>
  /\ IF IsPlainObject(Head(overlays), <<>>)
       THEN stage' = "merging" /\ todo' = Children(Head(overlays), <<>>)
       ELSE stage' = "error" /\ UNCHANGED todo
  /\ before' = acc
  /\ UNCHANGED <<acc, overlays>>

\* Mutant of Nested: mappings inside of the overlay replace the base's.
Nested_Never(path) == FALSE

\* A key under which both sides have a mapping.
Nested(path) ==
  /\ Last(path) \notin directives \cup {VisualPatchKey}
  /\ IsPlainObject(acc, path) /\ IsPlainObject(Head(overlays), path)

\* What mergeOne does to the key a path ends in: strip it, splice it into its
\* target, go into the mapping that is there, or put it there.
Handled(path) ==
  LET key    == Last(path)
      new    == asArray(Head(overlays), path)
      target == Append(Front(path), Target)
      old    == asArray(acc, target)
  IN CASE key = VisualPatchKey -> acc
       [] key = Prepend -> With(acc, target, OnlyArray(target, new \o old))
       [] key = Append_ -> With(acc, target, OnlyArray(target, old \o new))
       [] Nested(path)  -> acc
       [] OTHER         -> With(acc, path, Part(Head(overlays), path))

\* Everything the present key called mergeOne for comes before the next key.
mergeOne ==
  /\ stage = "merging"
  /\ \E path \in todo :
       /\ \A other \in todo : Len(other) <= Len(path)
       /\ acc' = Handled(path)
       /\ todo' = (todo \ {path}) \cup
                    (IF Nested(path) THEN Children(Head(overlays), path) ELSE {})
  /\ UNCHANGED <<overlays, stage, before>>

EndOverlay ==
  /\ stage = "merging" /\ todo = {}
  /\ overlays' = Tail(overlays)
  /\ stage' = "next"
  /\ UNCHANGED <<acc, todo, before>>

Marshal ==
  /\ stage = "next" /\ overlays = <<>>
  /\ stage' = "done"
  /\ UNCHANGED <<acc, overlays, todo, before>>

MergeNext == BeginOverlay \/ mergeOne \/ EndOverlay \/ Marshal

MergeSpec == MergeInit /\ [][MergeNext]_mergeVars

-----------------------------------------------------------------------------
(* Properties *)

Used(overlay, level) ==
  {d \in directives : Append(level, d) \in DOMAIN overlay}

\* The keys that are merged, below a path.
Own(overlay, level) ==
  {p \in Children(overlay, level) : Last(p) \notin directives \cup {VisualPatchKey}}

\* The mappings that both documents have and that are merged key by key.
Shared(base, overlay) ==
  {level \in DOMAIN overlay :
     \A p \in DOMAIN overlay : IsPrefix(p, level) =>
       /\ IsPlainObject(base, p) /\ IsPlainObject(overlay, p)
       /\ p # <<>> => /\ Last(p) \notin directives \cup {VisualPatchKey}
                      /\ Last(p) = Target => Used(overlay, Front(p)) = {}}

\* What directives make of an array.
Spliced(late, overlay, level, items) ==
  (IF Prepend \in late THEN asArray(overlay, Append(level, Prepend)) ELSE <<>>)
    \o items \o
  (IF Append_ \in late THEN asArray(overlay, Append(level, Append_)) ELSE <<>>)

\* The documented meaning of one mapping of an overlay, without an order.  A key
\* that is no directive is merged if both sides are mappings and put as a whole
\* otherwise; the rest of the base stays, and the level's own directives and
\* patches are not put.  What is put as a whole is put with all that is in it.
KeyAgrees(out, base, overlay, level, p) ==
  IF p \notin Own(overlay, level) THEN Part(out, p) = Part(base, p)
  ELSE IF IsPlainObject(base, p) /\ IsPlainObject(overlay, p)
    THEN IsPlainObject(out, p)
    ELSE Part(out, p) = Part(overlay, p)

\* A target is the base's array between what is to be prepended and appended.
\* The exception: an overlay with a directive and with its target, which
\* replaces the base's array before or after any of the directives are obeyed.
TargetAgrees(out, base, overlay, level, target, used) ==
  IF target \notin Own(overlay, level)
  THEN Part(out, target) =
         OnlyArray(target, Spliced(used, overlay, level, asArray(base, target)))
  ELSE \/ Part(out, target) = Part(overlay, target)
       \/ \E late \in (SUBSET used) \ {{}} :
            Part(out, target) =
              OnlyArray(target, Spliced(late, overlay, level, asArray(overlay, target)))

Agrees(out, base, overlay, level) ==
  LET target == Append(level, Target)
      used   == Used(overlay, level)
  IN /\ IsPlainObject(out, level)
     /\ \A p \in UNION {Children(doc, level) : doc \in {out, base, overlay}} :
          p # target \/ used = {} => KeyAgrees(out, base, overlay, level, p)
     /\ used # {} => TargetAgrees(out, base, overlay, level, target, used)

\* "These keys are NEVER emitted" (merge.go 37-38), and a patch is stripped, with
\* one exception: those inside of a mapping that is not merged into one of the
\* base but put as a whole come out with it.  Those of the base stay in any case.
DirectivesStayOut(out, base, overlay) ==
  \A p \in DOMAIN out \ (DOMAIN base \cup {<<>>}) :
    Last(p) \in directives \cup {VisualPatchKey} => Front(p) \notin Shared(base, overlay)

\* Whatever the order of the keys, an overlay does what is documented, at every
\* level where it is merged, no directive comes out of it but inside of what is
\* put as a whole, and what comes out is a document (merge.go 112-141).
MergesAsDocumented ==
  /\ IsDocument(acc)
  /\ stage = "merging" /\ todo = {} =>
       /\ \A level \in Shared(before, Head(overlays)) :
            Agrees(acc, before, Head(overlays), level)
       /\ DirectivesStayOut(acc, before, Head(overlays))
=============================================================================
