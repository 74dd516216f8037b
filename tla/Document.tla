------------------------------ MODULE Document -------------------------------
(***************************************************************************)
(* What the engine reads out of a parsed document: the visible elements    *)
(* (read_snapshot), the text (read_text, innerText) and the scripts to run *)
(* (render).  A document is a sequence of nodes in document order; each    *)
(* has a tag and its parent, 0 for the root.  A text node's words are one  *)
(* word, and a node's attributes are part of its tag.                      *)
(***************************************************************************)
EXTENDS Integers, Sequences, FiniteSets, SequencesExt

ScriptTags == {"inline script", "external script", "module script", "bad script"}

\* Elements without box: nothing in them is text.
NoText == ScriptTags \cup {"style"}
\* Those and what is in them are not listed, nor is a picture: but what is in that
\* is text of the page ("svg", for a title as well; head, meta, link and base are
\* not below a body or have nothing in them).
NonRendering == NoText \cup {"svg"}
\* "hidden" is a block that an attribute or its style hides.
BlockTags == {"body", "block", "hidden"}
Tags == NonRendering \cup BlockTags \cup {"span", "br", "text"}

\* The places in a set of them, first to last.
InOrder(places) ==
  [k \in 1..Cardinality(places) |->
     CHOOSE i \in places : Cardinality({j \in places : j < i}) = k - 1]

Kids(doc, n) == InOrder({m \in DOMAIN doc : doc[m].parent = n})

---------------------------------------------------------------------------
(* read_snapshot                                                            *)

\* MUTANT of Pruned: a hidden element is left out, what is below it is not.
PrunedOnlyScripts(tag) == tag \in NonRendering

Pruned(tag) == tag \in NonRendering \cup {"hidden"}

\* walk: an element and then its children; the body is not listed itself, and
\* neither text nor what is below a pruned element.
Walk(doc, scope) ==
  LET walk[n \in DOMAIN doc] ==
        [depth \in Nat |->
           LET listed == doc[n].tag # "body"
               below == IF listed THEN depth + 1 ELSE depth
               kids == Kids(doc, n)
           IN IF doc[n].tag = "text" \/ Pruned(doc[n].tag) THEN <<>>
              ELSE (IF listed THEN << [node |-> n, depth |-> depth] >> ELSE <<>>)
                   \o FlattenSeq([i \in DOMAIN kids |-> walk[kids[i]][below]])]
  IN walk[scope][0]

\* The subtree of the element selected, even one in a hidden subtree, or all.
ReadSnapshot(doc, selected) == Walk(doc, IF selected = 0 THEN 1 ELSE selected)

---------------------------------------------------------------------------
(* read_text and inner_text                                                 *)

Space == 0
Newline == -1
Break == -2

\* MUTANT of Marks: a block only breaks the line where it begins.
MarksAtStart(doc, root) ==
  LET marks[n \in DOMAIN doc] ==
        LET kids == Kids(doc, n)
            edge == IF doc[n].tag \in BlockTags THEN <<Break>> ELSE <<>>
        IN CASE doc[n].tag = "text" -> <<n>>
             [] doc[n].tag = "br" -> <<Break>>
             [] doc[n].tag \in NoText -> <<>>
             [] OTHER -> edge \o FlattenSeq([i \in DOMAIN kids |-> marks[kids[i]]])
      kids == Kids(doc, root)
  IN FlattenSeq([i \in DOMAIN kids |-> marks[kids[i]]])

\* inner_text_node, in the order in which it comes to words and to line breaks.
\* Of the element that is asked only the children count.
Marks(doc, root) ==
  LET marks[n \in DOMAIN doc] ==
        LET kids == Kids(doc, n)
            edge == IF doc[n].tag \in BlockTags THEN <<Break>> ELSE <<>>
        IN CASE doc[n].tag = "text" -> <<n>>
             [] doc[n].tag = "br" -> <<Break>>
             [] doc[n].tag \in NoText -> <<>>
             [] OTHER -> edge \o FlattenSeq([i \in DOMAIN kids |-> marks[kids[i]]]) \o edge
      kids == Kids(doc, root)
  IN FlattenSeq([i \in DOMAIN kids |-> marks[kids[i]]])

\* One newline at a break, none at the start; a space between words of a line.
PutMark(out, mark) ==
  CASE mark = Break -> IF out = <<>> \/ Last(out) = Newline THEN out ELSE Append(out, Newline)
    [] OTHER -> IF out = <<>> \/ Last(out) = Newline THEN Append(out, mark)
                ELSE out \o << Space, mark >>

Put(marks) ==
  LET out[i \in 0..Len(marks)] == IF i = 0 THEN <<>> ELSE PutMark(out[i - 1], marks[i])
  IN out[Len(marks)]

InnerText(doc, root) ==
  LET out == Put(Marks(doc, root))
  IN IF out # <<>> /\ Last(out) = Newline THEN Front(out) ELSE out

\* Of the element selected, or of the body.
ReadText(doc, selected) == InnerText(doc, IF selected = 0 THEN 1 ELSE selected)

---------------------------------------------------------------------------
(* collect_scripts                                                          *)

ScriptElements(doc) == {n \in DOMAIN doc : doc[n].tag \in ScriptTags}
ToRun(doc) == {n \in DOMAIN doc : doc[n].tag \in {"inline script", "external script"}}

\* The scripts to run, in document order, inline or to be fetched; the rest is
\* skipped with a reason: another type, or a source that is no address.  A data:
\* URL that decodes is inline, one that does not is skipped.
Scripts(doc) ==
  [i \in DOMAIN InOrder(ToRun(doc)) |-> doc[InOrder(ToRun(doc))[i]].tag]

\* How many are skipped.
SkippedScripts(doc) == Cardinality({n \in DOMAIN doc : doc[n].tag \in {"module script", "bad script"}})

---------------------------------------------------------------------------
(* Reference definitions.                                                   *)

Above(doc, n) ==   \* n and its ancestors
  LET up[m \in DOMAIN doc] == {m} \cup IF doc[m].parent = 0 THEN {} ELSE up[doc[m].parent]
  IN up[n]

\* The elements of a subtree with nothing pruned on the way up to its top.
Visible(doc, top) ==
  {n \in DOMAIN doc :
     /\ top \in Above(doc, n) /\ doc[n].tag \notin {"text", "body"}
     /\ \A a \in Above(doc, n) \ (Above(doc, top) \ {top}) :
          doc[a].tag \notin NonRendering \cup {"hidden"}}

\* The nodes below root of which anything is rendered.
Rendered(doc, root) ==
  {n \in DOMAIN doc : n # root /\ root \in Above(doc, n)
     /\ \A a \in Above(doc, n) \ Above(doc, root) : doc[a].tag \notin NoText}

\* A line ends between words u and v: a line break, a block that begins, or one
\* around u that is not around v.
LineEnds(doc, root, u, v) ==
  \E b \in Rendered(doc, root) :
    \/ u < b /\ b < v /\ doc[b].tag \in BlockTags \cup {"br"}
    \/ doc[b].tag \in BlockTags /\ b \in Above(doc, u) \ Above(doc, v)
=============================================================================
