------------------------------- MODULE Render --------------------------------
(***************************************************************************)
(* A render of one tab (src/crates/se-serve/src/lib.rs, render_tab and     *)
(* render_pass): the scripts of the document are collected, the external   *)
(* ones fetched, all are run in one eval, and the address at which they    *)
(* leave the page is followed.  What Tabs abstracts is here: which scripts *)
(* run, and what the caller is told about those that did not.              *)
(***************************************************************************)
EXTENDS Document

CONSTANTS
  DocTags,      \* what documents are made of, of Tags
  MaxNodes,     \* bound of the model: the size of a document
  MaxExternals, \* scripts fetched for one document (8)
  MaxErrors,    \* reasons the caller is told (5)
  MaxHops       \* navigations followed (10)

ASSUME DocTagsOK == DocTags \subseteq Tags
ASSUME LimitsOK == MaxExternals \in Nat /\ MaxErrors \in Nat \ {0} /\ MaxHops \in Nat

VARIABLES
  doc,       \* the document of the tab
  phase,     \* where the render is
  units,     \* scripts of the pass that are not fetched yet
  externals, \* external scripts of the pass so far
  sources,   \* scripts of the pass that are there to be run
  pass,      \* RenderStats of the pass
  total,     \* RenderStats of the render
  hops,      \* navigations followed
  told,      \* history: script elements of all documents, and how many ran clean
  faults     \* history: the tab was gone, the eval failed, or a listener threw

vars == << doc, phase, units, externals, sources, pass, total, hops, told, faults >>

NoStats == [scripts |-> 0, skipped |-> 0, errors |-> <<>>, count |-> 0]

Init ==
  /\ doc = <<>> /\ phase = "loading"
  /\ units = <<>> /\ externals = 0 /\ sources = <<>>
  /\ pass = NoStats /\ total = NoStats /\ hops = 0
  /\ told = [elements |-> 0, clean |-> 0] /\ faults = FALSE

Truncated(errors, n) == SubSeq(errors, 1, IF Len(errors) < n THEN Len(errors) ELSE n)

Skip(stats) == [stats EXCEPT !.skipped = @ + 1, !.errors = Append(@, "skipped")]

\* The document: each node comes below one on the path to the last.
AddNode ==
  /\ phase = "loading" /\ Len(doc) < MaxNodes
  /\ IF doc = <<>> THEN doc' = << [tag |-> "body", parent |-> 0] >>
     ELSE \E p \in Above(doc, Len(doc)), t \in DocTags :
            /\ doc[p].tag \in {"body", "block", "hidden", "span", "svg"}
            /\ doc' = Append(doc, [tag |-> t, parent |-> p])
  /\ UNCHANGED << phase, units, externals, sources, pass, total, hops, told, faults >>

\* render_pass: the tab is read and its scripts collected.
Collect ==
  /\ phase = "loading" /\ doc # <<>>
  /\ phase' = "fetching"
  /\ units' = Scripts(doc) /\ externals' = 0 /\ sources' = <<>>
  /\ LET skips == SkippedScripts(doc)
     IN pass' = [NoStats EXCEPT !.skipped = skips, !.errors = [i \in 1..skips |-> "skipped"]]
  /\ told' = [told EXCEPT !.elements = @ + Cardinality(ScriptElements(doc))]
  /\ UNCHANGED << doc, total, hops, faults >>

\* The tab has been closed.
NoTab ==
  /\ phase = "loading" /\ doc # <<>>
  /\ phase' = "done"
  /\ total' = [total EXCEPT !.errors = Truncated(Append(@, "no tab"), MaxErrors)]
  /\ faults' = TRUE
  /\ UNCHANGED << doc, units, externals, sources, pass, hops, told >>

\* MUTANT of FetchUnit: a script beyond the cap is dropped without a word.
FetchUnitSilently ==
  /\ phase = "fetching" /\ units # <<>>
  /\ units' = Tail(units)
  /\ externals' = externals + IF Head(units) = "external script" THEN 1 ELSE 0
  /\ IF externals' > MaxExternals THEN UNCHANGED << sources, pass >>
     ELSE \/ sources' = Append(sources, Head(units)) /\ UNCHANGED pass
          \/ Head(units) = "external script" /\ pass' = Skip(pass) /\ UNCHANGED sources
  /\ UNCHANGED << doc, phase, total, hops, told, faults >>

\* The next script: an inline one is there, an external one is fetched unless the
\* cap is reached.  Another status, too long a body or an error skips it.
FetchUnit ==
  /\ phase = "fetching" /\ units # <<>>
  /\ units' = Tail(units)
  /\ LET script == Head(units)
     IN /\ externals' = IF script = "external script" THEN externals + 1 ELSE externals
        /\ \/ /\ script = "inline script" \/ externals' <= MaxExternals
              /\ sources' = Append(sources, script) /\ UNCHANGED pass
           \/ /\ script = "external script"
              /\ pass' = Skip(pass) /\ UNCHANGED sources
  /\ UNCHANGED << doc, phase, total, hops, told, faults >>

\* What a pass adds to the render; the reasons are cut, their number is not.
Add(stats) ==
  [scripts |-> total.scripts + stats.scripts, skipped |-> total.skipped + stats.skipped,
   errors |-> total.errors \o Truncated(stats.errors, MaxErrors), count |-> total.count + Len(stats.errors)]

\* The render is over, without a reason of its own.
Finish(stats) == phase' = "done" /\ total' = [stats EXCEPT !.errors = Truncated(@, MaxErrors)]

\* No script to run.
NothingToRun ==
  /\ phase = "fetching" /\ units = <<>> /\ sources = <<>>
  /\ Finish(Add(pass))
  /\ UNCHANGED << doc, units, externals, sources, pass, hops, told, faults >>

\* The harness has run the scripts one by one: some failed, and a listener of
\* DOMContentLoaded may have thrown.  Errors are counted as scripts that failed.
Ran(failed, threw) ==
  LET n == Len(sources)
      errs == failed + IF threw THEN 1 ELSE 0
  IN [pass EXCEPT !.scripts = IF n > errs THEN n - errs ELSE 0, !.skipped = @ + errs,
                  !.errors = @ \o [i \in 1..errs |-> "failed"]]

\* The eval, and the address it left the page at: the tab's own or another one.
Eval ==
  /\ phase = "fetching" /\ units = <<>> /\ sources # <<>>
  /\ \/ \E failed \in 0..Len(sources), threw \in BOOLEAN :
          /\ total' = Add(Ran(failed, threw))
          /\ told' = [told EXCEPT !.clean = @ + Len(sources) - failed]
          /\ faults' = (faults \/ threw)
     \/ /\ total' = Add([pass EXCEPT !.errors = Append(@, "eval failed")])
        /\ faults' = TRUE
        /\ UNCHANGED told
  /\ phase' \in {"stays", "navigates"}
  /\ UNCHANGED << doc, units, externals, sources, pass, hops >>

\* The page is where it was, or the tab has gone.
Stays ==
  /\ phase \in {"stays", "navigates"}
  /\ Finish(total)
  /\ UNCHANGED << doc, units, externals, sources, pass, hops, told, faults >>

\* MUTANT of Cut: the reasons are cut to the cap before the last one is added.
CutFull(errors) == Append(Truncated(errors, MaxErrors), "terminal")

\* The reason why a navigation was not followed keeps the last place.
Cut(errors) == Append(Truncated(errors, MaxErrors - 1), "terminal")

\* The budget is used up, or the navigation is refused or fails.
GivesUp ==
  /\ phase = "navigates"
  /\ phase' = "given up"
  /\ total' = [total EXCEPT !.errors = Cut(@)]
  /\ UNCHANGED << doc, units, externals, sources, pass, hops, told, faults >>

\* The navigation is followed; the next document is rendered in turn.
Follows ==
  /\ phase = "navigates" /\ hops < MaxHops
  /\ phase' = "loading" /\ doc' = <<>> /\ hops' = hops + 1
  /\ UNCHANGED << units, externals, sources, pass, total, told, faults >>

Next == AddNode \/ Collect \/ NoTab \/ FetchUnit \/ NothingToRun \/ Eval \/ Stays \/ GivesUp \/ Follows

Spec == Init /\ [][Next]_vars

---------------------------------------------------------------------------
(* Properties.                                                              *)

\* The caller can account for every script element of every document rendered:
\* it ran, or it was skipped and counted among the reasons, whatever the caps cut
\* ("every skipped script is reported in render_errors, never silently dropped").
\* A pass without a tab, an eval that fails as a whole and a listener that throws
\* are counted otherwise.
ScriptsAccountedFor ==
  phase \in {"done", "given up"} /\ ~ faults =>
    /\ total.scripts + total.skipped = told.elements
    /\ total.count = total.skipped
    /\ total.scripts = told.clean

\* At most MaxErrors reasons, and the one for a navigation that was not followed
\* is the last of them ("a terminal token must survive the error-cap truncate").
TerminalReasonSurvives ==
  /\ phase \in {"done", "given up"} => Len(total.errors) <= MaxErrors
  /\ phase = "given up" => Last(total.errors) = "terminal"

\* read_snapshot lists exactly the elements of the subtree it is asked for with
\* nothing hidden and no picture above them in it, in document order, at the depth of their listed
\* ancestors.
SnapshotListsVisible ==
  phase = "fetching" =>
    \A selected \in {0} \cup {n \in DOMAIN doc : doc[n].tag # "text"} :
      LET visible == Visible(doc, IF selected = 0 THEN 1 ELSE selected)
          order == InOrder(visible)
      IN ReadSnapshot(doc, selected) =
           [i \in DOMAIN order |->
              [node |-> order[i], depth |-> Cardinality(Above(doc, order[i]) \cap visible) - 1]]

\* read_text of an element, or of the body, is its rendered words in order, a newline
\* between two words where a line ends and a space where none does.
TextBreaksAtBlocks ==
  phase = "fetching" =>
    \A selected \in {0} \cup {n \in DOMAIN doc : doc[n].tag # "text"} :
      LET root == IF selected = 0 THEN 1 ELSE selected
          words == InOrder({n \in Rendered(doc, root) : doc[n].tag = "text"})
      IN ReadText(doc, selected) =
           [i \in 1..(IF words = <<>> THEN 0 ELSE 2 * Len(words) - 1) |->
              IF i % 2 = 1 THEN words[(i + 1) \div 2]
              ELSE IF LineEnds(doc, root, words[i \div 2], words[i \div 2 + 1]) THEN Newline ELSE Space]
=============================================================================
