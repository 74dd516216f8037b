------------------------------- MODULE Page -------------------------------
(***************************************************************************)
(* The page one evaluation of script sees: the document (se-dom, and       *)
(* State::doc / State::html of se-js/src/bridge.rs), the element wrappers  *)
(* script holds on it, the listener registry, and the session history.     *)
(*                                                                         *)
(* A node is a slot of the parser's arena.  Its number is the identity the *)
(* wrappers keep; "born" tells which node it really is, and is the model's *)
(* own.  Markup is a tree in document order: a sequence of nodes of which  *)
(* the first is the top.  Of a node's data the model keeps its tag (html,  *)
(* a bare table row, or any element that may stand in any other), its id   *)
(* attribute and one value standing for the other attributes and the text; *)
(* head and body are left out.                                             *)
(***************************************************************************)
EXTENDS Integers, Sequences, FiniteSets, SequencesExt

CONSTANTS
  Names,        \* values of the id attribute
  Values,       \* what script writes
  Urls,         \* where script navigates
  Callbacks,    \* its event listeners
  Original,     \* the document the evaluation starts from, as markup
  MaxCalls,     \* calls of the script into the bridge (a bound of the model)
  MaxNodes      \* slots of the arena (a bound of the model)

None == "none"

VARIABLES
  html,         \* State::html
  doc,          \* State::doc: the arena, or << >> when it was dropped
  mutated,      \* State::mutated: the tab will be given this html
  elements,     \* State::elements: what each wrapper knows
  listeners,    \* State::listeners
  due,          \* the phases a dispatch in progress has still to run
  stack, states, pos, \* State::history_stack, history_states and history_pos
  url,          \* State::page_url
  births,       \* nodes made so far
  dropped,      \* a tree was taken out and not put back
  panicked,     \* the process has gone down
  calls         \* calls made so far

textVars == << html, mutated, births, dropped, panicked >>
docVars == << doc, textVars >>
eventVars == << listeners, due >>
historyVars == << stack, states, pos, url >>
vars == << docVars, elements, eventVars, historyVars, calls >>

---------------------------------------------------------------------------
(* Trees.                                                                   *)

\* x and what is above it.  A detached node has no node above it: its "up" is -1.
Ancestors(d, x) ==
  LET above[y \in DOMAIN d] == {y} \cup (IF d[y].up < 1 THEN {} ELSE above[d[y].up])
  IN above[x]

\* The nodes a query of the document looks at, in the order of the arena: all that
\* have a node above them, be it the document's or one that was detached itself.
Parented(d) == {x \in DOMAIN d : d[x].up # -1}

\* Children are only ever appended, so siblings are in the order of their slots:
\* x comes before what is below it, and before y if it is below an elder sibling
\* of y or of what y is below.
Before(d, x, y) ==
  LET overX == Ancestors(d, x)  overY == Ancestors(d, y)
  IN \/ x \in overY \ {y}
     \/ \E a \in overX, b \in overY : d[a].up = d[b].up /\ d[a].up >= 1 /\ a < b

\* Node::html: the subtree of x as markup.
Markup(d, x) ==
  LET below == {y \in DOMAIN d : x \in Ancestors(d, y)}
      place(y) == Cardinality({z \in below : Before(d, z, y)}) + 1
      order == [i \in 1..Cardinality(below) |-> CHOOSE y \in below : place(y) = i]
  IN [i \in DOMAIN order |->
        [d[order[i]] EXCEPT !.up = IF i = 1 THEN 0 ELSE place(@)]]

\* The nodes of the page: what the page was parsed from, and what script writes.
Slots == [up : Int, tag : {"html", "div", "tr"}, name : Names \cup {None},
          value : Values \cup {Original[x].value : x \in DOMAIN Original}, born : Int]

\* One tree in document order: a node is below an earlier one, only the first below none.
IsMarkup(m) ==
  /\ m \in Seq(Slots) /\ m # <<>>
  /\ \A x \in DOMAIN m : m[x].up \in IF x = 1 THEN {0} ELSE 1..(x - 1)
  /\ Markup(m, 1) = m

ASSUME OriginalIsMarkup == IsMarkup(Original)

\* parse_fragment.  The tags of html and of a row have no place in a fragment: the
\* parser skips them and goes on with what is in them, which may be nothing.  Nothing
\* else is above them in any markup that is parsed.
Fragment(markup) ==
  LET skipped == Cardinality({x \in DOMAIN markup : markup[x].tag # "div"})
  IN [i \in 1..(Len(markup) - skipped) |->
        [markup[i + skipped] EXCEPT !.up = IF @ <= skipped THEN 0 ELSE @ - skipped]]

\* graft_fragment: the copy's nodes are new nodes.
Graft(d, fragment, under) ==
  d \o [i \in DOMAIN fragment |->
          [fragment[i] EXCEPT !.up = IF @ = 0 THEN under ELSE @ + Len(d),
                              !.born = births + i]]

DetachChildren(d, x) == [y \in DOMAIN d |-> IF d[y].up = x THEN [d[y] EXCEPT !.up = -1] ELSE d[y]]

Detach(d, x) == [d EXCEPT ![x].up = -1]

\* set_attr and remove_attr: new has the attribute that changes.
WithAttribute(d, x, new) ==
  [d EXCEPT ![x] = [f \in DOMAIN @ |-> IF f \in DOMAIN new THEN new[f] ELSE @[f]]]

\* The node that select_one("#name") finds.
First(d, name) ==
  CHOOSE x \in Parented(d) : /\ d[x].name = name
                             /\ \A y \in Parented(d) : d[y].name = name => x <= y

---------------------------------------------------------------------------
(* Wrappers.                                                                *)

\* ElementData::from_node: the identity, the element's tag and attributes, and as its
\* html the markup of the whole element.  What script gives a wrapper off the
\* document as its innerHTML, its stash, is no part of that.
FromNode(d, x) ==
  [node |-> x, top |-> [d[x] EXCEPT !.up = 0], html |-> Markup(d, x), stash |-> <<>>]

\* document.createElement, and matches inside an element: no identity.
Synthetic(top, markup) == [node |-> 0, top |-> top, html |-> markup, stash |-> <<>>]

\* to_outer_html_with: the tag and the attributes around the html, or the stash.
Outer(e) ==
  LET inner == IF e.stash # <<>> THEN e.stash ELSE e.html
  IN <<e.top>> \o [i \in DOMAIN inner |-> [inner[i] EXCEPT !.up = @ + 1]]

Node(tag, name, value) == [up |-> 0, tag |-> tag, name |-> name, value |-> value, born |-> 0]

\* State::doc(): parse on first use, or again when the tree was dropped.
Doc == IF doc = <<>> THEN html ELSE doc

Resolves(d, w) == elements[w].node \in DOMAIN d

\* No dispatch is in progress.
Ran == [phases |-> <<>>, stoppable |-> FALSE]

Init ==
  /\ html = Original /\ doc = <<>> /\ mutated = FALSE /\ births = Len(Original)
  /\ elements = <<>> /\ listeners = <<>> /\ due = Ran
  /\ url \in Urls /\ stack = <<url>> /\ states = <<None>> /\ pos = 1
  /\ dropped = FALSE /\ panicked = FALSE /\ calls = 0

Calls == ~ panicked /\ calls < MaxCalls /\ calls' = calls + 1

\* querySelector and querySelectorAll of the document, getElementById, body: a new
\* wrapper on a node that select walks over.
Find ==
  /\ Calls
  /\ doc' = Doc
  /\ \E x \in Parented(Doc) : elements' = Append(elements, FromNode(Doc, x))
  /\ UNCHANGED << textVars, eventVars, historyVars >>

\* documentElement.
FindTop ==
  /\ Calls
  /\ doc' = Doc
  /\ elements' = Append(elements, FromNode(Doc, 1))
  /\ UNCHANGED << textVars, eventVars, historyVars >>

\* parentElement: neither the top nor a detached element has one.
FindParent ==
  /\ Calls
  /\ doc' = Doc
  /\ \E w \in DOMAIN elements :
       /\ elements[w].node # 0 /\ Resolves(Doc, w)
       /\ Doc[elements[w].node].up >= 1
       /\ elements' = Append(elements, FromNode(Doc, Doc[elements[w].node].up))
  /\ UNCHANGED << textVars, eventVars, historyVars >>

\* closest goes up from the wrapper's node, on the document or off.
FindAbove ==
  /\ Calls
  /\ doc' = Doc
  /\ \E w \in DOMAIN elements :
       /\ elements[w].node # 0 /\ Resolves(Doc, w)
       /\ \E x \in Ancestors(Doc, elements[w].node) : elements' = Append(elements, FromNode(Doc, x))
  /\ UNCHANGED << textVars, eventVars, historyVars >>

\* querySelector of an element searches a copy of it, parsed as a fragment.
FindWithin ==
  /\ Calls
  /\ doc' = Doc
  /\ \E w \in DOMAIN elements :
       /\ elements[w].node # 0 /\ Resolves(Doc, w)
       /\ LET copy == Fragment(Markup(Doc, elements[w].node))
          IN \E x \in DOMAIN copy :
               elements' = Append(elements, Synthetic([copy[x] EXCEPT !.up = 0], Markup(copy, x)))
  /\ UNCHANGED << textVars, eventVars, historyVars >>

CreateElement ==
  /\ Calls
  /\ \E tag \in {"div", "tr"}, v \in Values :
       elements' = Append(elements, Synthetic(Node(tag, None, v), <<>>))
  /\ UNCHANGED << docVars, eventVars, historyVars >>

---------------------------------------------------------------------------
(* Mutations.                                                               *)

At(w) == elements[w].node
OnTree(w) == At(w) # 0

\* State::mutate fails for a wrapper without identity or whose number leads nowhere.
Lands(w) == OnTree(w) /\ Resolves(Doc, w)

\* MUTANT of Mutate: the tree is parsed again after each change.
MutateReparsing(d) ==
  /\ doc' = Markup(d, 1) /\ html' = Markup(d, 1) /\ mutated' = TRUE
  /\ births' = births + Len(d) - Len(Doc)
  /\ UNCHANGED << dropped, panicked >>

\* MUTANT of Mutate: the change is not marked for the tab.
MutateUnlatched(d) ==
  /\ doc' = d /\ html' = Markup(d, 1)
  /\ births' = births + Len(d) - Len(Doc)
  /\ UNCHANGED << mutated, dropped, panicked >>

\* The tree, changed at a wrapper's node into d, is serialized.
Mutate(d) ==
  /\ doc' = d /\ html' = Markup(d, 1) /\ mutated' = TRUE
  /\ births' = births + Len(d) - Len(Doc)
  /\ UNCHANGED << dropped, panicked >>

\* The tree was taken out to be changed, and is not put back.
Misses(w) ==
  /\ doc' = IF OnTree(w) THEN <<>> ELSE doc
  /\ dropped' = (dropped \/ OnTree(w))
  /\ UNCHANGED << html, mutated, births, panicked >>

\* There is nothing left to serialize.
Panics ==
  /\ doc' = <<>> /\ dropped' = TRUE /\ panicked' = TRUE
  /\ UNCHANGED << html, mutated, births >>

\* The wrapper is read again, from x.
Reread(w, x) ==
  elements' = [elements EXCEPT ![w] = [FromNode(doc', x) EXCEPT !.stash = elements[w].stash]]

\* resnapshot_after_mutate: the wrapper is read again where its id selector
\* leads; a wrapper whose snapshot has no id stays as it was.
Resnapshot(w) ==
  LET name == elements[w].top.name
  IN IF name # None /\ \E x \in Parented(doc') : doc'[x].name = name
     THEN Reread(w, First(doc', name))
     ELSE UNCHANGED elements

Room(n) == Len(Doc) + n <= MaxNodes

\* What a wrapper off the document is given is kept on it until appendChild.
Keep(w, e) == elements' = [elements EXCEPT ![w] = e] /\ Misses(w)

SetInnerHtml ==
  /\ Calls
  /\ \E w \in DOMAIN elements, name \in Names \cup {None}, v \in Values :
       LET markup == <<Node("div", name, v)>>
       IN IF Lands(w)
          THEN /\ Room(1)
               /\ Mutate(Graft(DetachChildren(Doc, At(w)), Fragment(markup), At(w)))
               /\ Resnapshot(w)
          ELSE Keep(w, [elements[w] EXCEPT !.stash = markup])
  /\ UNCHANGED << eventVars, historyVars >>

\* Text off the document replaces the html; a stash goes on hiding it.
SetTextContent ==
  /\ Calls
  /\ \E w \in DOMAIN elements, v \in Values :
       IF Lands(w)
       THEN /\ Mutate(WithAttribute(DetachChildren(Doc, At(w)), At(w), [value |-> v]))
            /\ Resnapshot(w)
       ELSE /\ elements[w].top.tag # "tr"   \* BOUND: a row has no text
            /\ Keep(w, [elements[w] EXCEPT !.html = <<>>,
                                           !.top.value = IF elements[w].stash = <<>> THEN v ELSE @])
  /\ UNCHANGED << eventVars, historyVars >>

\* appendChild grafts a copy of what the child's wrapper is as markup; it is refused
\* if the parser finds nothing in it.
AppendChild ==
  /\ Calls
  /\ \E w, c \in DOMAIN elements :
       LET fragment == Fragment(Outer(elements[c]))
       IN IF Lands(w) /\ fragment # <<>>
          THEN /\ Room(Len(fragment))
               /\ Mutate(Graft(Doc, fragment, At(w)))
               /\ Resnapshot(w)
          ELSE Misses(w) /\ UNCHANGED elements
  /\ UNCHANGED << eventVars, historyVars >>

\* appendChild of a text node.
AppendText ==
  /\ Calls
  /\ \E w \in DOMAIN elements, v \in Values :
       IF Lands(w) THEN Mutate(WithAttribute(Doc, At(w), [value |-> v])) /\ Resnapshot(w)
                   ELSE Misses(w) /\ UNCHANGED elements
  /\ UNCHANGED << eventVars, historyVars >>

\* setAttribute and removeAttribute, of the id or of another attribute: the wrapper
\* is read again through its node.
SetAttribute ==
  /\ Calls
  /\ \E w \in DOMAIN elements,
        new \in [name : Names \cup {None}] \cup [value : Values] :
       IF Lands(w)
       THEN Mutate(WithAttribute(Doc, At(w), new)) /\ Reread(w, At(w))
       ELSE Keep(w, [elements[w] EXCEPT !.top = WithAttribute(<<@>>, 1, new)[1]])
  /\ UNCHANGED << eventVars, historyVars >>

\* remove detaches the subtree; its slots and its wrappers stay.  Without
\* documentElement there is no html to serialize.
RemoveElement ==
  /\ Calls
  /\ \E w \in DOMAIN elements :
       \/ Lands(w) /\ At(w) # 1 /\ Mutate(Detach(Doc, At(w)))
       \/ Lands(w) /\ At(w) = 1 /\ Panics
       \/ ~ Lands(w) /\ Misses(w)
  /\ UNCHANGED << elements, eventVars, historyVars >>

---------------------------------------------------------------------------
(* Events.                                                                  *)

Window == <<"window">>
Document == <<"document">>
Element(w) == <<"element", w>>
Targets == {Window, Document} \cup {Element(w) : w \in DOMAIN elements}

\* The same listener is registered once.
AddEventListener ==
  /\ Calls
  /\ \E t \in Targets, ty \in {"click", "popstate"}, cb \in Callbacks, capture \in BOOLEAN :
       LET l == [on |-> t, type |-> ty, cb |-> cb, capture |-> capture]
       IN listeners' = IF \E i \in DOMAIN listeners : listeners[i] = l THEN listeners
                                                                     ELSE Append(listeners, l)
  /\ UNCHANGED << docVars, elements, historyVars, due >>

RemoveEventListener ==
  /\ Calls
  /\ \E i \in DOMAIN listeners : listeners' = RemoveAt(listeners, i)
  /\ UNCHANGED << docVars, elements, historyVars, due >>

Pick(t, ty, when) == SelectSeq(listeners, LAMBDA l : l.on = t /\ l.type = ty /\ l.capture \in when)

Either == {TRUE, FALSE}
Capturing == {TRUE}
Bubbling == {FALSE}

\* event_phases: what is registered now, in the order it will run.  Nothing on
\* the way from the target up to the window is asked.
Phases(t, ty, bubbles) ==
  IF t = Window THEN <<Pick(t, ty, Either)>>
  ELSE <<Pick(Window, ty, Capturing), Pick(t, ty, Either)>>
       \o (IF bubbles THEN <<Pick(Window, ty, Bubbling)>> ELSE <<>>)

\* el.click(): a click always goes by way of the document too.
ClickPhases(w) ==
  << Pick(Window, "click", Capturing), Pick(Element(w), "click", Either),
     Pick(Document, "click", Either), Pick(Window, "click", Bubbling) >>

Begins(phases, stoppable) ==
  due' = [phases |-> SelectSeq(phases, LAMBDA p : p # <<>>), stoppable |-> stoppable]

Idle == due.phases = <<>>

DispatchEvent ==
  /\ Calls /\ Idle
  /\ \E t \in Targets, bubbles \in BOOLEAN : Begins(Phases(t, "click", bubbles), TRUE)
  /\ UNCHANGED << docVars, elements, historyVars, listeners >>

Click(w) ==
  /\ Calls /\ Idle
  /\ Begins(ClickPhases(w), FALSE)
  /\ UNCHANGED << docVars, elements, historyVars, listeners >>

\* run_event_phases: call the next listener, which may stop the event.  The
\* events the bridge makes itself (click, popstate) cannot be stopped.
RunListener ==
  /\ ~ panicked /\ ~ Idle
  /\ LET phase == Head(due.phases)
         rest  == IF Len(phase) = 1 THEN Tail(due.phases)
                  ELSE <<Tail(phase)>> \o Tail(due.phases)
         phaseOnly == IF Len(phase) = 1 THEN <<>> ELSE <<Tail(phase)>>
     IN \E left \in {rest} \cup IF due.stoppable THEN {phaseOnly, <<>>} ELSE {} :
          due' = [due EXCEPT !.phases = left]
  /\ UNCHANGED << docVars, elements, historyVars, listeners, calls >>

---------------------------------------------------------------------------
(* History and location.                                                    *)

\* MUTANT of NavigateCore: the entries ahead lose their urls and keep their states.
NavigateCoreUntruncated(to, state, replace) ==
  /\ url' = to
  /\ IF replace
     THEN /\ stack' = [stack EXCEPT ![pos] = to]
          /\ states' = [states EXCEPT ![pos] = state]
          /\ pos' = pos
     ELSE /\ stack' = Append(SubSeq(stack, 1, pos), to)
          /\ states' = Append(states, state)
          /\ pos' = pos + 1

\* navigate_core: location moves, nothing is fetched.
NavigateCore(to, state, replace) ==
  /\ url' = to
  /\ IF replace
     THEN /\ stack' = [stack EXCEPT ![pos] = to]
          /\ states' = [states EXCEPT ![pos] = state]
          /\ pos' = pos
     ELSE /\ stack' = Append(SubSeq(stack, 1, pos), to)
          /\ states' = Append(SubSeq(states, 1, pos), state)
          /\ pos' = pos + 1

\* history.pushState and replaceState, whose state script chooses.
PushState ==
  /\ Calls
  /\ \E to \in Urls, state \in Values \cup {None}, replace \in BOOLEAN :
       NavigateCore(to, state, replace)
  /\ UNCHANGED << docVars, elements, eventVars >>

\* location.assign and replace.
LocationNavigate ==
  /\ Calls
  /\ \E to \in Urls, replace \in BOOLEAN : NavigateCore(to, None, replace)
  /\ UNCHANGED << docVars, elements, eventVars >>

\* location.href =, window.location = and the setters of the other parts, which
\* change one part of the url.
SetLocationPart ==
  /\ Calls
  /\ \E to \in Urls : NavigateCore(to, None, FALSE)
  /\ UNCHANGED << docVars, elements, eventVars >>

Clamp(p) == IF p < 1 THEN 1 ELSE IF p > Len(stack) THEN Len(stack) ELSE p

\* history.back, forward and go: a move that changes nothing fires nothing.
HistoryGo ==
  /\ Calls /\ Idle
  /\ \E delta \in -2..2 :
       LET new == Clamp(pos + delta)
       IN /\ new # pos
          /\ pos' = new /\ url' = stack[new]
             /\ Begins(Phases(Window, "popstate", FALSE), FALSE)
  /\ UNCHANGED << docVars, elements, listeners, stack, states >>

Next ==
  \/ Find \/ FindTop \/ FindParent \/ FindAbove \/ FindWithin \/ CreateElement
  \/ SetInnerHtml \/ SetTextContent \/ AppendChild \/ AppendText
  \/ SetAttribute \/ RemoveElement
  \/ AddEventListener \/ RemoveEventListener \/ DispatchEvent \/ RunListener
  \/ \E w \in DOMAIN elements : Click(w)
  \/ PushState \/ LocationNavigate \/ SetLocationPart \/ HistoryGo

Spec == Init /\ [][Next]_vars

---------------------------------------------------------------------------
(* Properties.                                                              *)

TypeOK ==
  /\ Len(doc) <= MaxNodes /\ births \in Nat
  /\ \A m \in {html, doc} : \A x \in DOMAIN m :
       /\ m[x].up \in -1..(x - 1)
       /\ m[x].born \in 1..births /\ m[x].name \in Names \cup {None}
  /\ \A w \in DOMAIN elements : elements[w].node \in 0..MaxNodes
  /\ \A i \in DOMAIN listeners : listeners[i].cb \in Callbacks
  /\ pos \in DOMAIN stack /\ ToSet(stack) \subseteq Urls /\ url \in Urls
  /\ {mutated, dropped, panicked} \subseteq BOOLEAN /\ calls \in 0..MaxCalls

\* What the tab is given is the document as script left it: the html kept beside
\* the tree is its serialization, and unchanged if nothing was mutated (State::mutate,
\* flush_writeback).
HtmlFollowsTree ==
  /\ doc # <<>> => html = Markup(doc, 1)
  /\ ~ mutated => html = Original

\* However the tree is changed around a wrapper, as long as no tree was dropped its
\* number goes on meaning the element it was last read from (State::mutate,
\* resnapshot_after_mutate, cb_set_attribute).
WrappersKeepTheirElement ==
  ~ dropped => \A w \in DOMAIN elements :
                 OnTree(w) /\ Resolves(Doc, w) => Doc[elements[w].node].born = elements[w].top.born

\* What resnapshot_after_mutate says of the selector it is given, that it matches
\* exactly the wrapper's element: reading a wrapper again never moves it to another
\* one.  Even while no two elements have the same id, it does when the wrapper's
\* element was replaced by one with its id.
WrappersAreNeverMoved ==
  [][\A w \in DOMAIN elements :
       /\ ~ dropped' /\ OnTree(w)
       /\ \A x, y \in Parented(doc') : doc'[x].name = doc'[y].name => doc'[x].name = None \/ x = y
       => elements'[w].top.born = elements[w].top.born]_vars

\* "The node is gone from every subsequent select": what a query of the document finds
\* is in the document.
QueriesSeeTheDocument ==
  [][Find => 1 \in Ancestors(doc', Last(elements').node)]_vars

\* A call of script never takes the process down.
NothingPanics == ~ panicked

\* However script pushes, replaces and moves, the url location answers is the
\* current entry's and every entry has a state of its own (navigate_core,
\* history_go_to).
HistoryCoherent ==
  url = stack[pos] /\ DOMAIN states = DOMAIN stack
=============================================================================
