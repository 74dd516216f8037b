----------------------------- MODULE PageProofs -----------------------------
(***************************************************************************)
(* Proofs about Page, for every document, every set of ids, values and     *)
(* addresses and any number of calls and nodes.                            *)
(*                                                                         *)
(*  - Location, the history index and the states of the entries agree      *)
(*    (HistoryCoherent).  It is not inductive: a move to another entry     *)
(*    needs the index to be inside the list, and a push that cuts the list *)
(*    needs the states to be as long as it (Cursor).                       *)
(*  - The text the tab is given is the serialization of the tree           *)
(*    (HtmlFollowsTree), and a wrapper's number goes on meaning the node   *)
(*    it was last read from (WrappersKeepTheirElement).  A tree that was   *)
(*    dropped is parsed again from the text, so both rest on a fact about  *)
(*    data: parsing a serialization and serializing it again changes       *)
(*    nothing (MarkupIsMarkup).  The invariant adds that the text is such  *)
(*    markup, that what every wrapper knows can be grafted, that every     *)
(*    node of the tree is below an earlier one, and that, while no tree    *)
(*    was dropped, a wrapper with an identity is on a node of the tree,    *)
(*    which has been parsed (PageInv).                                     *)
(*                                                                         *)
(* The order of a document is defined on the sets of nodes above its       *)
(* nodes, and Ancestors is a recursive function: its equation holds on     *)
(* every arena because a node is below an earlier one (AncestorsAre), and  *)
(* what is proved by going up a tree is proved by looking at the first     *)
(* node for which it fails (FromTheTop).                                   *)
(***************************************************************************)
EXTENDS Page, FiniteSetTheorems, FunctionTheorems, SequenceTheorems,
        WellFoundedInduction, TLAPS

-----------------------------------------------------------------------------
(* The history.                                                             *)

Cursor ==
  /\ stack \in Seq(Urls) /\ states \in Seq(Values \cup {None})
  /\ Len(states) = Len(stack)
  /\ pos \in 1..Len(stack) /\ url = stack[pos]

-----------------------------------------------------------------------------
LEMMA CursorInit == Init => Cursor
BY DEF Init, Cursor

\* navigate_core: an entry is replaced, or added after the current one.
LEMMA NavigateCoreKeeps ==
  ASSUME Cursor, NEW to \in Urls, NEW state \in Values \cup {None}, NEW replace \in BOOLEAN,
         NavigateCore(to, state, replace)
  PROVE  Cursor'
<1>1. CASE replace
  BY <1>1 DEF Cursor, NavigateCore
<1>2. CASE ~ replace
  <2> DEFINE kept == SubSeq(stack, 1, pos)
             keptStates == SubSeq(states, 1, pos)
  <2>1. /\ kept \in Seq(Urls) /\ Len(kept) = pos
        /\ keptStates \in Seq(Values \cup {None}) /\ Len(keptStates) = pos
    BY DEF Cursor
  <2>2. stack' = Append(kept, to) /\ states' = Append(keptStates, state) /\ pos' = pos + 1 /\ url' = to
    BY <1>2 DEF NavigateCore
  <2>3. pos \in Nat
    BY DEF Cursor
  <2> HIDE DEF kept, keptStates
  <2> QED BY <2>1, <2>2, <2>3 DEF Cursor
<1> QED BY <1>1, <1>2

LEMMA PushStateKeeps == ASSUME Cursor, PushState PROVE Cursor'
BY NavigateCoreKeeps DEF PushState

LEMMA LocationKeeps == ASSUME Cursor, LocationNavigate \/ SetLocationPart PROVE Cursor'
BY NavigateCoreKeeps DEF LocationNavigate, SetLocationPart

LEMMA HistoryGoKeeps == ASSUME Cursor, HistoryGo PROVE Cursor'
<1>1. PICK delta \in -2..2 : pos' = Clamp(pos + delta) /\ url' = stack[Clamp(pos + delta)]
  BY DEF HistoryGo
<1>2. stack' = stack /\ states' = states
  BY DEF HistoryGo
<1>3. Clamp(pos + delta) \in 1..Len(stack)
  BY DEF Clamp, Cursor
<1> QED BY <1>1, <1>2, <1>3 DEF Cursor

\* Everything else a script does leaves the history alone.
LEMMA OthersKeep ==
  ASSUME Cursor, UNCHANGED historyVars
  PROVE  Cursor'
BY DEF Cursor, historyVars

LEMMA CursorNext == Cursor /\ [Next]_vars => Cursor'
<1> SUFFICES ASSUME Cursor, [Next]_vars PROVE Cursor'
  OBVIOUS
<1>1. CASE Find \/ FindTop \/ FindParent \/ FindAbove \/ FindWithin \/ CreateElement
  BY <1>1, OthersKeep DEF Find, FindTop, FindParent, FindAbove, FindWithin, CreateElement
<1>2. CASE SetInnerHtml
  BY <1>2, OthersKeep DEF SetInnerHtml
<1>3. CASE SetTextContent \/ AppendChild \/ AppendText \/ SetAttribute \/ RemoveElement
  BY <1>3, OthersKeep DEF SetTextContent, AppendChild, AppendText, SetAttribute, RemoveElement
<1>4. CASE AddEventListener \/ RemoveEventListener \/ DispatchEvent \/ RunListener
  BY <1>4, OthersKeep DEF AddEventListener, RemoveEventListener, DispatchEvent, RunListener
<1>5. CASE \E w \in DOMAIN elements : Click(w)
  BY <1>5, OthersKeep DEF Click
<1>6. CASE PushState \/ LocationNavigate \/ SetLocationPart \/ HistoryGo
  BY <1>6, PushStateKeeps, LocationKeeps, HistoryGoKeeps
<1>7. CASE UNCHANGED vars
  BY <1>7, OthersKeep DEF vars, historyVars
<1> QED BY <1>1, <1>2, <1>3, <1>4, <1>5, <1>6, <1>7 DEF Next

\* However script pushes, replaces and moves, the address location answers is the
\* current entry's and every entry has a state of its own.
THEOREM HistoryAlwaysCoherent == Spec => []HistoryCoherent
<1>1. Cursor => HistoryCoherent
  BY DEF Cursor, HistoryCoherent
<1> QED BY CursorInit, CursorNext, <1>1, PTL DEF Spec

-----------------------------------------------------------------------------
\* What is proved by induction is proved of the least number for which it fails.
LEMMA LeastNumber ==
  ASSUME NEW T, T \subseteq Nat, T # {}
  PROVE  \E n \in T : \A m \in T : n <= m
<1> DEFINE R == OpToRel(<, Nat)
<1>1. \E n \in T : \A m \in T : <<m, n>> \notin R
  BY NatLessThanWellFounded, WFMin
<1>2. \A n, m \in Nat : <<m, n>> \in R <=> m < n
  BY DEF OpToRel
<1> HIDE DEF R
<1>3. PICK n \in T : \A m \in T : <<m, n>> \notin R
  BY <1>1
<1>4. \A m \in T : m \in Nat /\ n \in Nat /\ ~ (m < n)
  BY <1>2, <1>3
<1> QED
  BY <1>4

-----------------------------------------------------------------------------
(* Trees.                                                                   *)

\* What the model's arenas and pieces of markup have in common: a node is below an
\* earlier one, or below none.
Arena(d) ==
  /\ d \in Seq(Slots)
  /\ \A y \in DOMAIN d : d[y].up \in -1..(y - 1)

\* The recursion of Ancestors has a solution on every arena.
LEMMA AncestorsAre ==
  ASSUME NEW d, Arena(d), NEW x \in DOMAIN d
  PROVE  Ancestors(d, x) = {x} \cup (IF d[x].up < 1 THEN {} ELSE Ancestors(d, d[x].up))
<1> DEFINE Solves(f, n) == f = [y \in 1..n |-> {y} \cup (IF d[y].up < 1 THEN {} ELSE f[d[y].up])]
           bad == {n \in 0..Len(d) : ~ \E f : Solves(f, n)}
<1>1. DOMAIN d = 1..Len(d) /\ Len(d) \in Nat
  BY DEF Arena
<1>2. \A y \in 1..Len(d) : d[y].up \in Int /\ d[y].up < y
  BY <1>1 DEF Arena
<1>3. bad = {}
  <2> SUFFICES ASSUME bad # {} PROVE FALSE
    OBVIOUS
  <2>1. PICK n \in bad : \A m \in bad : n <= m
    <3>1. bad \subseteq Nat
      BY <1>1
    <3> HIDE DEF bad
    <3> QED
      BY <3>1, LeastNumber
  <2>2. CASE n = 0
    <3>1. Solves([y \in 1..0 |-> {}], 0)
      OBVIOUS
    <3> QED
      BY <2>1, <2>2, <3>1
  <2>3. CASE n # 0
    <3>1. n - 1 \in 0..Len(d) /\ n - 1 \notin bad /\ n \in 1..Len(d)
      <4>1. n \in 0..Len(d)
        BY <2>1
      <4>2. n - 1 \in 0..Len(d) /\ ~ (n <= n - 1) /\ n \in 1..Len(d)
        BY <1>1, <2>3, <4>1
      <4> HIDE DEF bad
      <4> QED
        BY <2>1, <4>2
    <3>2. PICK f : Solves(f, n - 1)
      BY <3>1
    <3> DEFINE g == [y \in 1..n |-> IF y = n THEN {y} \cup (IF d[y].up < 1 THEN {} ELSE f[d[y].up])
                                            ELSE f[y]]
    <3>0. n - 1 \in Nat /\ 1..(n - 1) \subseteq 1..n /\ n \notin 1..(n - 1)
      BY <3>1
    <3>3. \A y \in 1..(n - 1) : g[y] = f[y] /\ f[y] = {y} \cup (IF d[y].up < 1 THEN {} ELSE f[d[y].up])
      <4> SUFFICES ASSUME NEW y \in 1..(n - 1)
                   PROVE  g[y] = f[y] /\ f[y] = {y} \cup (IF d[y].up < 1 THEN {} ELSE f[d[y].up])
        OBVIOUS
      <4>1. y \in 1..n /\ y # n
        BY <3>0
      <4>2. g[y] = f[y]
        BY <4>1
      <4> HIDE DEF g
      <4>3. f[y] = {y} \cup (IF d[y].up < 1 THEN {} ELSE f[d[y].up])
        BY <3>2
      <4> QED
        BY <4>2, <4>3
    <3>4. \A y \in 1..n : d[y].up >= 1 => d[y].up \in 1..(n - 1)
      BY <1>2, <3>1
    <3>5. \A y \in 1..n : g[y] = {y} \cup (IF d[y].up < 1 THEN {} ELSE g[d[y].up])
      <4> SUFFICES ASSUME NEW y \in 1..n
                   PROVE  g[y] = {y} \cup (IF d[y].up < 1 THEN {} ELSE g[d[y].up])
        OBVIOUS
      <4>1. d[y].up >= 1 => g[d[y].up] = f[d[y].up]
        BY <3>3, <3>4
      <4>2. d[y].up \in Int
        BY <1>2, <3>1
      <4>3. g[y] = {y} \cup (IF d[y].up < 1 THEN {} ELSE f[d[y].up])
        <5>1. CASE y = n
          BY <5>1
        <5>2. CASE y # n
          <6>1. y \in 1..(n - 1)
            BY <3>1, <5>2
          <6> QED
            BY <3>3, <6>1
        <5> QED
          BY <5>1, <5>2
      <4> HIDE DEF g
      <4> QED
        BY <4>1, <4>2, <4>3
    <3>6. Solves(g, n)
      BY <3>5
    <3> QED
      BY <2>1, <3>6
  <2> QED
    BY <2>2, <2>3
<1>4. PICK f : Solves(f, Len(d))
  <2>1. Len(d) \in 0..Len(d) /\ Len(d) \notin bad
    <3> HIDE DEF bad
    <3> QED
      BY <1>1, <1>3
  <2> HIDE DEF Solves
  <2> QED
    BY <2>1
<1> DEFINE above == CHOOSE h : h = [y \in DOMAIN d |-> {y} \cup (IF d[y].up < 1 THEN {} ELSE h[d[y].up])]
<1>5. above = [y \in DOMAIN d |-> {y} \cup (IF d[y].up < 1 THEN {} ELSE above[d[y].up])]
  <2>1. f = [y \in DOMAIN d |-> {y} \cup (IF d[y].up < 1 THEN {} ELSE f[d[y].up])]
    BY <1>1, <1>4
  <2> HIDE DEF Solves
  <2> QED
    BY <2>1
<1>6. \A y : Ancestors(d, y) = above[y]
  BY DEF Ancestors
<1> HIDE DEF above
<1>7. above[x] = {x} \cup (IF d[x].up < 1 THEN {} ELSE above[d[x].up])
  BY <1>5
<1> QED
  BY <1>6, <1>7

\* What is above x is x itself and, unless nothing is, what is above the node it
\* is below.
LEMMA AncestorsAbove ==
  ASSUME NEW d, Arena(d), NEW x \in DOMAIN d
  PROVE  /\ x \in Ancestors(d, x)
         /\ d[x].up >= 1 => d[x].up \in DOMAIN d /\ d[x].up < x
         /\ \A a \in Ancestors(d, x) \ {x} : d[x].up >= 1 /\ a \in Ancestors(d, d[x].up)
         /\ d[x].up >= 1 => Ancestors(d, d[x].up) \subseteq Ancestors(d, x)
<1>1. DOMAIN d = 1..Len(d) /\ Len(d) \in Nat /\ x \in Nat /\ d[x].up \in Int /\ d[x].up < x
  BY DEF Arena
<1>2. d[x].up >= 1 => d[x].up \in DOMAIN d
  BY <1>1
<1>3. Ancestors(d, x) = {x} \cup (IF d[x].up < 1 THEN {} ELSE Ancestors(d, d[x].up))
  BY AncestorsAre
<1> QED
  BY <1>1, <1>2, <1>3

\* An induction from the top of the arena down.
LEMMA FromTheTop ==
  ASSUME NEW d, Arena(d), NEW Good, Good \subseteq DOMAIN d,
         \A x \in DOMAIN d : (d[x].up >= 1 => d[x].up \in Good) => x \in Good
  PROVE  Good = DOMAIN d
<1> SUFFICES ASSUME DOMAIN d \ Good # {} PROVE FALSE
  OBVIOUS
<1>1. DOMAIN d \ Good \subseteq Nat
  BY DEF Arena
<1>2. PICK x \in DOMAIN d \ Good : \A y \in DOMAIN d \ Good : x <= y
  BY <1>1, LeastNumber
<1>3. d[x].up >= 1 => d[x].up \in DOMAIN d /\ d[x].up \in Int /\ d[x].up < x /\ x \in Int
  BY <1>1, AncestorsAbove DEF Arena
<1> QED
  BY <1>2, <1>3

LEMMA AncestorsAreEarlier ==
  ASSUME NEW d, Arena(d)
  PROVE  \A x \in DOMAIN d : Ancestors(d, x) \subseteq DOMAIN d /\ \A a \in Ancestors(d, x) : a <= x
<1> DEFINE Good == {x \in DOMAIN d : Ancestors(d, x) \subseteq DOMAIN d /\ \A a \in Ancestors(d, x) : a <= x}
<1>1. ASSUME NEW x \in DOMAIN d, d[x].up >= 1 => d[x].up \in Good
      PROVE  x \in Good
  <2>1. DOMAIN d \subseteq Nat
    BY DEF Arena
  <2>2. ASSUME NEW a \in Ancestors(d, x) PROVE a \in DOMAIN d /\ a <= x
    <3>1. CASE a = x
      BY <2>1, <3>1
    <3>2. CASE a # x
      <4>1. d[x].up >= 1 /\ a \in Ancestors(d, d[x].up) /\ d[x].up < x /\ d[x].up \in DOMAIN d
        BY <3>2, AncestorsAbove
      <4>2. a \in DOMAIN d /\ a <= d[x].up
        BY <1>1, <4>1
      <4> QED
        BY <2>1, <4>1, <4>2
    <3> QED
      BY <3>1, <3>2
  <2> QED
    BY <2>2
<1> HIDE DEF Good
<1>2. Good = DOMAIN d
  <2>1. Good \subseteq DOMAIN d
    BY DEF Good
  <2> QED
    BY <1>1, <2>1, FromTheTop
<1> QED
  BY <1>2 DEF Good

LEMMA AncestorsNest ==
  ASSUME NEW d, Arena(d)
  PROVE  \A x \in DOMAIN d : \A a \in Ancestors(d, x) : Ancestors(d, a) \subseteq Ancestors(d, x)
<1> DEFINE Good == {x \in DOMAIN d : \A a \in Ancestors(d, x) : Ancestors(d, a) \subseteq Ancestors(d, x)}
<1>1. ASSUME NEW x \in DOMAIN d, d[x].up >= 1 => d[x].up \in Good
      PROVE  x \in Good
  <2>1. ASSUME NEW a \in Ancestors(d, x), a # x PROVE Ancestors(d, a) \subseteq Ancestors(d, x)
    BY <1>1, <2>1, AncestorsAbove
  <2> QED
    BY <2>1
<1> HIDE DEF Good
<1>2. Good = DOMAIN d
  <2>1. Good \subseteq DOMAIN d
    BY DEF Good
  <2> QED
    BY <1>1, <2>1, FromTheTop
<1> QED
  BY <1>2 DEF Good

\* Of two nodes above a node, one is above the other.
LEMMA AncestorsAreALine ==
  ASSUME NEW d, Arena(d)
  PROVE  \A x \in DOMAIN d : \A a, b \in Ancestors(d, x) : a \in Ancestors(d, b) \/ b \in Ancestors(d, a)
<1> DEFINE Good == {x \in DOMAIN d : \A a, b \in Ancestors(d, x) : a \in Ancestors(d, b) \/ b \in Ancestors(d, a)}
<1>1. ASSUME NEW x \in DOMAIN d, d[x].up >= 1 => d[x].up \in Good
      PROVE  x \in Good
  <2>1. ASSUME NEW a \in Ancestors(d, x), NEW b \in Ancestors(d, x), a # x, b # x
        PROVE  a \in Ancestors(d, b) \/ b \in Ancestors(d, a)
    BY <1>1, <2>1, AncestorsAbove
  <2> QED
    BY <2>1
<1> HIDE DEF Good
<1>2. Good = DOMAIN d
  <2>1. Good \subseteq DOMAIN d
    BY DEF Good
  <2> QED
    BY <1>1, <2>1, FromTheTop
<1> QED
  BY <1>2 DEF Good

\* From a node that is above x, the way down to x begins with a child of it.
LEMMA ChildTowards ==
  ASSUME NEW d, Arena(d)
  PROVE  \A x \in DOMAIN d : \A p \in Ancestors(d, x) \ {x} : \E b \in Ancestors(d, x) : d[b].up = p
<1> DEFINE Good == {x \in DOMAIN d : \A p \in Ancestors(d, x) \ {x} : \E b \in Ancestors(d, x) : d[b].up = p}
<1>1. ASSUME NEW x \in DOMAIN d, d[x].up >= 1 => d[x].up \in Good
      PROVE  x \in Good
  <2>1. ASSUME NEW p \in Ancestors(d, x) \ {x} PROVE \E b \in Ancestors(d, x) : d[b].up = p
    <3>1. d[x].up >= 1 /\ p \in Ancestors(d, d[x].up) /\ Ancestors(d, d[x].up) \subseteq Ancestors(d, x)
          /\ x \in Ancestors(d, x)
      BY AncestorsAbove
    <3>2. CASE p = d[x].up
      BY <3>1, <3>2
    <3>3. CASE p # d[x].up
      BY <1>1, <3>1, <3>3
    <3> QED
      BY <3>2, <3>3
  <2> QED
    BY <2>1
<1> HIDE DEF Good
<1>2. Good = DOMAIN d
  <2>1. Good \subseteq DOMAIN d
    BY DEF Good
  <2> QED
    BY <1>1, <2>1, FromTheTop
<1> QED
  BY <1>2 DEF Good

\* No two children of one node are above the same node.
LEMMA OneSiblingAbove ==
  ASSUME NEW d, Arena(d), NEW x \in DOMAIN d,
         NEW a \in Ancestors(d, x), NEW b \in Ancestors(d, x), d[a].up = d[b].up, d[a].up >= 1
  PROVE  a = b
<1>0. a \in DOMAIN d /\ b \in DOMAIN d /\ DOMAIN d \subseteq Nat
  BY AncestorsAreEarlier DEF Arena
<1>1. ASSUME NEW u \in DOMAIN d, NEW v \in DOMAIN d, u \in Ancestors(d, v), u # v, d[u].up = d[v].up,
             d[u].up >= 1
      PROVE  FALSE
  <2>1. u \in Ancestors(d, d[v].up)
    BY <1>1, AncestorsAbove
  <2>2. d[u].up \in DOMAIN d /\ d[u].up < u
    BY <1>1, AncestorsAbove
  <2>3. u <= d[v].up
    BY <1>1, <2>1, <2>2, AncestorsAreEarlier
  <2> QED
    BY <1>0, <1>1, <2>2, <2>3
<1>2. a \in Ancestors(d, b) \/ b \in Ancestors(d, a)
  BY AncestorsAreALine
<1> QED
  BY <1>0, <1>1, <1>2

-----------------------------------------------------------------------------
(* Document order.                                                          *)

Siblings(d, a, b) == d[a].up = d[b].up /\ d[a].up >= 1 /\ a < b

LEMMA BeforeIs ==
  ASSUME NEW d, NEW x, NEW y
  PROVE  Before(d, x, y) <=> \/ x \in Ancestors(d, y) \ {y}
                             \/ \E a \in Ancestors(d, x), b \in Ancestors(d, y) : Siblings(d, a, b)
BY DEF Before, Siblings

LEMMA BeforeIsStrict ==
  ASSUME NEW d, Arena(d), NEW x \in DOMAIN d
  PROVE  ~ Before(d, x, x)
<1> SUFFICES ASSUME NEW a \in Ancestors(d, x), NEW b \in Ancestors(d, x), Siblings(d, a, b) PROVE FALSE
  BY BeforeIs
<1>1. a = b /\ a \in Nat
  BY OneSiblingAbove, AncestorsAreEarlier DEF Siblings, Arena
<1> QED
  BY <1>1 DEF Siblings

\* A child of what the elder sibling is below is above whatever the younger is above.
LEMMA SiblingsShare ==
  ASSUME NEW d, Arena(d), NEW a \in DOMAIN d, NEW b \in DOMAIN d, d[a].up = d[b].up, d[a].up >= 1,
         NEW x \in Ancestors(d, a), x # a
  PROVE  x \in Ancestors(d, b) /\ x # b
<1>1. x \in Ancestors(d, d[a].up) /\ d[b].up \in DOMAIN d /\ d[b].up < b
      /\ Ancestors(d, d[b].up) \subseteq Ancestors(d, b)
  BY AncestorsAbove
<1>2. DOMAIN d \subseteq Nat
  BY DEF Arena
<1>3. d[b].up \in DOMAIN d /\ x \in Ancestors(d, d[b].up)
  BY <1>1
<1>4. x \in DOMAIN d /\ x <= d[b].up
  BY <1>3, AncestorsAreEarlier
<1>5. x \in Nat /\ b \in Nat /\ d[b].up \in Nat
  BY <1>2, <1>3, <1>4
<1> QED
  BY <1>1, <1>3, <1>4, <1>5

LEMMA BeforeIsTransitive ==
  ASSUME NEW d, Arena(d), NEW x \in DOMAIN d, NEW y \in DOMAIN d, NEW z \in DOMAIN d,
         Before(d, x, y), Before(d, y, z)
  PROVE  Before(d, x, z)
<1>0. /\ DOMAIN d \subseteq Nat
      /\ \A u \in DOMAIN d : \A a \in Ancestors(d, u) :
           a \in DOMAIN d /\ a <= u /\ Ancestors(d, a) \subseteq Ancestors(d, u)
  BY AncestorsAreEarlier, AncestorsNest DEF Arena
<1>1. CASE x \in Ancestors(d, y) \ {y} /\ y \in Ancestors(d, z) \ {z}
  <2>1. x \in Ancestors(d, z) /\ x <= y /\ y <= z /\ x # y
    BY <1>0, <1>1
  <2>2. x \in Nat /\ y \in Nat /\ z \in Nat
    BY <1>0
  <2>3. x # z
    BY <2>1, <2>2
  <2> QED
    BY <2>1, <2>3, BeforeIs
<1>2. ASSUME x \in Ancestors(d, y) \ {y},
             NEW a \in Ancestors(d, y), NEW b \in Ancestors(d, z), Siblings(d, a, b)
      PROVE  Before(d, x, z)
  <2>1. x \in Ancestors(d, a) \/ a \in Ancestors(d, x)
    BY <1>2, AncestorsAreALine
  <2>2. CASE a \in Ancestors(d, x)
    BY <1>2, <2>2, BeforeIs
  <2>3. CASE x \in Ancestors(d, a) /\ x # a
    <3>1. a \in DOMAIN d /\ b \in DOMAIN d
      BY <1>0, <1>2
    <3>2. x \in Ancestors(d, b) /\ x # b
      BY <1>2, <2>3, <3>1, SiblingsShare DEF Siblings
    <3>3. x \in Ancestors(d, z) /\ x <= b /\ b <= z
      BY <1>0, <3>1, <3>2
    <3>4. x \in Nat /\ b \in Nat /\ z \in Nat
      BY <1>0, <3>1
    <3>5. x # z
      BY <3>2, <3>3, <3>4
    <3> QED
      BY <3>3, <3>5, BeforeIs
  <2>4. x \in Ancestors(d, x)
    BY AncestorsAbove
  <2> QED
    BY <2>1, <2>2, <2>3, <2>4
<1>3. ASSUME NEW a \in Ancestors(d, x), NEW b \in Ancestors(d, y), Siblings(d, a, b),
             y \in Ancestors(d, z) \ {z}
      PROVE  Before(d, x, z)
  <2>1. b \in Ancestors(d, z)
    BY <1>0, <1>3
  <2> QED
    BY <1>3, <2>1, BeforeIs
<1>4. ASSUME NEW a \in Ancestors(d, x), NEW b \in Ancestors(d, y), Siblings(d, a, b),
             NEW c \in Ancestors(d, y), NEW e \in Ancestors(d, z), Siblings(d, c, e)
      PROVE  Before(d, x, z)
  <2>0. a \in DOMAIN d /\ b \in DOMAIN d /\ c \in DOMAIN d /\ e \in DOMAIN d
    BY <1>0
  <2>1. CASE b = c
    <3>1. Siblings(d, a, e)
      BY <1>0, <1>4, <2>0, <2>1 DEF Siblings
    <3> QED
      BY <3>1, BeforeIs
  <2>2. CASE b # c /\ b \in Ancestors(d, c)
    <3>1. b \in Ancestors(d, e)
      BY <1>4, <2>0, <2>2, SiblingsShare DEF Siblings
    <3>2. b \in Ancestors(d, z)
      BY <1>0, <3>1
    <3> QED
      BY <1>4, <3>2, BeforeIs
  <2>3. CASE b # c /\ c \in Ancestors(d, b)
    <3>1. c \in Ancestors(d, a)
      BY <1>4, <2>0, <2>3, SiblingsShare DEF Siblings
    <3>2. c \in Ancestors(d, x)
      BY <1>0, <3>1
    <3> QED
      BY <1>4, <3>2, BeforeIs
  <2>4. b \in Ancestors(d, c) \/ c \in Ancestors(d, b)
    BY AncestorsAreALine
  <2> QED
    BY <2>1, <2>2, <2>3, <2>4
<1> QED
  BY <1>1, <1>2, <1>3, <1>4, BeforeIs

\* Of two nodes below one, one comes before the other.
LEMMA BeforeIsTotal ==
  ASSUME NEW d, Arena(d), NEW x \in DOMAIN d, NEW y \in DOMAIN d, x # y,
         NEW t \in Ancestors(d, x), t \in Ancestors(d, y)
  PROVE  Before(d, x, y) \/ Before(d, y, x)
<1>0. /\ DOMAIN d \subseteq Nat
      /\ \A u \in DOMAIN d : u \in Ancestors(d, u) /\ \A a \in Ancestors(d, u) :
           a \in DOMAIN d /\ a <= u /\ Ancestors(d, a) \subseteq Ancestors(d, u)
  BY AncestorsAreEarlier, AncestorsNest, AncestorsAbove DEF Arena
<1>1. CASE x \in Ancestors(d, y) \/ y \in Ancestors(d, x)
  BY <1>1, BeforeIs
<1>2. CASE x \notin Ancestors(d, y) /\ y \notin Ancestors(d, x)
  <2> DEFINE T == Ancestors(d, x) \ Ancestors(d, y)
  <2>1. T \subseteq Nat /\ T # {}
    BY <1>0, <1>2
  <2>2. PICK a \in T : \A c \in T : a <= c
    BY <2>1, LeastNumber
  <2>3. a \in DOMAIN d /\ a \in Ancestors(d, x) /\ a \notin Ancestors(d, y)
    BY <1>0, <2>2
  <2>4. t \in Ancestors(d, a) /\ t # a
    <3>1. t \in Ancestors(d, a) \/ a \in Ancestors(d, t)
      BY <2>3, AncestorsAreALine
    <3> QED
      BY <1>0, <2>3, <3>1
  <2> DEFINE p == d[a].up
  <2>5. p >= 1 /\ p \in DOMAIN d /\ p < a /\ p \in Ancestors(d, a)
    <3>1. p >= 1 /\ p \in DOMAIN d /\ p < a /\ Ancestors(d, p) \subseteq Ancestors(d, a)
      BY <2>3, <2>4, AncestorsAbove
    <3> HIDE DEF p
    <3> QED
      BY <1>0, <3>1
  <2>6. p \in Ancestors(d, y)
    <3> HIDE DEF p
    <3>1. p \in Ancestors(d, x)
      BY <1>0, <2>3, <2>5
    <3>2. p \notin T
      BY <1>0, <2>2, <2>3, <2>5
    <3> QED
      BY <3>1, <3>2
  <2>7. p # y
    <3> HIDE DEF p
    <3> QED
      BY <1>0, <1>2, <2>3, <2>5
  <2>8. PICK b \in Ancestors(d, y) : d[b].up = p
    <3> HIDE DEF p
    <3> QED
      BY <2>6, <2>7, ChildTowards
  <2>9. a # b /\ b \in DOMAIN d
    BY <1>0, <2>3
  <2>10. Siblings(d, a, b) \/ Siblings(d, b, a)
    BY <1>0, <2>3, <2>5, <2>8, <2>9 DEF Siblings
  <2> QED
    BY <2>3, <2>10, BeforeIs
<1> QED
  BY <1>1, <1>2

\* The nodes of the subtree of x, their places in document order, and the nodes
\* by their places.
Below(d, x) == {y \in DOMAIN d : x \in Ancestors(d, y)}
Place(d, x, y) == Cardinality({z \in Below(d, x) : Before(d, z, y)}) + 1
Size(d, x) == Cardinality(Below(d, x))
Order(d, x) == [i \in 1..Size(d, x) |-> CHOOSE y \in Below(d, x) : Place(d, x, y) = i]

LEMMA MarkupIs ==
  ASSUME NEW d, NEW x
  PROVE  Markup(d, x) = [i \in 1..Size(d, x) |->
                           [d[Order(d, x)[i]] EXCEPT !.up = IF i = 1 THEN 0 ELSE Place(d, x, @)]]
BY DEF Markup, Below, Place, Size, Order


\* The places are the numbers up to the size of the subtree, each once, in document
\* order.
LEMMA Places ==
  ASSUME NEW d, Arena(d), NEW x \in DOMAIN d
  PROVE  /\ Size(d, x) \in Nat
         /\ \A y \in Below(d, x) : Place(d, x, y) \in 1..Size(d, x)
         /\ \A y, z \in Below(d, x) : Before(d, y, z) <=> Place(d, x, y) < Place(d, x, z)
         /\ \A y, z \in Below(d, x) : Place(d, x, y) = Place(d, x, z) => y = z
         /\ \A i \in 1..Size(d, x) : \E y \in Below(d, x) : Place(d, x, y) = i
<1> DEFINE T == Below(d, x)
           N == Size(d, x)
           Under(v) == {u \in T : Before(d, u, v)}
           place == [v \in T |-> Place(d, x, v)]
<1>1. T \subseteq DOMAIN d /\ \A y \in T : x \in Ancestors(d, y)
  BY DEF Below
<1>2. IsFiniteSet(T) /\ N = Cardinality(T) /\ N \in Nat
  <2>1. IsFiniteSet(DOMAIN d)
    <3>1. DOMAIN d = 1..Len(d) /\ Len(d) \in Int
      BY DEF Arena
    <3> QED
      BY <3>1, FS_Interval
  <2>2. IsFiniteSet(T)
    <3> HIDE DEF T
    <3> QED
      BY <1>1, <2>1, FS_Subset
  <2> QED
    BY <2>2, FS_CardinalityType DEF Size
<1>3. \A v \in T : Place(d, x, v) = Cardinality(Under(v)) + 1
  BY DEF Place
<1> HIDE DEF T, N
<1>4. \A u \in T : ~ Before(d, u, u)
  BY <1>1, BeforeIsStrict
<1>5. \A u, v, w \in T : Before(d, u, v) /\ Before(d, v, w) => Before(d, u, w)
  BY <1>1, BeforeIsTransitive
<1>6. \A u, v \in T : u = v \/ Before(d, u, v) \/ Before(d, v, u)
  BY <1>1, BeforeIsTotal
<1>7. \A v \in T : Under(v) \in SUBSET T /\ v \notin Under(v)
  BY <1>4
<1>8. ASSUME NEW u \in T, NEW v \in T, Before(d, u, v)
      PROVE  Under(u) \in SUBSET Under(v) /\ u \in Under(v)
  BY <1>5, <1>8
<1> HIDE DEF Under
<1>9. \A S \in SUBSET T : /\ IsFiniteSet(S) /\ Cardinality(S) \in Nat
                          /\ Cardinality(S) <= N /\ (S # T => Cardinality(S) # N)
  BY <1>2, FS_Subset, FS_CardinalityType
<1>10. \A v \in T : Place(d, x, v) \in 1..N /\ Place(d, x, v) \in Int
  <2> SUFFICES ASSUME NEW v \in T PROVE Place(d, x, v) \in 1..N
    BY <1>2
  <2>1. Cardinality(Under(v)) \in Nat /\ Cardinality(Under(v)) <= N /\ Cardinality(Under(v)) # N
    BY <1>7, <1>9
  <2> QED
    BY <1>2, <1>3, <2>1
<1>11. ASSUME NEW u \in T, NEW v \in T, Before(d, u, v)
       PROVE  Place(d, x, u) < Place(d, x, v)
  <2>1. Under(u) \in SUBSET Under(v) /\ Under(v) \in SUBSET T /\ Under(u) # Under(v)
    BY <1>7, <1>8, <1>11
  <2>2. IsFiniteSet(Under(v)) /\ Cardinality(Under(v)) \in Nat /\ Cardinality(Under(u)) \in Nat
    BY <1>7, <1>9
  <2>3. Cardinality(Under(u)) <= Cardinality(Under(v)) /\ Cardinality(Under(u)) # Cardinality(Under(v))
    BY <2>1, <2>2, FS_Subset
  <2>4. Place(d, x, u) = Cardinality(Under(u)) + 1 /\ Place(d, x, v) = Cardinality(Under(v)) + 1
    BY <1>3
  <2> QED
    BY <2>2, <2>3, <2>4
<1>12. ASSUME NEW u \in T, NEW v \in T
       PROVE  /\ Place(d, x, u) < Place(d, x, v) => Before(d, u, v)
              /\ Place(d, x, u) = Place(d, x, v) => u = v
  <2>1. Place(d, x, u) \in Int /\ Place(d, x, v) \in Int
    BY <1>10
  <2>2. u = v \/ Place(d, x, u) < Place(d, x, v) \/ Place(d, x, v) < Place(d, x, u)
    BY <1>6, <1>11
  <2>3. CASE Before(d, v, u)
    <3>1. Place(d, x, v) < Place(d, x, u)
      BY <1>11, <2>3
    <3> QED
      BY <2>1, <3>1
  <2> QED
    BY <1>6, <2>1, <2>2, <2>3
<1>13. place \in Injection(T, 1..N)
  <2>1. place \in [T -> 1..N]
    BY <1>10
  <2>2. \A u, v \in T : place[u] = place[v] => u = v
    BY <1>12
  <2> HIDE DEF place
  <2> QED
    BY <2>1, <2>2, Fun_IsInj
<1>14. IsFiniteSet(1..N) /\ Cardinality(1..N) = Cardinality(T)
  BY <1>2, FS_Interval
<1>15. \A i \in 1..N : \E v \in T : Place(d, x, v) = i
  <2>1. \A v \in T : place[v] = Place(d, x, v)
    OBVIOUS
  <2> HIDE DEF place
  <2>2. place \in Surjection(T, 1..N)
    BY <1>13, <1>14, FS_Injection
  <2>3. \A i \in 1..N : \E v \in T : place[v] = i
    BY <2>2, Fun_SurjectionProperties
  <2> QED
    BY <2>1, <2>3
<1> QED
  BY <1>2, <1>10, <1>11, <1>12, <1>15 DEF T, N

\* What is below x is x and the nodes right below something below x.
LEMMA BelowIs ==
  ASSUME NEW d, Arena(d), NEW x \in DOMAIN d
  PROVE  /\ Below(d, x) \subseteq DOMAIN d
         /\ x \in Below(d, x)
         /\ \A y \in Below(d, x) \ {x} : d[y].up >= 1 /\ d[y].up \in Below(d, x) /\ Before(d, d[y].up, y)
         /\ \A y \in Below(d, x) \ {x} : Before(d, x, y)
<1>1. x \in Below(d, x)
  BY AncestorsAbove DEF Below
<1>2. ASSUME NEW y \in Below(d, x) \ {x}
      PROVE  d[y].up >= 1 /\ d[y].up \in Below(d, x) /\ Before(d, d[y].up, y) /\ Before(d, x, y)
  <2>1. y \in DOMAIN d /\ x \in Ancestors(d, y) \ {y}
    BY DEF Below
  <2>2. d[y].up >= 1 /\ x \in Ancestors(d, d[y].up) /\ d[y].up \in DOMAIN d /\ d[y].up < y
    BY <2>1, AncestorsAbove
  <2>3. d[y].up \in Ancestors(d, y)
    BY <2>1, <2>2, AncestorsAbove
  <2>4. y \in Int /\ d[y].up # y
    BY <2>1, <2>2 DEF Arena
  <2> QED
    BY <2>1, <2>2, <2>3, <2>4, BeforeIs DEF Below
<1> QED
  BY <1>1, <1>2 DEF Below

\* The top of a piece of markup is the node it is made from, and every other node
\* keeps the node it is right below.
LEMMA MarkupOf ==
  ASSUME NEW d, Arena(d), NEW x \in DOMAIN d
  PROVE  /\ Len(Markup(d, x)) = Size(d, x) /\ DOMAIN Markup(d, x) = 1..Size(d, x)
         /\ Size(d, x) \in Nat \ {0}
         /\ Markup(d, x) \in Seq(Slots)
         /\ Place(d, x, x) = 1
         /\ Markup(d, x)[1] = [d[x] EXCEPT !.up = 0]
         /\ \A y \in Below(d, x) \ {x} :
              /\ Place(d, x, y) # 1 /\ Place(d, x, d[y].up) \in 1..(Place(d, x, y) - 1)
              /\ Markup(d, x)[Place(d, x, y)] = [d[y] EXCEPT !.up = Place(d, x, d[y].up)]
<1> DEFINE N == Size(d, x)
           p(y) == Place(d, x, y)
           m == Markup(d, x)
           o == Order(d, x)
<1>1. /\ N \in Nat
      /\ \A y \in Below(d, x) : p(y) \in 1..N
      /\ \A y, z \in Below(d, x) : Before(d, y, z) <=> p(y) < p(z)
      /\ \A y, z \in Below(d, x) : p(y) = p(z) => y = z
      /\ \A i \in 1..N : \E y \in Below(d, x) : p(y) = i
  BY Places
<1>2. o = [i \in 1..N |-> CHOOSE y \in Below(d, x) : p(y) = i]
  BY DEF Order
<1>3. m = [i \in 1..N |-> [d[o[i]] EXCEPT !.up = IF i = 1 THEN 0 ELSE p(@)]]
  BY MarkupIs
<1> HIDE DEF N, p, m, o
<1>4. \A i \in 1..N : o[i] \in Below(d, x) /\ p(o[i]) = i
  BY <1>1, <1>2
<1>5. \A y \in Below(d, x) : p(y) \in 1..N /\ p(y) \in Nat /\ o[p(y)] = y
  BY <1>1, <1>4
<1>6. p(x) = 1 /\ N # 0
  <2>1. x \in Below(d, x)
    BY BelowIs
  <2>2. p(x) \in 1..N
    BY <1>5, <2>1
  <2>3. 1 \in 1..N
    BY <1>1, <2>2
  <2>4. PICK y \in Below(d, x) : p(y) = 1
    BY <1>1, <2>3
  <2>5. CASE y # x
    <3>1. p(x) < p(y)
      BY <1>1, <2>1, <2>5, BelowIs
    <3> QED
      BY <1>1, <2>2, <2>4, <3>1
  <2> QED
    BY <1>1, <2>2, <2>4, <2>5
<1>7. \A y \in Below(d, x) : d[y] \in Slots
  BY BelowIs, ElementOfSeq DEF Arena
<1>8. \A y \in Below(d, x) \ {x} : p(y) # 1 /\ p(d[y].up) \in 1..(p(y) - 1)
  <2> SUFFICES ASSUME NEW y \in Below(d, x) \ {x}
               PROVE  p(y) # 1 /\ p(d[y].up) \in 1..(p(y) - 1)
    OBVIOUS
  <2>1. d[y].up \in Below(d, x) /\ Before(d, d[y].up, y) /\ x \in Below(d, x)
    BY BelowIs
  <2>2. p(d[y].up) < p(y) /\ p(d[y].up) \in 1..N /\ p(y) \in 1..N
    BY <1>1, <2>1
  <2> QED
    BY <1>1, <2>2
<1>9. m[1] = [d[x] EXCEPT !.up = 0]
  <2>1. 1 \in 1..N /\ o[1] = x
    <3>1. x \in Below(d, x)
      BY BelowIs
    <3> QED
      BY <1>5, <1>6, <3>1
  <2> QED
    BY <1>3, <2>1
<1>10. \A y \in Below(d, x) \ {x} : m[p(y)] = [d[y] EXCEPT !.up = p(d[y].up)]
  <2> SUFFICES ASSUME NEW y \in Below(d, x) \ {x} PROVE m[p(y)] = [d[y] EXCEPT !.up = p(d[y].up)]
    OBVIOUS
  <2>1. p(y) \in 1..N /\ o[p(y)] = y /\ p(y) # 1
    BY <1>5, <1>8
  <2>2. m[p(y)] = [d[o[p(y)]] EXCEPT !.up = IF p(y) = 1 THEN 0 ELSE p(@)]
    BY <1>3, <2>1
  <2> QED
    BY <2>1, <2>2
<1>11. \A i \in 1..N : m[i] \in Slots
  <2> SUFFICES ASSUME NEW i \in 1..N PROVE m[i] \in Slots
    OBVIOUS
  <2>1. o[i] \in Below(d, x) /\ p(o[i]) = i /\ d[o[i]] \in Slots
    BY <1>4, <1>7
  <2>2. CASE o[i] = x
    <3>1. m[i] = [d[x] EXCEPT !.up = 0]
      BY <1>6, <1>9, <2>1, <2>2
    <3> QED
      BY <2>1, <2>2, <3>1 DEF Slots
  <2>3. CASE o[i] # x
    <3>1. m[i] = [d[o[i]] EXCEPT !.up = p(d[o[i]].up)]
      BY <1>10, <2>1, <2>3
    <3>2. p(d[o[i]].up) \in Int
      BY <1>5, <2>1, <2>3, BelowIs
    <3> QED
      BY <2>1, <3>1, <3>2 DEF Slots
  <2> QED
    BY <2>2, <2>3
<1>12. DOMAIN m = 1..N /\ Len(m) = N /\ m \in Seq(Slots)
  <2>1. m = [i \in 1..N |-> m[i]]
    BY <1>3
  <2>2. m \in [1..N -> Slots]
    BY <1>11, <2>1
  <2> QED
    BY <1>1, <2>2, SeqDef
<1> QED
  BY <1>1, <1>6, <1>8, <1>9, <1>10, <1>12 DEF N, p, m

\* What is above a node in the markup is what was above it in the tree.
LEMMA MarkupKeepsAncestors ==
  ASSUME NEW d, Arena(d), NEW x \in DOMAIN d, Arena(Markup(d, x))
  PROVE  \A y \in Below(d, x) :
           Ancestors(Markup(d, x), Place(d, x, y)) =
             {Place(d, x, z) : z \in Ancestors(d, y) \cap Below(d, x)}
<1> DEFINE m == Markup(d, x)
           p(y) == Place(d, x, y)
           T == Below(d, x)
           Good == {y \in DOMAIN d : y \in T => Ancestors(m, p(y)) = {p(z) : z \in Ancestors(d, y) \cap T}}
<1>1. /\ Arena(m)
      /\ p(x) = 1 /\ m[1] = [d[x] EXCEPT !.up = 0]
      /\ \A y \in T \ {x} : p(d[y].up) \in 1..(p(y) - 1) /\ m[p(y)] = [d[y] EXCEPT !.up = p(d[y].up)]
      /\ \A y \in T : p(y) \in DOMAIN m
      /\ 1 \in DOMAIN m
  <2>1. DOMAIN m = 1..Size(d, x) /\ Size(d, x) \in Nat \ {0}
    BY MarkupOf
  <2>2. /\ p(x) = 1 /\ m[1] = [d[x] EXCEPT !.up = 0]
        /\ \A y \in T \ {x} : p(d[y].up) \in 1..(p(y) - 1) /\ m[p(y)] = [d[y] EXCEPT !.up = p(d[y].up)]
    BY MarkupOf
  <2>3. \A y \in T : p(y) \in 1..Size(d, x)
    BY Places
  <2>4. 1 \in 1..Size(d, x)
    BY <2>1
  <2> HIDE DEF m, p, T
  <2> QED
    BY <2>1, <2>2, <2>3, <2>4 DEF m
<1>2. /\ T \subseteq DOMAIN d /\ x \in T
      /\ \A y \in T \ {x} : d[y].up >= 1 /\ d[y].up \in T
      /\ \A y \in T : d[y] \in Slots /\ x \in Ancestors(d, y)
  BY BelowIs, ElementOfSeq DEF Arena, Below
<1> HIDE DEF m, p, T
<1>3. ASSUME NEW y \in DOMAIN d, d[y].up >= 1 => d[y].up \in Good
      PROVE  y \in Good
  <2>1. CASE y = x
    <3>1. m[1].up = 0
      BY <1>1, <1>2 DEF Slots
    <3>2. Ancestors(m, 1) = {1}
      <4>1. Ancestors(m, 1) = {1} \cup (IF m[1].up < 1 THEN {} ELSE Ancestors(m, m[1].up))
        BY <1>1, AncestorsAre
      <4> QED
        BY <3>1, <4>1
    <3>3. ASSUME NEW z \in Ancestors(d, x) \cap T PROVE z = x
      <4>1. z <= x /\ x <= z /\ x \in Nat /\ z \in Nat
        BY <1>2, AncestorsAreEarlier DEF Arena
      <4> QED
        BY <4>1
    <3>4. Ancestors(d, x) \cap T = {x}
      BY <1>2, <3>3, AncestorsAbove
    <3> QED
      BY <1>1, <2>1, <3>2, <3>4
  <2>2. CASE y \in T \ {x}
    <3>1. d[y].up >= 1 /\ d[y].up \in T /\ d[y].up \in Good /\ d[y].up \in Int
      BY <1>2, <1>3, <2>2 DEF Arena
    <3>2. Ancestors(m, p(d[y].up)) = {p(z) : z \in Ancestors(d, d[y].up) \cap T}
      BY <3>1
    <3>3. Ancestors(d, y) = {y} \cup Ancestors(d, d[y].up)
      BY <3>1, AncestorsAre
    <3>4. m[p(y)].up = p(d[y].up) /\ p(d[y].up) >= 1 /\ p(d[y].up) \in Int
      <4>1. d[y] \in Slots /\ p(d[y].up) \in 1..(p(y) - 1) /\ m[p(y)] = [d[y] EXCEPT !.up = p(d[y].up)]
        BY <1>1, <1>2, <2>2
      <4> QED
        BY <4>1 DEF Slots
    <3>5. Ancestors(m, p(y)) = {p(y)} \cup Ancestors(m, p(d[y].up))
      <4>1. p(y) \in DOMAIN m
        BY <1>1, <2>2
      <4>2. Ancestors(m, p(y)) = {p(y)} \cup (IF m[p(y)].up < 1 THEN {} ELSE Ancestors(m, m[p(y)].up))
        BY <1>1, <4>1, AncestorsAre
      <4> QED
        BY <3>4, <4>2
    <3>6. {p(z) : z \in Ancestors(d, y) \cap T} = {p(y)} \cup {p(z) : z \in Ancestors(d, d[y].up) \cap T}
      BY <2>2, <3>3
    <3> QED
      BY <3>2, <3>5, <3>6
  <2>3. CASE y \notin T
    BY <2>3
  <2> QED
    BY <2>1, <2>2, <2>3
<1> HIDE DEF Good
<1>4. Good = DOMAIN d
  <2>1. Good \subseteq DOMAIN d
    BY DEF Good
  <2> QED
    BY <1>3, <2>1, FromTheTop
<1>5. \A y \in T : Ancestors(m, p(y)) = {p(z) : z \in Ancestors(d, y) \cap T}
  BY <1>2, <1>4 DEF Good
<1> QED
  BY <1>5 DEF m, p, T

\* One tree whose nodes stand in document order.
Shape(m) ==
  /\ m \in Seq(Slots) /\ m # << >>
  /\ \A x \in DOMAIN m : m[x].up \in IF x = 1 THEN {0} ELSE 1..(x - 1)

Ordered(m) == \A i, j \in DOMAIN m : j < i => Before(m, j, i)

LEMMA MarkupIsOrdered ==
  ASSUME NEW d, Arena(d), NEW x \in DOMAIN d
  PROVE  Shape(Markup(d, x)) /\ Ordered(Markup(d, x))
<1> DEFINE m == Markup(d, x)
           p(y) == Place(d, x, y)
           T == Below(d, x)
           N == Size(d, x)
<1>1. /\ Len(m) = N /\ DOMAIN m = 1..N /\ N \in Nat \ {0} /\ m \in Seq(Slots)
      /\ p(x) = 1 /\ m[1] = [d[x] EXCEPT !.up = 0]
      /\ \A y \in T \ {x} : /\ p(y) # 1 /\ p(d[y].up) \in 1..(p(y) - 1)
                            /\ m[p(y)] = [d[y] EXCEPT !.up = p(d[y].up)]
  BY MarkupOf
<1>2. /\ \A y \in T : p(y) \in 1..N
      /\ \A y, z \in T : Before(d, y, z) <=> p(y) < p(z)
      /\ \A y, z \in T : p(y) = p(z) => y = z
      /\ \A i \in 1..N : \E y \in T : p(y) = i
  BY Places
<1>3. /\ T \subseteq DOMAIN d /\ x \in T
      /\ \A y \in T \ {x} : d[y].up >= 1 /\ d[y].up \in T
      /\ \A y \in T : d[y] \in Slots /\ x \in Ancestors(d, y)
  BY BelowIs, ElementOfSeq DEF Arena, Below
<1> HIDE DEF m, p, T, N
<1>4. m[1].up = 0
  BY <1>1, <1>3 DEF Slots
<1>5. \A i \in 1..N : i # 1 => m[i].up \in 1..(i - 1)
  <2> SUFFICES ASSUME NEW i \in 1..N, i # 1 PROVE m[i].up \in 1..(i - 1)
    OBVIOUS
  <2>1. PICK y \in T : p(y) = i
    BY <1>2
  <2>2. y # x /\ d[y] \in Slots
    BY <1>1, <1>3, <2>1
  <2>3. m[i] = [d[y] EXCEPT !.up = p(d[y].up)] /\ p(d[y].up) \in 1..(i - 1)
    BY <1>1, <2>1, <2>2
  <2> QED
    BY <2>2, <2>3 DEF Slots
<1>6. Arena(m)
  <2>1. ASSUME NEW i \in 1..N PROVE m[i].up \in -1..(i - 1)
    <3>1. CASE i = 1
      BY <1>4, <3>1
    <3>2. CASE i # 1
      <4>1. m[i].up \in 1..(i - 1)
        BY <1>5, <3>2
      <4> QED
        BY <1>1, <4>1
    <3> QED
      BY <3>1, <3>2
  <2> QED
    BY <1>1, <2>1 DEF Arena
<1>7. \A y \in T : Ancestors(m, p(y)) = {p(z) : z \in Ancestors(d, y) \cap T}
  BY <1>6, MarkupKeepsAncestors DEF m, p, T
<1>8. \A i \in 1..N : 1 \in Ancestors(m, i)
  <2> SUFFICES ASSUME NEW i \in 1..N PROVE 1 \in Ancestors(m, i)
    OBVIOUS
  <2>1. PICK y \in T : p(y) = i
    BY <1>2
  <2> QED
    BY <1>1, <1>3, <1>7, <2>1
<1>10. \A i, j \in 1..N : Before(m, j, i) => j < i
  <2> SUFFICES ASSUME NEW i \in 1..N, NEW j \in 1..N, Before(m, j, i) PROVE j < i
    OBVIOUS
  <2>1. CASE j \in Ancestors(m, i) \ {i}
    <3>1. j <= i
      BY <1>1, <1>6, <2>1, AncestorsAreEarlier
    <3> QED
      BY <1>1, <2>1, <3>1
  <2>2. ASSUME NEW a \in Ancestors(m, j), NEW b \in Ancestors(m, i), Siblings(m, a, b)
        PROVE  j < i
    <3>1. PICK y \in T, z \in T : p(y) = j /\ p(z) = i
      BY <1>2
    <3>2. PICK u \in Ancestors(d, y) \cap T : a = p(u)
      BY <1>7, <3>1
    <3>3. PICK v \in Ancestors(d, z) \cap T : b = p(v)
      BY <1>7, <3>1
    <3>4. m[p(u)].up = m[p(v)].up /\ m[p(u)].up >= 1 /\ p(u) < p(v)
      BY <2>2, <3>2, <3>3 DEF Siblings
    <3>5. u # x /\ v # x
      <4>1. ASSUME NEW w \in T, m[p(w)].up >= 1 PROVE w # x
        <5>1. m[p(x)].up = 0
          BY <1>1, <1>4
        <5> QED
          BY <4>1, <5>1
      <4>2. m[p(v)].up >= 1
        BY <3>4
      <4> QED
        BY <3>2, <3>3, <3>4, <4>1, <4>2
    <3>6. d[u] \in Slots /\ d[v] \in Slots /\ m[p(u)] = [d[u] EXCEPT !.up = p(d[u].up)]
          /\ m[p(v)] = [d[v] EXCEPT !.up = p(d[v].up)]
      BY <1>1, <1>3, <3>2, <3>3, <3>5
    <3>7. p(d[u].up) = p(d[v].up)
      BY <3>4, <3>6 DEF Slots
    <3>8. d[u].up = d[v].up /\ d[u].up >= 1
      BY <1>2, <1>3, <3>2, <3>3, <3>5, <3>7
    <3>9. u < v
      <4>1. u \in Nat /\ v \in Nat /\ u \in DOMAIN d /\ v \in DOMAIN d
        BY <1>3, <3>2, <3>3 DEF Arena
      <4>2. p(u) \in Int /\ p(v) \in Int
        BY <1>1, <1>2, <3>2, <3>3
      <4>3. CASE v < u
        <5>1. Siblings(d, v, u) /\ v \in Ancestors(d, v) /\ u \in Ancestors(d, u)
          BY <3>8, <4>1, <4>3, AncestorsAbove DEF Siblings
        <5>2. Before(d, v, u)
          BY <5>1, BeforeIs
        <5>3. p(v) < p(u)
          BY <1>2, <3>2, <3>3, <5>2
        <5> QED
          BY <3>4, <4>2, <5>3
      <4>4. CASE u = v
        BY <3>4, <4>2, <4>4
      <4> QED
        BY <4>1, <4>3, <4>4
    <3>10. Before(d, y, z)
      <4>1. Siblings(d, u, v)
        BY <3>8, <3>9 DEF Siblings
      <4> QED
        BY <3>2, <3>3, <4>1, BeforeIs
    <3> QED
      BY <1>2, <3>1, <3>10
  <2> QED
    BY <2>1, <2>2, BeforeIs
<1>11. \A i, j \in 1..N : j < i => Before(m, j, i)
  <2> SUFFICES ASSUME NEW i \in 1..N, NEW j \in 1..N, j < i PROVE Before(m, j, i)
    OBVIOUS
  <2>1. i \in Nat /\ j \in Nat /\ i # j /\ ~ (i < j)
    BY <1>1
  <2>2. i \in DOMAIN m /\ j \in DOMAIN m /\ 1 \in Ancestors(m, i) /\ 1 \in Ancestors(m, j)
    BY <1>1, <1>8
  <2>3. Before(m, i, j) \/ Before(m, j, i)
    BY <1>6, <2>1, <2>2, BeforeIsTotal
  <2> QED
    BY <1>10, <2>1, <2>3
<1>12. \A i \in DOMAIN m : m[i].up \in IF i = 1 THEN {0} ELSE 1..(i - 1)
  BY <1>1, <1>4, <1>5
<1>13. m # << >>
  BY <1>1
<1>14. Shape(m) /\ Ordered(m)
  BY <1>1, <1>11, <1>12, <1>13 DEF Shape, Ordered
<1> QED
  BY <1>14 DEF m

LEMMA ShapeIsArena ==
  ASSUME NEW m, Shape(m)
  PROVE  /\ Arena(m) /\ Len(m) \in Nat \ {0} /\ DOMAIN m = 1..Len(m) /\ m[1].up = 0
         /\ \A i \in 1..Len(m) : i # 1 => m[i].up \in 1..(i - 1)
<1>1. m \in Seq(Slots) /\ Len(m) \in Nat \ {0} /\ DOMAIN m = 1..Len(m)
  BY DEF Shape
<1>2. m[1].up = 0
  BY <1>1 DEF Shape
<1>3. \A i \in 1..Len(m) : i # 1 => m[i].up \in 1..(i - 1)
  BY <1>1 DEF Shape
<1>4. ASSUME NEW i \in 1..Len(m) PROVE m[i].up \in -1..(i - 1)
  <2>1. CASE i = 1
    BY <1>2, <2>1
  <2>2. CASE i # 1
    <3>1. m[i].up \in 1..(i - 1)
      BY <1>3, <2>2
    <3> QED
      BY <1>1, <3>1
  <2> QED
    BY <2>1, <2>2
<1> QED
  BY <1>1, <1>2, <1>3, <1>4 DEF Arena

\* Serializing such a tree changes nothing.
LEMMA OrderedIsMarkup ==
  ASSUME NEW m, Shape(m), Ordered(m)
  PROVE  IsMarkup(m)
<1> DEFINE N == Len(m)
<1>1. /\ Arena(m) /\ N \in Nat \ {0} /\ DOMAIN m = 1..N /\ m \in Seq(Slots) /\ m[1].up = 0
      /\ \A i \in 1..N : i # 1 => m[i].up \in 1..(i - 1)
  BY ShapeIsArena DEF Shape
<1> HIDE DEF N
<1>2. \A i \in DOMAIN m : 1 \in Ancestors(m, i)
  <2> DEFINE Good == {i \in DOMAIN m : 1 \in Ancestors(m, i)}
  <2>1. ASSUME NEW i \in DOMAIN m, m[i].up >= 1 => m[i].up \in Good
        PROVE  i \in Good
    <3>1. CASE i = 1
      BY <1>1, <3>1, AncestorsAbove
    <3>2. CASE i # 1
      <4>1. m[i].up >= 1
        BY <1>1, <3>2
      <4> QED
        BY <1>1, <2>1, <4>1, AncestorsAbove
    <3> QED
      BY <3>1, <3>2
  <2> HIDE DEF Good
  <2>2. Good = DOMAIN m
    <3>1. Good \subseteq DOMAIN m
      BY DEF Good
    <3> QED
      BY <1>1, <2>1, <3>1, FromTheTop
  <2> QED
    BY <2>2 DEF Good
<1>3. 1 \in DOMAIN m /\ Below(m, 1) = 1..N /\ Size(m, 1) = N
  <2>1. Below(m, 1) = 1..N
    BY <1>1, <1>2 DEF Below
  <2> QED
    BY <1>1, <2>1, FS_Interval DEF Size
<1>4. \A i, j \in 1..N : Before(m, j, i) <=> j < i
  <2> SUFFICES ASSUME NEW i \in 1..N, NEW j \in 1..N PROVE Before(m, j, i) <=> j < i
    OBVIOUS
  <2>1. i \in Nat /\ j \in Nat /\ i \in DOMAIN m /\ j \in DOMAIN m
    BY <1>1
  <2>2. j < i => Before(m, j, i)
    BY <2>1 DEF Ordered
  <2>3. i < j => Before(m, i, j)
    BY <2>1 DEF Ordered
  <2>4. ~ (Before(m, i, j) /\ Before(m, j, i)) /\ ~ Before(m, i, i)
    BY <1>1, <2>1, BeforeIsTransitive, BeforeIsStrict
  <2> QED
    BY <2>1, <2>2, <2>3, <2>4
<1>5. \A i \in 1..N : Place(m, 1, i) = i
  <2> SUFFICES ASSUME NEW i \in 1..N PROVE Place(m, 1, i) = i
    OBVIOUS
  <2>1. i \in Nat \ {0} /\ \A j \in 1..N : j \in Nat
    BY <1>1
  <2> DEFINE earlier == {j \in 1..N : Before(m, j, i)}
  <2>2. earlier = 1..(i - 1)
    <3>1. \A j \in 1..N : Before(m, j, i) <=> j < i
      BY <1>4
    <3>2. \A j : j \in 1..(i - 1) <=> j \in 1..N /\ j < i
      BY <1>1, <2>1
    <3> QED
      BY <3>1, <3>2
  <2>3. Cardinality(1..(i - 1)) = i - 1
    BY <2>1, FS_Interval
  <2> QED
    <3>1. Place(m, 1, i) = Cardinality(earlier) + 1
      BY <1>3 DEF Place
    <3> HIDE DEF earlier
    <3> QED
      BY <2>1, <2>2, <2>3, <3>1
<1>6. Markup(m, 1) = m
  <2>1. /\ Len(Markup(m, 1)) = N /\ DOMAIN Markup(m, 1) = 1..N /\ Markup(m, 1) \in Seq(Slots)
        /\ Markup(m, 1)[1] = [m[1] EXCEPT !.up = 0]
        /\ \A i \in 1..N : i # 1 => Markup(m, 1)[Place(m, 1, i)] = [m[i] EXCEPT !.up = Place(m, 1, m[i].up)]
    BY <1>1, <1>3, MarkupOf
  <2>2. \A i \in 1..N : m[i] \in Slots
    BY <1>1, ElementOfSeq
  <2>3. \A i \in 1..N : Markup(m, 1)[i] = m[i]
    <3> SUFFICES ASSUME NEW i \in 1..N PROVE Markup(m, 1)[i] = m[i]
      OBVIOUS
    <3>1. CASE i = 1
      <4>1. m[1] \in Slots /\ m[1].up = 0
        BY <1>1, <2>2, <3>1
      <4>2. [m[1] EXCEPT !.up = 0] = m[1]
        BY <4>1 DEF Slots
      <4> QED
        BY <2>1, <3>1, <4>2
    <3>2. CASE i # 1
      <4>1. m[i].up \in 1..N
        BY <1>1, <3>2
      <4>2. Markup(m, 1)[i] = [m[i] EXCEPT !.up = m[i].up]
        BY <1>5, <2>1, <3>2, <4>1
      <4>3. m[i] \in Slots
        BY <2>2
      <4> QED
        BY <4>2, <4>3 DEF Slots
    <3> QED
      BY <3>1, <3>2
  <2> QED
    BY <1>1, <2>1, <2>3, SeqEqual
<1> QED
  BY <1>6 DEF IsMarkup, Shape

\* Parsing what was serialized and serializing it again changes nothing: a piece of
\* markup is made of itself.
LEMMA MarkupIsMarkup ==
  ASSUME NEW d, Arena(d), NEW x \in DOMAIN d
  PROVE  IsMarkup(Markup(d, x))
BY MarkupIsOrdered, OrderedIsMarkup

\* The text can be parsed: the tree it makes has a top, and is serialized to the text.
LEMMA MarkupIsTree ==
  ASSUME NEW m, IsMarkup(m)
  PROVE  /\ Arena(m) /\ 1 \in DOMAIN m /\ m # << >> /\ Markup(m, 1) = m
         /\ Shape(m) /\ Ordered(m)
<1>1. Shape(m) /\ Markup(m, 1) = m
  BY DEF IsMarkup, Shape
<1>2. Arena(m) /\ 1 \in DOMAIN m /\ m # << >>
  BY <1>1, ShapeIsArena DEF Shape
<1>3. Ordered(m)
  BY <1>1, <1>2, MarkupIsOrdered
<1> QED
  BY <1>1, <1>2, <1>3

-----------------------------------------------------------------------------
(* Pieces of markup.                                                        *)

\* Any number of trees in a row, each in document order, none below another.
Forest(m) ==
  /\ m \in Seq(Slots)
  /\ \A i \in DOMAIN m : m[i].up \in 0..(i - 1)

LEMMA ForestIsArena == ASSUME NEW m, Forest(m) PROVE Arena(m)
<1>1. m \in Seq(Slots) /\ Len(m) \in Nat /\ DOMAIN m = 1..Len(m)
  BY DEF Forest
<1> QED
  BY <1>1 DEF Forest, Arena

LEMMA MarkupIsForest == ASSUME NEW m, IsMarkup(m) PROVE Forest(m)
<1>1. Shape(m)
  BY MarkupIsTree
<1>2. /\ m \in Seq(Slots) /\ DOMAIN m = 1..Len(m) /\ m[1].up = 0 /\ Len(m) \in Nat
      /\ \A i \in 1..Len(m) : i # 1 => m[i].up \in 1..(i - 1)
  BY <1>1, ShapeIsArena DEF Arena
<1>3. ASSUME NEW i \in 1..Len(m) PROVE m[i].up \in 0..(i - 1)
  <2>1. CASE i = 1
    BY <1>2, <2>1
  <2>2. CASE i # 1
    <3>1. m[i].up \in 1..(i - 1)
      BY <1>2, <2>2
    <3> QED
      BY <1>2, <3>1
  <2> QED
    BY <2>1, <2>2
<1> QED
  BY <1>2, <1>3 DEF Forest

LEMMA EmptyIsForest == Forest(<< >>)
<1>1. << >> \in Seq(Slots) /\ DOMAIN << >> = {}
  OBVIOUS
<1> QED
  BY <1>1 DEF Forest

\* What makes a sequence of slots a forest.
LEMMA ForestOf ==
  ASSUME NEW m, NEW n \in Nat, DOMAIN m = 1..n, m = [i \in 1..n |-> m[i]],
         \A i \in 1..n : m[i] \in Slots /\ m[i].up \in 0..(i - 1)
  PROVE  Forest(m)
<1>1. m \in [1..n -> Slots]
  OBVIOUS
<1>2. m \in Seq(Slots)
  BY <1>1, SeqDef
<1> QED
  BY <1>2 DEF Forest

LEMMA SlotMoves ==
  ASSUME NEW n \in Slots, NEW u \in Int, NEW b \in Int
  PROVE  /\ [n EXCEPT !.up = u, !.born = b] \in Slots
         /\ [n EXCEPT !.up = u, !.born = b].up = u
         /\ [n EXCEPT !.up = u] \in Slots
         /\ [n EXCEPT !.up = u].up = u
         /\ [n EXCEPT !.up = u].born = n.born
BY DEF Slots

\* What the parser leaves of a piece of markup is one.
LEMMA FragmentIsForest == ASSUME NEW m, Forest(m) PROVE Forest(Fragment(m))
<1> DEFINE S == {x \in DOMAIN m : m[x].tag # "div"}
           k == Cardinality(S)
           n == Len(m) - k
           f == [i \in 1..n |-> [m[i + k] EXCEPT !.up = IF @ <= k THEN 0 ELSE @ - k]]
<1>1. /\ Len(m) \in Nat /\ DOMAIN m = 1..Len(m)
      /\ \A i \in 1..Len(m) : m[i] \in Slots /\ m[i].up \in 0..(i - 1)
  BY ElementOfSeq DEF Forest
<1>2. k \in Nat /\ k <= Len(m)
  <2>1. IsFiniteSet(1..Len(m)) /\ Cardinality(1..Len(m)) = Len(m)
    BY <1>1, FS_Interval
  <2>2. S \subseteq 1..Len(m)
    BY <1>1
  <2> HIDE DEF S
  <2>3. IsFiniteSet(S) /\ Cardinality(S) <= Cardinality(1..Len(m))
    BY <2>1, <2>2, FS_Subset
  <2> QED
    BY <2>1, <2>3, FS_CardinalityType
<1> HIDE DEF k
<1>3. ASSUME NEW i \in 1..n PROVE f[i] \in Slots /\ f[i].up \in 0..(i - 1)
  <2> DEFINE j == i + k
             u == IF m[j].up <= k THEN 0 ELSE m[j].up - k
  <2>1. j \in 1..Len(m) /\ i \in Int /\ j = i + k
    BY <1>1, <1>2
  <2>2. f[i] = [m[j] EXCEPT !.up = u]
    OBVIOUS
  <2> HIDE DEF j, f
  <2>3. m[j] \in Slots /\ m[j].up \in 0..(j - 1)
    BY <1>1, <2>1
  <2>4. u \in 0..(i - 1) /\ u \in Int
    BY <1>2, <2>1, <2>3
  <2> HIDE DEF u
  <2>5. [m[j] EXCEPT !.up = u] \in Slots /\ [m[j] EXCEPT !.up = u].up = u
    BY <2>3, <2>4, SlotMoves
  <2> QED
    BY <2>2, <2>4, <2>5
<1>4. n \in Nat /\ DOMAIN f = 1..n /\ f = [i \in 1..n |-> f[i]]
  BY <1>1, <1>2
<1>5. Fragment(m) = f
  BY DEF Fragment, k
<1> HIDE DEF f, n
<1>6. Forest(f)
  BY <1>3, <1>4, ForestOf
<1> QED
  BY <1>5, <1>6

-----------------------------------------------------------------------------
(* Changes of a tree.                                                       *)

\* d is an arena with every node of old, each the node it was.
Keeps(d, old) ==
  /\ Arena(d) /\ DOMAIN old \subseteq DOMAIN d
  /\ \A x \in DOMAIN old : d[x].born = old[x].born

LEMMA GraftKeeps ==
  ASSUME NEW d, Arena(d), NEW m, Forest(m),
         NEW under \in DOMAIN d, births \in Int
  PROVE  Keeps(Graft(d, m, under), d)
<1> DEFINE new == [i \in DOMAIN m |-> [m[i] EXCEPT !.up = IF @ = 0 THEN under ELSE @ + Len(d),
                                                   !.born = births + i]]
           g == d \o new
<1>1. d \in Seq(Slots) /\ Len(d) \in Nat /\ DOMAIN d = 1..Len(d) /\ under \in 1..Len(d)
  BY DEF Arena
<1>2. /\ Len(m) \in Nat /\ DOMAIN m = 1..Len(m)
      /\ \A i \in 1..Len(m) : m[i] \in Slots /\ m[i].up \in 0..(i - 1)
  BY ElementOfSeq DEF Forest
<1>3. \A i \in 1..Len(m) : new[i] \in Slots /\ new[i].up = IF m[i].up = 0 THEN under ELSE m[i].up + Len(d)
  <2> SUFFICES ASSUME NEW i \in 1..Len(m)
               PROVE  new[i] \in Slots /\ new[i].up = IF m[i].up = 0 THEN under ELSE m[i].up + Len(d)
    OBVIOUS
  <2> DEFINE u == IF m[i].up = 0 THEN under ELSE m[i].up + Len(d)
             b == births + i
  <2>1. m[i] \in Slots /\ b \in Int /\ u \in Int
    BY <1>1, <1>2, SMTT(60) DEF Slots
  <2>2. new[i] = [m[i] EXCEPT !.up = u, !.born = b]
    BY <1>2
  <2>3. new[i] \in Slots /\ new[i].up = u
    <3> HIDE DEF u, b, new
    <3>1. [m[i] EXCEPT !.up = u, !.born = b] \in Slots /\ [m[i] EXCEPT !.up = u, !.born = b].up = u
      BY <2>1, SlotMoves, ZenonT(60)
    <3> QED
      BY <2>2, <3>1
  <2> QED
    BY <2>3
<1>4. new \in Seq(Slots) /\ Len(new) = Len(m)
  <2>1. DOMAIN new = 1..Len(m)
    BY <1>2
  <2>2. new \in [1..Len(m) -> Slots]
    BY <1>3, <2>1
  <2> HIDE DEF new
  <2> QED
    BY <1>2, <2>1, <2>2, SeqDef
<1> HIDE DEF new
<1>5. /\ g \in Seq(Slots) /\ Len(g) = Len(d) + Len(m)
      /\ \A i \in 1..(Len(d) + Len(m)) : g[i] = IF i <= Len(d) THEN d[i] ELSE new[i - Len(d)]
  <2>1. /\ g \in Seq(Slots) /\ Len(g) = Len(d) + Len(new)
        /\ \A i \in 1..(Len(d) + Len(new)) : g[i] = IF i <= Len(d) THEN d[i] ELSE new[i - Len(d)]
    BY <1>1, <1>4, ConcatProperties
  <2> HIDE DEF g
  <2> QED
    BY <1>4, <2>1
<1> HIDE DEF g
<1>6. DOMAIN g = 1..(Len(d) + Len(m))
  BY <1>5
<1>7. ASSUME NEW i \in DOMAIN g PROVE g[i].up \in -1..(i - 1)
  <2>1. CASE i <= Len(d)
    <3>1. i \in DOMAIN d /\ g[i] = d[i]
      BY <1>1, <1>2, <1>5, <1>6, <2>1
    <3> QED
      BY <3>1 DEF Arena
  <2>2. CASE ~ (i <= Len(d))
    <3> DEFINE k == i - Len(d)
    <3>1. k \in 1..Len(m) /\ g[i] = new[k] /\ i = k + Len(d) /\ i \in Int
      <4>1. i \in 1..(Len(d) + Len(m)) /\ Len(d) \in Int /\ Len(m) \in Int
        BY <1>1, <1>2, <1>6
      <4>2. k \in 1..Len(m) /\ i = k + Len(d) /\ i \in Int
        BY <2>2, <4>1
      <4>3. g[i] = new[k]
        BY <1>5, <2>2, <4>1
      <4> QED
        BY <4>2, <4>3
    <3> HIDE DEF k
    <3>2. m[k].up \in 0..(k - 1)
      BY <1>2, <3>1
    <3>3. CASE m[k].up = 0
      <4>1. g[i].up = under
        BY <1>3, <3>1, <3>3
      <4> QED
        BY <1>1, <1>2, <3>1, <4>1
    <3>4. CASE m[k].up # 0
      <4>1. g[i].up = m[k].up + Len(d)
        BY <1>3, <3>1, <3>4
      <4> QED
        BY <1>1, <1>2, <3>1, <3>2, <4>1
    <3> QED
      BY <3>3, <3>4
  <2> QED
    BY <2>1, <2>2
<1>8. \A i \in DOMAIN d : i \in DOMAIN g /\ g[i] = d[i]
  BY <1>1, <1>2, <1>5, <1>6
<1>9. Keeps(g, d)
  BY <1>5, <1>7, <1>8 DEF Keeps, Arena
<1> QED
  BY <1>9 DEF g, new, Graft

LEMMA DetachKeeps ==
  ASSUME NEW d, Arena(d), NEW x
  PROVE  Keeps(Detach(d, x), d) /\ Keeps(DetachChildren(d, x), d)
<1>1. /\ d \in Seq(Slots) /\ Len(d) \in Nat /\ DOMAIN d = 1..Len(d)
      /\ \A y \in 1..Len(d) : d[y] \in Slots /\ d[y].up \in -1..(y - 1)
  BY ElementOfSeq DEF Arena
<1>2. \A y \in 1..Len(d) : /\ [d[y] EXCEPT !.up = -1] \in Slots
                           /\ [d[y] EXCEPT !.up = -1].up = -1
                           /\ [d[y] EXCEPT !.up = -1].born = d[y].born
  <2> SUFFICES ASSUME NEW y \in 1..Len(d)
               PROVE  /\ [d[y] EXCEPT !.up = -1] \in Slots
                      /\ [d[y] EXCEPT !.up = -1].up = -1
                      /\ [d[y] EXCEPT !.up = -1].born = d[y].born
    OBVIOUS
  <2>1. d[y] \in Slots /\ -1 \in Int
    BY <1>1
  <2> QED
    BY <2>1 DEF Slots
<1>3. ASSUME NEW e, DOMAIN e = 1..Len(d), e = [y \in 1..Len(d) |-> e[y]],
             \A y \in 1..Len(d) : e[y] = d[y] \/ e[y] = [d[y] EXCEPT !.up = -1]
      PROVE  Keeps(e, d)
  <2>1. ASSUME NEW y \in 1..Len(d)
        PROVE  e[y] \in Slots /\ e[y].up \in -1..(y - 1) /\ e[y].born = d[y].born
    <3>1. -1 \in -1..(y - 1)
      BY <1>1
    <3> QED
      BY <1>1, <1>2, <1>3, <3>1
  <2>2. e \in [1..Len(d) -> Slots]
    BY <1>3, <2>1
  <2>3. e \in Seq(Slots)
    BY <1>1, <2>2, SeqDef
  <2> QED
    BY <1>1, <1>3, <2>1, <2>3 DEF Keeps, Arena
<1>4. Keeps(Detach(d, x), d)
  <2> DEFINE e == Detach(d, x)
  <2>1. /\ DOMAIN e = 1..Len(d) /\ e = [y \in 1..Len(d) |-> e[y]]
        /\ \A y \in 1..Len(d) : e[y] = d[y] \/ e[y] = [d[y] EXCEPT !.up = -1]
    BY <1>1 DEF Detach
  <2> HIDE DEF e
  <2>2. Keeps(e, d)
    BY <1>3, <2>1
  <2> QED
    BY <2>2 DEF e
<1>5. Keeps(DetachChildren(d, x), d)
  <2> DEFINE e == DetachChildren(d, x)
  <2>1. /\ DOMAIN e = 1..Len(d) /\ e = [y \in 1..Len(d) |-> e[y]]
        /\ \A y \in 1..Len(d) : e[y] = d[y] \/ e[y] = [d[y] EXCEPT !.up = -1]
    BY <1>1 DEF DetachChildren
  <2> HIDE DEF e
  <2>2. Keeps(e, d)
    BY <1>3, <2>1
  <2> QED
    BY <2>2 DEF e
<1> QED
  BY <1>4, <1>5

\* What script can write into a node.
Attributes == [name : Names \cup {None}] \cup [value : Values]

LEMMA AttributeKeeps ==
  ASSUME NEW n \in Slots, NEW new \in Attributes
  PROVE  LET m == [f \in DOMAIN n |-> IF f \in DOMAIN new THEN new[f] ELSE n[f]]
         IN  m \in Slots /\ m.up = n.up /\ m.born = n.born
<1> DEFINE m == [f \in DOMAIN n |-> IF f \in DOMAIN new THEN new[f] ELSE n[f]]
<1>1. DOMAIN n = {"up", "tag", "name", "value", "born"}
  BY DEF Slots
<1>2. CASE new \in [name : Names \cup {None}]
  <2>1. DOMAIN new = {"name"} /\ new.name \in Names \cup {None}
    BY <1>2
  <2>2. /\ m.up = n.up /\ m.born = n.born /\ m.value = n.value /\ m.name = new.name
        /\ m.tag = n.tag /\ m = [f \in {"up", "tag", "name", "value", "born"} |-> m[f]]
    BY <1>1, <2>1
  <2> HIDE DEF m
  <2>3. m \in Slots
    BY <2>1, <2>2 DEF Slots
  <2> QED
    BY <2>2, <2>3 DEF m
<1>3. CASE new \in [value : Values]
  <2>1. DOMAIN new = {"value"} /\ new.value \in Values
    BY <1>3
  <2>2. /\ m.up = n.up /\ m.born = n.born /\ m.value = new.value /\ m.name = n.name
        /\ m.tag = n.tag /\ m = [f \in {"up", "tag", "name", "value", "born"} |-> m[f]]
    BY <1>1, <2>1
  <2> HIDE DEF m
  <2>3. m \in Slots
    BY <2>1, <2>2 DEF Slots
  <2> QED
    BY <2>2, <2>3 DEF m
<1> QED
  BY <1>2, <1>3 DEF Attributes

LEMMA WithAttributeKeeps ==
  ASSUME NEW d, Arena(d), NEW x \in DOMAIN d, NEW new \in Attributes
  PROVE  /\ Keeps(WithAttribute(d, x, new), d)
         /\ DOMAIN WithAttribute(d, x, new) = DOMAIN d
         /\ \A y \in DOMAIN d : WithAttribute(d, x, new)[y].up = d[y].up
<1> DEFINE e == WithAttribute(d, x, new)
           m == [f \in DOMAIN d[x] |-> IF f \in DOMAIN new THEN new[f] ELSE d[x][f]]
<1>1. /\ d \in Seq(Slots) /\ Len(d) \in Nat /\ DOMAIN d = 1..Len(d)
      /\ \A y \in 1..Len(d) : d[y] \in Slots /\ d[y].up \in -1..(y - 1)
  BY ElementOfSeq DEF Arena
<1>2. m \in Slots /\ m.up = d[x].up /\ m.born = d[x].born
  BY <1>1, AttributeKeeps
<1>3. e = [d EXCEPT ![x] = m]
  BY DEF WithAttribute
<1> HIDE DEF e, m
<1>4. /\ DOMAIN e = 1..Len(d)
      /\ \A y \in 1..Len(d) : e[y] \in Slots /\ e[y].up = d[y].up /\ e[y].born = d[y].born
  BY <1>1, <1>2, <1>3
<1>5. e \in Seq(Slots)
  BY <1>1, <1>2, <1>3
<1>6. Keeps(e, d)
  BY <1>1, <1>4, <1>5 DEF Keeps, Arena
<1> QED
  BY <1>1, <1>4, <1>6 DEF e

LEMMA KeepsOnward ==
  ASSUME NEW d, NEW e, NEW f, Keeps(e, d), Keeps(f, e)
  PROVE  Keeps(f, d)
BY DEF Keeps

\* If a node with a parent has the id, First is such a node.
LEMMA FirstIs ==
  ASSUME NEW d, Arena(d), NEW name, \E x \in Parented(d) : d[x].name = name
  PROVE  First(d, name) \in DOMAIN d
<1> DEFINE T == {x \in Parented(d) : d[x].name = name}
<1>1. T \subseteq Nat /\ T # {}
  BY DEF Parented, Arena
<1>2. PICK x \in T : \A y \in T : x <= y
  <2> HIDE DEF T
  <2> QED
    BY <1>1, LeastNumber
<1>3. \E z \in Parented(d) : /\ d[z].name = name
                             /\ \A y \in Parented(d) : d[y].name = name => z <= y
  BY <1>2
<1>4. First(d, name) \in Parented(d)
  BY <1>3 DEF First
<1> QED
  BY <1>4 DEF Parented

-----------------------------------------------------------------------------
(* The tree and the text of the page.                                       *)

\* The text is markup, the serialization of the tree if there is one, and the text
\* the evaluation started from if nothing was mutated.
Pages ==
  /\ IsMarkup(html) /\ Arena(doc)
  /\ doc # << >> => html = Markup(doc, 1)
  /\ ~ mutated => html = Original
  /\ births \in Int

LEMMA DocIsTree ==
  ASSUME Pages
  PROVE  /\ Arena(Doc) /\ Doc # << >> /\ 1 \in DOMAIN Doc /\ html = Markup(Doc, 1)
         /\ doc # << >> => Doc = doc
<1>1. CASE doc = << >>
  BY <1>1, MarkupIsTree DEF Pages, Doc
<1>2. CASE doc # << >>
  <2>1. 1 \in DOMAIN doc
    BY <1>2 DEF Pages, Arena
  <2> QED
    BY <1>2, <2>1 DEF Pages, Doc
<1> QED
  BY <1>1, <1>2

LEMMA PagesInit == Init => Pages
<1> SUFFICES ASSUME Init PROVE Pages
  OBVIOUS
<1>1. IsMarkup(Original) /\ Len(Original) \in Int
  BY OriginalIsMarkup DEF IsMarkup
<1>2. Arena(<< >>)
  BY EmptyIsForest, ForestIsArena
<1> QED
  BY <1>1, <1>2 DEF Init, Pages

\* A reader that parses the text keeps the tree.
LEMMA ReadKeeps ==
  ASSUME Pages, doc' = Doc, UNCHANGED << html, mutated, births >>
  PROVE  Pages'
BY DocIsTree DEF Pages

LEMMA MutateKeeps ==
  ASSUME Pages, NEW d, Keeps(d, Doc), Mutate(d)
  PROVE  Pages' /\ doc' = d /\ 1 \in DOMAIN d /\ Arena(d) /\ d # << >>
<1>1. Arena(d) /\ 1 \in DOMAIN d
  BY DocIsTree DEF Keeps
<1>2. IsMarkup(Markup(d, 1)) /\ d # << >>
  BY <1>1, MarkupIsMarkup
<1>3. Len(d) \in Int /\ Len(Doc) \in Int
  BY <1>1, DocIsTree DEF Arena
<1> QED
  BY <1>1, <1>2, <1>3 DEF Mutate, Pages

\* The tree is taken out and not put back.
LEMMA MissesKeeps ==
  ASSUME Pages, \/ \E w : Misses(w)
                \/ Panics
  PROVE  Pages'
<1>1. Arena(<< >>)
  BY EmptyIsForest, ForestIsArena
<1> QED
  BY <1>1 DEF Misses, Panics, Pages

-----------------------------------------------------------------------------
(* The wrappers.                                                            *)

Tops == {n \in Slots : n.up = 0}
Forests == {m \in Seq(Slots) : Forest(m)}

Wrapper == [node : Nat, top : Tops, html : Forests, stash : Forests]

\* While no tree was dropped, a wrapper with an identity is on a node of the tree, and
\* on the one it was last read from.
OnItsNode(e) ==
  e.node # 0 => doc # << >> /\ e.node \in DOMAIN doc /\ doc[e.node].born = e.top.born

Wrappers ==
  /\ elements \in Seq(Wrapper)
  /\ ~ dropped => \A w \in DOMAIN elements : OnItsNode(elements[w])

LEMMA ForestsAre == ASSUME NEW m PROVE m \in Forests <=> Forest(m)
BY DEF Forests, Forest

LEMMA WrapperIs ==
  ASSUME elements \in Seq(Wrapper), NEW w \in DOMAIN elements
  PROVE  /\ elements[w] \in Wrapper
         /\ elements[w].node \in Nat /\ elements[w].top \in Tops
         /\ elements[w].html \in Forests /\ elements[w].stash \in Forests
<1>1. w \in 1..Len(elements)
  OBVIOUS
<1>2. elements[w] \in Wrapper
  BY <1>1, ElementOfSeq
<1> QED
  BY <1>2 DEF Wrapper

\* A node without what is above it.
LEMMA TopIs ==
  ASSUME NEW d, Arena(d), NEW x \in DOMAIN d
  PROVE  /\ [d[x] EXCEPT !.up = 0] \in Tops
         /\ [d[x] EXCEPT !.up = 0].born = d[x].born
<1>1. d[x] \in Slots /\ 0 \in Int
  BY ElementOfSeq DEF Arena
<1>2. /\ [d[x] EXCEPT !.up = 0] \in Slots /\ [d[x] EXCEPT !.up = 0].up = 0
      /\ [d[x] EXCEPT !.up = 0].born = d[x].born
  BY <1>1, SlotMoves
<1> QED
  BY <1>2 DEF Tops

LEMMA FromNodeIs ==
  ASSUME NEW d, Arena(d), NEW x \in DOMAIN d
  PROVE  /\ FromNode(d, x) \in Wrapper
         /\ FromNode(d, x).node = x /\ FromNode(d, x).top.born = d[x].born
<1> DEFINE t == [d[x] EXCEPT !.up = 0]
           m == Markup(d, x)
<1>1. x \in Nat
  BY DEF Arena
<1>2. t \in Tops /\ t.born = d[x].born
  BY TopIs
<1>3. m \in Forests /\ << >> \in Forests
  BY MarkupIsMarkup, MarkupIsForest, EmptyIsForest, ForestsAre
<1>4. FromNode(d, x) = [node |-> x, top |-> t, html |-> m, stash |-> << >>]
  BY DEF FromNode
<1> HIDE DEF t, m
<1> QED
  BY <1>1, <1>2, <1>3, <1>4 DEF Wrapper

LEMMA SyntheticIs ==
  ASSUME NEW t \in Tops, NEW m \in Forests
  PROVE  Synthetic(t, m) \in Wrapper /\ Synthetic(t, m).node = 0
<1>1. << >> \in Forests
  BY EmptyIsForest, ForestsAre
<1> QED
  BY <1>1 DEF Synthetic, Wrapper

\* What a wrapper is as markup.
LEMMA OuterIs ==
  ASSUME NEW e \in Wrapper
  PROVE  Forest(Outer(e))
<1> DEFINE inner == IF e.stash # << >> THEN e.stash ELSE e.html
           shifted == [i \in DOMAIN inner |-> [inner[i] EXCEPT !.up = @ + 1]]
           m == <<e.top>> \o shifted
<1>1. e.top \in Slots /\ e.top.up = 0 /\ Forest(inner)
  BY ForestsAre DEF Wrapper, Tops
<1>2. Outer(e) = m
  BY DEF Outer
<1> HIDE DEF inner
<1>3. /\ Len(inner) \in Nat /\ DOMAIN inner = 1..Len(inner)
      /\ \A i \in 1..Len(inner) : inner[i] \in Slots /\ inner[i].up \in 0..(i - 1)
  BY <1>1, ElementOfSeq DEF Forest
<1>4. ASSUME NEW i \in 1..Len(inner)
      PROVE  shifted[i] \in Slots /\ shifted[i].up \in 1..i
  <2> DEFINE u == inner[i].up + 1
  <2>1. shifted[i] = [inner[i] EXCEPT !.up = u] /\ inner[i] \in Slots /\ u \in 1..i /\ u \in Int
    BY <1>3
  <2> HIDE DEF u, shifted
  <2>2. [inner[i] EXCEPT !.up = u] \in Slots /\ [inner[i] EXCEPT !.up = u].up = u
    BY <2>1, SlotMoves
  <2> QED
    BY <2>1, <2>2
<1>5. shifted \in Seq(Slots) /\ Len(shifted) = Len(inner)
  <2>1. DOMAIN shifted = 1..Len(inner)
    BY <1>3
  <2>2. shifted \in [1..Len(inner) -> Slots]
    BY <1>4, <2>1
  <2> HIDE DEF shifted
  <2> QED
    BY <1>3, <2>1, <2>2, SeqDef
<1> HIDE DEF shifted
<1>6. /\ m \in Seq(Slots) /\ DOMAIN m = 1..(1 + Len(inner))
      /\ \A i \in 1..(1 + Len(inner)) : m[i] = IF i = 1 THEN e.top ELSE shifted[i - 1]
  <2>1. <<e.top>> \in Seq(Slots) /\ Len(<<e.top>>) = 1 /\ <<e.top>>[1] = e.top
    BY <1>1
  <2>2. /\ m \in Seq(Slots) /\ Len(m) = 1 + Len(shifted)
        /\ \A i \in 1..(1 + Len(shifted)) : m[i] = IF i <= 1 THEN <<e.top>>[i] ELSE shifted[i - 1]
    BY <1>5, <2>1, ConcatProperties
  <2> HIDE DEF m
  <2>3. DOMAIN m = 1..(1 + Len(inner))
    BY <1>5, <2>2
  <2>4. \A i \in 1..(1 + Len(inner)) : i <= 1 <=> i = 1
    OBVIOUS
  <2> QED
    BY <1>5, <2>1, <2>2, <2>3, <2>4
<1> HIDE DEF m
<1>7. ASSUME NEW i \in 1..(1 + Len(inner)) PROVE m[i].up \in 0..(i - 1)
  <2>1. CASE i = 1
    BY <1>1, <1>6, <2>1
  <2>2. CASE i # 1
    <3> DEFINE k == i - 1
    <3>1. k \in 1..Len(inner) /\ m[i] = shifted[k] /\ k = i - 1 /\ i \in Int
      BY <1>3, <1>6, <2>2
    <3> HIDE DEF k
    <3>2. m[i].up \in 1..k
      BY <1>4, <3>1
    <3> QED
      BY <3>1, <3>2
  <2> QED
    BY <2>1, <2>2
<1>8. Forest(m)
  BY <1>6, <1>7 DEF Forest
<1> QED
  BY <1>2, <1>8

\* Whatever changes the tree, the wrappers it has stay on their nodes.
LEMMA OldStay ==
  ASSUME Pages, Wrappers, Keeps(doc', Doc), doc' # << >>
  PROVE  ~ dropped => \A w \in DOMAIN elements :
           elements[w].node # 0 => elements[w].node \in DOMAIN doc'
                                   /\ doc'[elements[w].node].born = elements[w].top.born
<1> SUFFICES ASSUME ~ dropped, NEW w \in DOMAIN elements, elements[w].node # 0
             PROVE  elements[w].node \in DOMAIN doc' /\ doc'[elements[w].node].born = elements[w].top.born
  OBVIOUS
<1>1. doc # << >> /\ elements[w].node \in DOMAIN doc /\ doc[elements[w].node].born = elements[w].top.born
  BY DEF Wrappers, OnItsNode
<1>2. Doc = doc
  BY <1>1, DocIsTree
<1> QED
  BY <1>1, <1>2 DEF Keeps

\* A new wrapper, on a node of the tree or on none.
LEMMA AppendKeeps ==
  ASSUME Pages, Wrappers, Keeps(doc', Doc), doc' # << >>, ~ dropped' => ~ dropped,
         NEW e \in Wrapper, e.node # 0 => e.node \in DOMAIN doc' /\ doc'[e.node].born = e.top.born,
         elements' = Append(elements, e)
  PROVE  Wrappers'
<1>1. elements \in Seq(Wrapper) /\ Len(elements) \in Nat /\ DOMAIN elements = 1..Len(elements)
  BY DEF Wrappers
<1>2. /\ elements' \in Seq(Wrapper) /\ DOMAIN elements' = 1..(Len(elements) + 1)
      /\ \A w \in 1..(Len(elements) + 1) : elements'[w] = IF w \in DOMAIN elements THEN elements[w] ELSE e
  <2>1. elements' \in Seq(Wrapper) /\ Len(elements') = Len(elements) + 1
        /\ \A w \in 1..Len(elements) : elements'[w] = elements[w]
        /\ elements'[Len(elements) + 1] = e
    BY <1>1, AppendProperties
  <2> QED
    BY <1>1, <2>1
<1>3. ASSUME ~ dropped', NEW w \in DOMAIN elements' PROVE OnItsNode(elements[w])'
  <2>1. CASE w \in DOMAIN elements
    BY <1>2, <1>3, <2>1, OldStay DEF OnItsNode
  <2>2. CASE w \notin DOMAIN elements
    BY <1>2, <1>3, <2>2 DEF OnItsNode
  <2> QED
    BY <2>1, <2>2
<1> QED
  BY <1>2, <1>3 DEF Wrappers

\* A wrapper that is read again, from a node of the tree.
LEMMA ReplaceKeeps ==
  ASSUME Pages, Wrappers, Keeps(doc', Doc), doc' # << >>, ~ dropped' => ~ dropped,
         NEW e \in Wrapper, e.node # 0 => e.node \in DOMAIN doc' /\ doc'[e.node].born = e.top.born,
         NEW w \in DOMAIN elements, elements' = [elements EXCEPT ![w] = e]
  PROVE  Wrappers'
<1>1. elements \in Seq(Wrapper) /\ Len(elements) \in Nat /\ DOMAIN elements = 1..Len(elements)
  BY DEF Wrappers
<1>2. /\ elements' \in Seq(Wrapper) /\ DOMAIN elements' = DOMAIN elements
      /\ \A v \in DOMAIN elements : elements'[v] = IF v = w THEN e ELSE elements[v]
  BY <1>1
<1>3. ASSUME ~ dropped', NEW v \in DOMAIN elements' PROVE OnItsNode(elements[v])'
  <2>1. CASE v # w
    BY <1>2, <1>3, <2>1, OldStay DEF OnItsNode
  <2>2. CASE v = w
    BY <1>2, <1>3, <2>2 DEF OnItsNode
  <2> QED
    BY <2>1, <2>2
<1> QED
  BY <1>2, <1>3 DEF Wrappers

LEMMA StayKeeps ==
  ASSUME Pages, Wrappers, Keeps(doc', Doc), doc' # << >>, ~ dropped' => ~ dropped, elements' = elements
  PROVE  Wrappers'
BY OldStay DEF Wrappers, OnItsNode

LEMMA MissesStay ==
  ASSUME Pages, Wrappers, NEW w \in DOMAIN elements, Misses(w),
         \/ elements' = elements
         \/ \E e \in Wrapper : /\ e.node = elements[w].node /\ e.top.born = elements[w].top.born
                             /\ elements' = [elements EXCEPT ![w] = e]
  PROVE  Pages' /\ Wrappers'
<1>1. Pages'
  BY MissesKeeps
<1>2. /\ elements' \in Seq(Wrapper) /\ DOMAIN elements' = DOMAIN elements
      /\ \A v \in DOMAIN elements : elements'[v].node = elements[v].node
                                    /\ elements'[v].top.born = elements[v].top.born
  <2>1. elements \in Seq(Wrapper)
    BY DEF Wrappers
  <2>2. CASE elements' = elements
    BY <2>1, <2>2
  <2>3. ASSUME NEW e \in Wrapper, e.node = elements[w].node, e.top.born = elements[w].top.born,
               elements' = [elements EXCEPT ![w] = e]
        PROVE  /\ elements' \in Seq(Wrapper) /\ DOMAIN elements' = DOMAIN elements
               /\ \A v \in DOMAIN elements : elements'[v].node = elements[v].node
                                             /\ elements'[v].top.born = elements[v].top.born
    <3>1. elements' \in Seq(Wrapper) /\ DOMAIN elements' = DOMAIN elements
      BY <2>1, <2>3
    <3>2. \A v \in DOMAIN elements : elements'[v] = IF v = w THEN e ELSE elements[v]
      BY <2>1, <2>3
    <3> QED
      BY <2>3, <3>1, <3>2
  <2> QED
    BY <2>2, <2>3
<1>3. CASE elements[w].node # 0
  <2>1. dropped'
    BY <1>3 DEF Misses, OnTree, At
  <2> QED
    BY <1>1, <1>2, <2>1 DEF Wrappers
<1>4. CASE elements[w].node = 0
  <2>1. doc' = doc /\ (~ dropped' => ~ dropped)
    BY <1>4 DEF Misses, OnTree, At
  <2>2. ASSUME ~ dropped', NEW v \in DOMAIN elements' PROVE OnItsNode(elements[v])'
    BY <1>2, <2>1, <2>2 DEF Wrappers, OnItsNode
  <2> QED
    BY <1>1, <1>2, <2>2 DEF Wrappers
<1> QED
  BY <1>3, <1>4

\* A wrapper off the document that is given something.
LEMMA KeepKeeps ==
  ASSUME Pages, Wrappers, NEW w \in DOMAIN elements, NEW e \in Wrapper, Keep(w, e),
         e.node = elements[w].node, e.top.born = elements[w].top.born
  PROVE  Pages' /\ Wrappers'
BY MissesStay DEF Keep

\* A wrapper that is read again, from x.
LEMMA RereadKeeps ==
  ASSUME Pages, Wrappers, NEW w \in DOMAIN elements, NEW d, Keeps(d, Doc), Mutate(d),
         NEW x \in DOMAIN d, Reread(w, x)
  PROVE  Pages' /\ Wrappers'
<1>1. Pages' /\ doc' = d /\ Arena(d) /\ d # << >> /\ (~ dropped' => ~ dropped)
  BY MutateKeeps DEF Mutate
<1> DEFINE f == FromNode(d, x)
           e == [f EXCEPT !.stash = elements[w].stash]
<1>2. f \in Wrapper /\ f.node = x /\ f.top.born = d[x].born
  BY <1>1, FromNodeIs
<1>3. elements[w].stash \in Forests
  BY WrapperIs DEF Wrappers
<1>4. elements' = [elements EXCEPT ![w] = e]
  BY <1>1 DEF Reread
<1> HIDE DEF f
<1>5. e \in Wrapper /\ e.node = f.node /\ e.top = f.top
  BY <1>2, <1>3 DEF Wrapper
<1> HIDE DEF e
<1>6. Wrappers'
  BY <1>1, <1>2, <1>4, <1>5, ReplaceKeeps
<1> QED
  BY <1>1, <1>6

\* A change that lands: the tree is put back with every node it had, its text is
\* the text, and the wrapper is read again.
LEMMA ResnapshotKeeps ==
  ASSUME Pages, Wrappers, NEW w \in DOMAIN elements, NEW d, Keeps(d, Doc), Mutate(d), Resnapshot(w)
  PROVE  Pages' /\ Wrappers'
<1>1. doc' = d /\ Pages' /\ Arena(d) /\ d # << >> /\ (~ dropped' => ~ dropped)
  BY MutateKeeps DEF Mutate
<1> DEFINE name == elements[w].top.name
<1>2. CASE name # None /\ \E x \in Parented(d) : d[x].name = name
  <2>1. First(d, name) \in DOMAIN d
    BY <1>1, <1>2, FirstIs
  <2>2. Reread(w, First(d, name))
    BY <1>1, <1>2 DEF Resnapshot
  <2> HIDE DEF name
  <2> QED
    BY <2>1, <2>2, RereadKeeps
<1>3. CASE ~ (name # None /\ \E x \in Parented(d) : d[x].name = name)
  <2>1. elements' = elements
    BY <1>1, <1>3 DEF Resnapshot
  <2> QED
    BY <1>1, <2>1, StayKeeps
<1> QED
  BY <1>2, <1>3

LEMMA NodeIs ==
  ASSUME NEW tag \in {"div", "tr"}, NEW name \in Names \cup {None}, NEW v \in Values
  PROVE  /\ Node(tag, name, v) \in Tops
         /\ Forest(<<Node(tag, name, v)>>)
<1> DEFINE n == Node(tag, name, v)
<1>1. n \in Slots /\ n.up = 0
  BY DEF Node, Slots
<1> HIDE DEF n
<1>2. <<n>> \in Seq(Slots) /\ DOMAIN <<n>> = {1} /\ <<n>>[1] = n
  BY <1>1
<1>3. Forest(<<n>>)
  <2> DEFINE m == <<n>>
  <2>1. m \in Seq(Slots) /\ DOMAIN m = {1} /\ m[1].up = 0
    BY <1>1, <1>2
  <2> HIDE DEF m
  <2>2. Forest(m)
    BY <2>1 DEF Forest
  <2> QED
    BY <2>2 DEF m
<1> QED
  BY <1>1, <1>3 DEF n, Tops

-----------------------------------------------------------------------------
(* The calls of the script.                                                 *)

PageInv == Pages /\ Wrappers

LEMMA PageInvInit == Init => PageInv
<1> SUFFICES ASSUME Init PROVE PageInv
  OBVIOUS
<1>1. elements = << >>
  BY DEF Init
<1>2. Wrappers
  BY <1>1 DEF Wrappers
<1> QED
  BY <1>2, PagesInit DEF PageInv

LEMMA KeepsItself == ASSUME NEW d, Arena(d) PROVE Keeps(d, d)
BY DEF Keeps

\* A new wrapper on x, a node of the document.
LEMMA FindKeeps ==
  ASSUME PageInv, doc' = Doc, UNCHANGED << html, mutated, births, dropped >>,
         NEW x \in DOMAIN Doc, elements' = Append(elements, FromNode(Doc, x))
  PROVE  PageInv'
<1>1. Pages' /\ Keeps(doc', Doc) /\ doc' # << >>
  BY ReadKeeps, DocIsTree, KeepsItself DEF PageInv
<1>2. /\ FromNode(Doc, x) \in Wrapper
      /\ FromNode(Doc, x).node = x /\ FromNode(Doc, x).top.born = Doc[x].born
  BY DocIsTree, FromNodeIs DEF PageInv
<1> DEFINE e == FromNode(Doc, x)
<1>3. e \in Wrapper /\ (e.node # 0 => e.node \in DOMAIN doc' /\ doc'[e.node].born = e.top.born)
      /\ elements' = Append(elements, e) /\ (~ dropped' => ~ dropped)
  BY <1>2
<1> HIDE DEF e
<1>4. Wrappers'
  BY <1>1, <1>3, AppendKeeps DEF PageInv
<1> QED
  BY <1>1, <1>4 DEF PageInv

LEMMA FindsKeep ==
  ASSUME PageInv, Find \/ FindTop \/ FindParent \/ FindAbove
  PROVE  PageInv'
<1>1. Arena(Doc) /\ 1 \in DOMAIN Doc
  BY DocIsTree DEF PageInv
<1>2. CASE Find
  <2>1. PICK x \in Parented(Doc) : elements' = Append(elements, FromNode(Doc, x))
    BY <1>2 DEF Find
  <2>2. x \in DOMAIN Doc
    BY DEF Parented
  <2> QED
    BY <1>2, <2>1, <2>2, FindKeeps DEF Find, textVars
<1>3. CASE FindTop
  BY <1>1, <1>3, FindKeeps DEF FindTop, textVars
<1>4. CASE FindParent
  <2>1. PICK w \in DOMAIN elements :
          /\ Resolves(Doc, w) /\ Doc[elements[w].node].up >= 1
          /\ elements' = Append(elements, FromNode(Doc, Doc[elements[w].node].up))
    BY <1>4 DEF FindParent
  <2>2. Doc[elements[w].node].up \in DOMAIN Doc
    BY <1>1, <2>1, AncestorsAbove DEF Resolves
  <2> QED
    BY <1>4, <2>1, <2>2, FindKeeps DEF FindParent, textVars
<1>5. CASE FindAbove
  <2>1. PICK w \in DOMAIN elements : /\ Resolves(Doc, w)
          /\ \E x \in Ancestors(Doc, elements[w].node) : elements' = Append(elements, FromNode(Doc, x))
    BY <1>5 DEF FindAbove
  <2>2. PICK x \in Ancestors(Doc, elements[w].node) : elements' = Append(elements, FromNode(Doc, x))
    BY <2>1
  <2>3. x \in DOMAIN Doc
    BY <1>1, <2>1, AncestorsAreEarlier DEF Resolves
  <2> QED
    BY <1>5, <2>2, <2>3, FindKeeps DEF FindAbove, textVars
<1> QED
  BY <1>2, <1>3, <1>4, <1>5

\* A new wrapper that is on no node, over a tree that is read or left alone.
LEMMA FindWithinKeeps == ASSUME PageInv, FindWithin PROVE PageInv'
<1>1. Pages' /\ Keeps(doc', Doc) /\ doc' # << >> /\ Arena(Doc) /\ (~ dropped' => ~ dropped)
  BY ReadKeeps, DocIsTree, KeepsItself DEF PageInv, FindWithin, textVars
<1>2. PICK w \in DOMAIN elements :
        /\ Resolves(Doc, w)
        /\ LET copy == Fragment(Markup(Doc, elements[w].node))
           IN \E x \in DOMAIN copy :
                elements' = Append(elements, Synthetic([copy[x] EXCEPT !.up = 0], Markup(copy, x)))
  BY DEF FindWithin
<1> DEFINE copy == Fragment(Markup(Doc, elements[w].node))
<1>3. PICK x \in DOMAIN copy :
        elements' = Append(elements, Synthetic([copy[x] EXCEPT !.up = 0], Markup(copy, x)))
  BY <1>2
<1>4. Arena(copy)
  BY <1>1, <1>2, MarkupIsMarkup, MarkupIsForest, FragmentIsForest, ForestIsArena DEF Resolves
<1> HIDE DEF copy
<1> DEFINE t == [copy[x] EXCEPT !.up = 0]
           m == Markup(copy, x)
           e == Synthetic(t, m)
<1>5. t \in Tops
  BY <1>4, TopIs
<1>6. m \in Forests
  BY <1>4, MarkupIsMarkup, MarkupIsForest, ForestsAre
<1>7. elements' = Append(elements, e)
  BY <1>3
<1> HIDE DEF t, m
<1>8. e \in Wrapper /\ e.node = 0
  BY <1>5, <1>6, SyntheticIs
<1> HIDE DEF e
<1>9. Wrappers'
  BY <1>1, <1>7, <1>8, AppendKeeps DEF PageInv
<1> QED
  BY <1>1, <1>9 DEF PageInv

LEMMA CreateElementKeeps == ASSUME PageInv, CreateElement PROVE PageInv'
<1>1. UNCHANGED << html, doc, mutated, births, dropped >>
  BY DEF CreateElement, docVars, textVars
<1>2. PICK tag \in {"div", "tr"}, v \in Values :
        elements' = Append(elements, Synthetic(Node(tag, None, v), << >>))
  BY DEF CreateElement
<1>3. Node(tag, None, v) \in Tops /\ << >> \in Forests
  BY NodeIs, EmptyIsForest, ForestsAre
<1> DEFINE e == Synthetic(Node(tag, None, v), << >>)
<1>4. e \in Wrapper /\ e.node = 0 /\ elements' = Append(elements, e)
  BY <1>2, <1>3, SyntheticIs
<1> HIDE DEF e
<1>5. elements \in Seq(Wrapper)
  BY DEF PageInv, Wrappers
<1>6. /\ elements' \in Seq(Wrapper) /\ Len(elements') = Len(elements) + 1
      /\ \A w \in 1..Len(elements) : elements'[w] = elements[w]
      /\ elements'[Len(elements) + 1] = e
  BY <1>4, <1>5, AppendProperties
<1>7. ASSUME ~ dropped', NEW w \in DOMAIN elements' PROVE OnItsNode(elements[w])'
  <2>1. DOMAIN elements = 1..Len(elements) /\ DOMAIN elements' = 1..(Len(elements) + 1)
        /\ Len(elements) \in Nat
    BY <1>5, <1>6
  <2>2. CASE w \in DOMAIN elements
    BY <1>1, <1>6, <1>7, <2>1, <2>2 DEF PageInv, Wrappers, OnItsNode
  <2>3. CASE w \notin DOMAIN elements
    BY <1>4, <1>6, <2>1, <2>3 DEF OnItsNode
  <2> QED
    BY <2>2, <2>3
<1>8. Pages'
  BY <1>1 DEF PageInv, Pages
<1> QED
  BY <1>6, <1>7, <1>8 DEF PageInv, Wrappers

LEMMA SetInnerHtmlKeeps == ASSUME PageInv, SetInnerHtml PROVE PageInv'
<1>0. Pages /\ Wrappers /\ Arena(Doc) /\ births \in Int /\ elements \in Seq(Wrapper)
  BY DocIsTree DEF PageInv, Pages, Wrappers
<1>1. PICK w \in DOMAIN elements, name \in Names \cup {None}, v \in Values :
        LET markup == <<Node("div", name, v)>>
        IN IF Lands(w)
           THEN /\ Mutate(Graft(DetachChildren(Doc, At(w)), Fragment(markup), At(w)))
                /\ Resnapshot(w)
           ELSE Keep(w, [elements[w] EXCEPT !.stash = markup])
  BY DEF SetInnerHtml
<1> DEFINE markup == <<Node("div", name, v)>>
<1>2. Forest(markup)
  BY NodeIs
<1> HIDE DEF markup
<1>3. CASE Lands(w)
  <2> DEFINE e == DetachChildren(Doc, At(w))
             d == Graft(e, Fragment(markup), At(w))
  <2>1. At(w) \in DOMAIN Doc
    BY <1>3 DEF Lands, Resolves, At
  <2>2. Keeps(e, Doc)
    BY <1>0, DetachKeeps
  <2>3. Mutate(d) /\ Resnapshot(w)
    BY <1>1, <1>3 DEF markup
  <2>4. Keeps(d, e)
    <3>1. Arena(e) /\ At(w) \in DOMAIN e
      BY <2>1, <2>2 DEF Keeps
    <3>2. Forest(Fragment(markup))
      BY <1>2, FragmentIsForest
    <3> HIDE DEF e
    <3> QED
      BY <1>0, <3>1, <3>2, GraftKeeps
  <2> HIDE DEF d, e
  <2>5. Keeps(d, Doc)
    BY <2>2, <2>4, KeepsOnward
  <2> QED
    BY <1>0, <2>3, <2>5, ResnapshotKeeps DEF PageInv
<1>4. CASE ~ Lands(w)
  <2> DEFINE e == [elements[w] EXCEPT !.stash = markup]
  <2>1. markup \in Forests /\ elements[w] \in Wrapper
    BY <1>0, <1>2, ForestsAre, WrapperIs
  <2>2. e \in Wrapper /\ e.node = elements[w].node /\ e.top = elements[w].top
    BY <2>1 DEF Wrapper
  <2>3. Keep(w, e)
    BY <1>1, <1>4 DEF markup
  <2> HIDE DEF e
  <2> QED
    BY <1>0, <2>2, <2>3, KeepKeeps DEF PageInv
<1> QED
  BY <1>3, <1>4

\* An attribute or the text of a node changes.
LEMMA AttributeLands ==
  ASSUME Pages, Wrappers, NEW w \in DOMAIN elements, Lands(w), NEW e, Keeps(e, Doc),
         NEW new \in Attributes, Mutate(WithAttribute(e, At(w), new)),
         Resnapshot(w) \/ Reread(w, At(w))
  PROVE  Pages' /\ Wrappers'
<1> DEFINE d == WithAttribute(e, At(w), new)
<1>1. At(w) \in DOMAIN Doc
  BY DEF Lands, Resolves, At
<1>2. Arena(e) /\ At(w) \in DOMAIN e
  BY <1>1 DEF Keeps
<1>3. Keeps(d, e)
  BY <1>2, WithAttributeKeeps
<1>4. Mutate(d)
  OBVIOUS
<1> HIDE DEF d
<1>5. Keeps(d, Doc) /\ At(w) \in DOMAIN d
  BY <1>1, <1>3, KeepsOnward DEF Keeps
<1> QED
  BY <1>4, <1>5, ResnapshotKeeps, RereadKeeps

LEMMA SetTextContentKeeps == ASSUME PageInv, SetTextContent PROVE PageInv'
<1>0. Pages /\ Wrappers /\ Arena(Doc) /\ elements \in Seq(Wrapper)
  BY DocIsTree DEF PageInv, Wrappers
<1>1. PICK w \in DOMAIN elements, v \in Values :
        IF Lands(w)
        THEN /\ Mutate(WithAttribute(DetachChildren(Doc, At(w)), At(w), [value |-> v]))
             /\ Resnapshot(w)
        ELSE Keep(w, [elements[w] EXCEPT !.html = << >>,
                                         !.top.value = IF elements[w].stash = << >> THEN v ELSE @])
  BY DEF SetTextContent
<1>2. CASE Lands(w)
  <2>1. Keeps(DetachChildren(Doc, At(w)), Doc)
    BY <1>0, DetachKeeps
  <2>2. [value |-> v] \in Attributes
    BY DEF Attributes
  <2> QED
    BY <1>0, <1>1, <1>2, <2>1, <2>2, AttributeLands DEF PageInv
<1>3. CASE ~ Lands(w)
  <2> DEFINE t == elements[w].top
             u == [t EXCEPT !.value = IF elements[w].stash = << >> THEN v ELSE @]
             f == [elements[w] EXCEPT !.html = << >>]
             e == [f EXCEPT !.top = u]
  <2>1. elements[w] \in Wrapper /\ t \in Tops /\ << >> \in Forests
    BY <1>0, EmptyIsForest, ForestsAre, WrapperIs
  <2>2. f \in Wrapper /\ f.node = elements[w].node /\ f.top = t
    BY <2>1 DEF Wrapper
  <2>3. Keep(w, e)
    <3>1. e = [elements[w] EXCEPT !.html = << >>,
                                  !.top.value = IF elements[w].stash = << >> THEN v ELSE @]
      BY <2>1 DEF Wrapper
    <3> HIDE DEF e
    <3> QED
      BY <1>1, <1>3, <3>1
  <2> HIDE DEF t, f
  <2>4. u \in Tops /\ u.born = t.born
    BY <2>1 DEF Tops, Slots
  <2> HIDE DEF u
  <2>5. e \in Wrapper /\ e.node = f.node /\ e.top = u
    BY <2>2, <2>4 DEF Wrapper
  <2> HIDE DEF e
  <2>6. e.node = elements[w].node /\ e.top.born = elements[w].top.born
    BY <2>2, <2>4, <2>5 DEF t
  <2> QED
    BY <1>0, <2>3, <2>5, <2>6, KeepKeeps DEF PageInv
<1> QED
  BY <1>2, <1>3

LEMMA AppendChildKeeps == ASSUME PageInv, AppendChild PROVE PageInv'
<1>0. Pages /\ Wrappers /\ Arena(Doc) /\ births \in Int /\ elements \in Seq(Wrapper)
  BY DocIsTree DEF PageInv, Pages, Wrappers
<1>1. PICK w \in DOMAIN elements, c \in DOMAIN elements :
        LET fragment == Fragment(Outer(elements[c]))
        IN IF Lands(w) /\ fragment # << >>
           THEN Mutate(Graft(Doc, fragment, At(w))) /\ Resnapshot(w)
           ELSE Misses(w) /\ UNCHANGED elements
  BY DEF AppendChild
<1> DEFINE m == Fragment(Outer(elements[c]))
<1>2. CASE Lands(w) /\ m # << >>
  <2> DEFINE d == Graft(Doc, m, At(w))
  <2>1. At(w) \in DOMAIN Doc
    BY <1>2 DEF Lands, Resolves, At
  <2>2. Forest(m)
    BY <1>0, WrapperIs, OuterIs, FragmentIsForest
  <2>3. Mutate(d) /\ Resnapshot(w)
    BY <1>1, <1>2
  <2> HIDE DEF m
  <2>4. Keeps(d, Doc)
    BY <1>0, <2>1, <2>2, GraftKeeps
  <2> HIDE DEF d
  <2> QED
    BY <1>0, <2>3, <2>4, ResnapshotKeeps DEF PageInv
<1>3. CASE ~ (Lands(w) /\ m # << >>)
  BY <1>0, <1>1, <1>3, MissesStay DEF PageInv
<1> QED
  BY <1>2, <1>3

LEMMA AppendTextKeeps == ASSUME PageInv, AppendText PROVE PageInv'
<1>0. Pages /\ Wrappers /\ Arena(Doc)
  BY DocIsTree DEF PageInv
<1>1. PICK w \in DOMAIN elements, v \in Values :
        IF Lands(w) THEN Mutate(WithAttribute(Doc, At(w), [value |-> v])) /\ Resnapshot(w)
                    ELSE Misses(w) /\ UNCHANGED elements
  BY DEF AppendText
<1>2. CASE Lands(w)
  <2>1. Keeps(Doc, Doc) /\ [value |-> v] \in Attributes
    BY <1>0, KeepsItself DEF Attributes
  <2> QED
    BY <1>0, <1>1, <1>2, <2>1, AttributeLands DEF PageInv
<1>3. CASE ~ Lands(w)
  BY <1>0, <1>1, <1>3, MissesStay DEF PageInv
<1> QED
  BY <1>2, <1>3

LEMMA SetAttributeKeeps == ASSUME PageInv, SetAttribute PROVE PageInv'
<1>0. Pages /\ Wrappers /\ Arena(Doc) /\ elements \in Seq(Wrapper)
  BY DocIsTree DEF PageInv, Wrappers
<1>1. PICK w \in DOMAIN elements, new \in Attributes :
        IF Lands(w)
        THEN Mutate(WithAttribute(Doc, At(w), new)) /\ Reread(w, At(w))
        ELSE Keep(w, [elements[w] EXCEPT !.top = WithAttribute(<<@>>, 1, new)[1]])
  BY DEF SetAttribute, Attributes
<1>2. CASE Lands(w)
  <2>1. Keeps(Doc, Doc)
    BY <1>0, KeepsItself
  <2> QED
    BY <1>0, <1>1, <1>2, <2>1, AttributeLands DEF PageInv
<1>3. CASE ~ Lands(w)
  <2> DEFINE t == elements[w].top
             u == [f \in DOMAIN t |-> IF f \in DOMAIN new THEN new[f] ELSE t[f]]
             e == [elements[w] EXCEPT !.top = u]
  <2>1. elements[w] \in Wrapper /\ t \in Slots /\ t.up = 0
    BY <1>0, WrapperIs DEF Tops
  <2>2. WithAttribute(<<t>>, 1, new)[1] = u
    BY DEF WithAttribute
  <2>3. Keep(w, e)
    <3>1. Keep(w, [elements[w] EXCEPT !.top = WithAttribute(<<t>>, 1, new)[1]])
      BY <1>1, <1>3
    <3> HIDE DEF t, u
    <3> QED
      BY <2>2, <3>1
  <2>4. u \in Slots /\ u.up = 0 /\ u.born = t.born
    <3> HIDE DEF t
    <3> QED
      BY <2>1, AttributeKeeps
  <2> HIDE DEF u
  <2>5. e \in Wrapper /\ e.node = elements[w].node /\ e.top = u
    BY <2>1, <2>4 DEF Wrapper, Tops
  <2> HIDE DEF e
  <2> QED
    BY <1>0, <2>3, <2>4, <2>5, KeepKeeps DEF PageInv
<1> QED
  BY <1>2, <1>3

LEMMA RemoveElementKeeps == ASSUME PageInv, RemoveElement PROVE PageInv'
<1>0. Pages /\ Wrappers /\ Arena(Doc)
  BY DocIsTree DEF PageInv
<1>1. elements' = elements
  BY DEF RemoveElement
<1>2. PICK w \in DOMAIN elements :
        Mutate(Detach(Doc, At(w))) \/ Panics \/ Misses(w)
  BY DEF RemoveElement
<1>3. CASE Mutate(Detach(Doc, At(w)))
  <2>1. Keeps(Detach(Doc, At(w)), Doc)
    BY <1>0, DetachKeeps
  <2>2. Pages' /\ doc' = Detach(Doc, At(w)) /\ doc' # << >> /\ (~ dropped' => ~ dropped)
    BY <1>0, <1>3, <2>1, MutateKeeps DEF Mutate
  <2>3. Wrappers'
    BY <1>0, <1>1, <2>1, <2>2, StayKeeps
  <2> QED
    BY <2>2, <2>3 DEF PageInv
<1>4. CASE Panics
  <2>1. Pages' /\ dropped'
    BY <1>0, <1>4, MissesKeeps DEF Panics
  <2> QED
    BY <1>0, <1>1, <2>1 DEF PageInv, Wrappers
<1>5. CASE Misses(w)
  BY <1>0, <1>1, <1>5, MissesStay DEF PageInv
<1> QED
  BY <1>2, <1>3, <1>4, <1>5

\* Listeners, dispatches and the history leave the page alone.
LEMMA PageStays ==
  ASSUME PageInv, UNCHANGED << html, doc, mutated, births, elements, dropped >>
  PROVE  PageInv'
BY DEF PageInv, Pages, Wrappers, OnItsNode

LEMMA PageInvNext == PageInv /\ [Next]_vars => PageInv'
<1> SUFFICES ASSUME PageInv, [Next]_vars PROVE PageInv'
  OBVIOUS
<1>1. CASE Find \/ FindTop \/ FindParent \/ FindAbove \/ FindWithin \/ CreateElement
  BY <1>1, FindsKeep, FindWithinKeeps, CreateElementKeeps
<1>2. CASE SetInnerHtml \/ SetTextContent \/ AppendChild \/ AppendText \/ SetAttribute \/ RemoveElement
  BY <1>2, SetInnerHtmlKeeps, SetTextContentKeeps, AppendChildKeeps, AppendTextKeeps,
     SetAttributeKeeps, RemoveElementKeeps
<1>3. CASE AddEventListener \/ RemoveEventListener \/ DispatchEvent \/ RunListener
  BY <1>3, PageStays DEF AddEventListener, RemoveEventListener, DispatchEvent, RunListener, docVars, textVars
<1>4. CASE \E w \in DOMAIN elements : Click(w)
  BY <1>4, PageStays DEF Click, docVars, textVars
<1>5. CASE PushState \/ LocationNavigate \/ SetLocationPart \/ HistoryGo
  BY <1>5, PageStays DEF PushState, LocationNavigate, SetLocationPart, HistoryGo, docVars, textVars
<1>6. CASE UNCHANGED vars
  BY <1>6, PageStays DEF vars, docVars, textVars
<1> QED
  BY <1>1, <1>2, <1>3, <1>4, <1>5, <1>6 DEF Next

\* Whatever script does to a document of any shape, the text the tab is given is the
\* serialization of the tree, and the original unless something was mutated (State::mutate,
\* State::doc, flush_writeback).
THEOREM TextFollowsTree == Spec => []HtmlFollowsTree
<1>1. PageInv => HtmlFollowsTree
  BY DEF PageInv, Pages, HtmlFollowsTree
<1> QED
  BY <1>1, PageInvInit, PageInvNext, PTL DEF Spec

\* However the tree is changed, as long as no tree was dropped a wrapper's number
\* means the node it was last read from, or none (State::mutate, resnapshot_after_mutate,
\* cb_set_attribute).
THEOREM WrappersStay == Spec => []WrappersKeepTheirElement
<1>1. PageInv => WrappersKeepTheirElement
  <2> SUFFICES ASSUME PageInv, ~ dropped, NEW w \in DOMAIN elements, OnTree(w), Resolves(Doc, w)
               PROVE  Doc[elements[w].node].born = elements[w].top.born
    BY DEF WrappersKeepTheirElement
  <2>1. doc # << >> /\ doc[elements[w].node].born = elements[w].top.born
    BY DEF PageInv, Wrappers, OnItsNode, OnTree, At
  <2> QED
    BY <2>1, DocIsTree DEF PageInv
<1> QED
  BY <1>1, PageInvInit, PageInvNext, PTL DEF Spec
=============================================================================
