---------------------------- MODULE LiveDocument ----------------------------
(***************************************************************************)
(* What the tab table promises about the document of a tab: it is the body *)
(* some navigation loaded, followed by the mutations adopted since, one    *)
(* after the other.  No adopted mutation is ever dropped or reordered; only*)
(* a new document or closing the tab ends it.                              *)
(***************************************************************************)
EXTENDS Sequences

CONSTANTS TabIds, Bodies, Mutators, NoDocument

VARIABLE document   \* [TabIds -> body and the mutations applied to it]

Document == [doc : Bodies, muts : Seq(Mutators)]

Init == document = [t \in TabIds |-> NoDocument]

\* A navigation, or a tab opened without one, shows an untouched body.
Load(t, d) ==
  document' = [document EXCEPT ![t] = [doc |-> d, muts |-> << >>]]

\* One more mutation is applied to the document as it is now.
Mutate(t, m) ==
  /\ document[t] # NoDocument
  /\ document' = [document EXCEPT ![t].muts = Append(@, m)]

Close(t) == document' = [document EXCEPT ![t] = NoDocument]

Next ==
  \E t \in TabIds :
    \/ \E d \in Bodies : Load(t, d)
    \/ \E m \in Mutators : Mutate(t, m)
    \/ Close(t)

Spec == Init /\ [][Next]_document
=============================================================================
