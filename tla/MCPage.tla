------------------------------ MODULE MCPage ------------------------------
(* A document with two elements, the second in the first, then a third beside them. *)
EXTENDS Page
Slot(up, tag, name, born) ==
  [up |-> up, tag |-> tag, name |-> name, value |-> "old", born |-> born]
MCOriginal == << Slot(0, "html", "none", 1), Slot(1, "div", "a", 2),
                 Slot(2, "div", "none", 3), Slot(1, "div", "b", 4) >>
=============================================================================
