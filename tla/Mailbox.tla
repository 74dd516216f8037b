------------------------------- MODULE Mailbox -------------------------------
(***************************************************************************)
(* An ordered mailbox: items 1, 2, 3, ... are posted, and taken out in that*)
(* order, none of them twice, none skipped and none that was not posted.   *)
(***************************************************************************)
EXTENDS Naturals, Sequences

VARIABLES
  posted,   \* how many items have been posted
  taken     \* the items taken out

Init == posted = 0 /\ taken = << >>

Post == posted' = posted + 1 /\ UNCHANGED taken

Take ==
  /\ Len(taken) < posted
  /\ taken' = Append(taken, Len(taken) + 1)
  /\ UNCHANGED posted

Spec == Init /\ [][Post \/ Take]_<<posted, taken>>
=============================================================================
